--------------------------- MODULE PathResearchProofs ---------------------------
(***************************************************************************)
(* Theorems about PathResearch, for any number of paths, runs, events, chat *)
(* tasks and evidence versions, any market facts, both execution modes, with*)
(* or without faults and overlapping runs.                                  *)
(*                                                                          *)
(*   TypeCorrect         the type invariant                                 *)
(*   AnswersOwned        a row shows only answers to its own trigger        *)
(*   PromotedAfterState  a promoted event was asked in the trigger state    *)
(*   OneLiveChat         a trigger has at most one chat task in play        *)
(*                                                                          *)
(* Each of the last three strengthens its property to an inductive          *)
(* invariant of Spec (AnswersFiled, PromotedAsked, OneOpenChat) that also    *)
(* speaks of the copies the processes hold between a read and a write.      *)
(*                                                                          *)
(* Where runs take turns (Sequential; the second half of the module), the   *)
(* copies follow from the files, which is InTurn, and with it:              *)
(*                                                                          *)
(*   LaneRuns            no stage of a run stops on a record it reads       *)
(*   ResidualKnown       whose task a row IN_PROGRESS without a worker is   *)
(*   QueuedAreOpen       nothing answered is queued where no worker dies    *)
(*   PendingAreQueued    every pending row is queued where nothing is lost  *)
(*   CompletedForGood    an answered question stays answered, likewise      *)
(*   ProjectionsPass     the candidate pool's audit passes (Auditable)      *)
(***************************************************************************)
EXTENDS PathResearch, SequenceTheorems, TLAPS

\* Every maturity band but the first has a reason and a positive rank.
LEMMA Bands ==
    /\ DOMAIN BandRank = DOMAIN BandReason \cup {"T_GT_12M"}
    /\ \A e \in DOMAIN BandRank : BandRank[e] \in Nat
    /\ BandRank["T_GT_12M"] = 0
BY DEF BandRank, BandReason

\* A derived trigger is a trigger key or none.
LEMMA TriggerType ==
    ASSUME NEW p \in Paths, NEW prev, RowOK(prev, p),
           NEW fact \in FactType(p), NEW snap \in Nat
    PROVE  /\ Episode(prev, snap) \in Nat
           /\ Trigger(p, prev, fact, snap) \in Key
<1>1. /\ prev.episode \in Nat /\ prev.price \in Nat
      /\ prev.econ = "KEEP" => prev.ev \in EventStates(p)
      /\ fact.price \in Nat /\ fact.ev \in EventStates(p)
  BY DEF RowOK, FactType
<1>2. Episode(prev, snap) \in Nat
  BY <1>1 DEF Episode
<1>3. NoKey \in Key
  BY DEF Key
<1>4. CASE Kind[p] = MATURITY
  <2>1. /\ fact.ev \in DOMAIN BandRank
        /\ prev.econ = "KEEP" => prev.ev \in DOMAIN BandRank
    BY <1>1, <1>4 DEF EventStates, MATURITY, PUT, REVISION
  <2>2. MaturityTrigger(p, prev, fact, snap) \in Key
    BY <1>1, <1>3, <2>1, Bands 
    DEF MaturityTrigger, NewEpisode, TriggerKey, Key, TKey, Reasons,
        KeepEntryReasons
  <2> QED
    BY <1>2, <1>4, <2>2 DEF Trigger, MATURITY, PUT, REVISION
<1>5. CASE Kind[p] = PUT
  <2>1. PutTrigger(p, prev, fact, snap) \in Key
    BY <1>1, <1>3 DEF PutTrigger, TriggerKey, Key, TKey, Reasons, KeepEntryReasons
  <2> QED
    BY <1>2, <1>5, <2>1 DEF Trigger, MATURITY, PUT, REVISION
<1>6. CASE Kind[p] = REVISION
  <2>1. /\ <<prev.price, fact.price, snap>> \in Seq(Nat)
        /\ <<snap>> \in Seq(Nat)
    BY <1>1
  <2>2. RevisionTrigger(p, prev, fact, snap) \in Key
    BY <1>2, <1>3, <2>1 DEF RevisionTrigger, TriggerKey, Key, TKey, Reasons
  <2> QED
    BY <1>2, <1>6, <2>2 DEF Trigger, MATURITY, PUT, REVISION
<1> QED
  BY <1>4, <1>5, <1>6, KindAssumption DEF Kinds

\* The rules of TriggerRules keep the type of a row.
LEMMA NextRowOK ==
    ASSUME NEW p \in Paths, NEW prev, RowOK(prev, p),
           NEW fact, FactOK(fact, p), NEW snap \in Nat
    PROVE  RowOK(NextRow(p, prev, fact, snap), p)
<1>1. CASE fact.econ = "ABSENT"
  BY <1>1 DEF NextRow, RowOK, AbsentRow, Key, NoEvent, Statuses, Economics
<1>2. CASE fact.econ = "DROP"
  <2>1. fact \in FactType(p)
    BY <1>2 DEF FactOK, NoFact
  <2> QED
    BY <1>2, <2>1 DEF NextRow, RowOK, DroppedRow, FactType, NoEvent, Statuses, Economics
<1>3. CASE fact.econ = "KEEP"
  <2>1. fact \in FactType(p)
    BY <1>3 DEF FactOK, NoFact
  <2> QED
    BY <1>3, <2>1, TriggerType
    DEF NextRow, KeptRow, RowOK, FactType, Statuses, Economics
<1> QED
  BY <1>1, <1>2, <1>3 DEF FactOK, NoFact, FactType, Economics

-----------------------------------------------------------------------------
(* The empty values, and the operators that rebuild rows and functions.     *)

\* The values a process holds when it holds nothing are well typed.
LEMMA EmptyValues ==
    /\ RowsOK(NoRows)
    /\ NoQueue \in QueueType
    /\ \A S, T : Partial(Empty, S, T)
    /\ NoKey \in Key
<1>1. RowsOK(NoRows)
  BY DEF RowsOK, RowOK, NoRows, AbsentRow, Key, NoEvent, Statuses, Economics
<1>2. NoQueue \in QueueType
  BY DEF NoQueue, QueueType
<1>3. \A S, T : Partial(Empty, S, T)
  BY DEF Partial, Empty
<1> QED
  BY <1>1, <1>2, <1>3 DEF Key

\* The key of a row is a trigger key unless the row never had one.
LEMMA KeysOfRows ==
    ASSUME NEW rows, RowsOK(rows), NEW p \in Paths
    PROVE  /\ rows[p].key \in Key
           /\ rows[p].key # NoKey => rows[p].key \in TKey
BY DEF RowsOK, RowOK, Key

\* set_trigger_research_status keeps the type of the rows.
LEMMA MarkType ==
    ASSUME NEW st, RowsOK(st), NEW k, k.path \in Paths, NEW s \in Statuses
    PROVE  RowsOK(Mark(st, k, s))
BY DEF Mark, RowsOK, RowOK

\* Setting one entry of a file keeps its type.
LEMMA PutType ==
    ASSUME NEW S, NEW T, NEW f, Partial(f, S, T), NEW k \in S, NEW v \in T
    PROVE  Partial(Put(f, k, v), S, T)
BY DEF Partial, Put

\* What record_path_research_result files is a ledger entry.
LEMMA EntryIsEntry ==
    ASSUME NEW k \in TKey, NEW outcome
    PROVE  Entry(k, outcome) \in EntryType
BY DEF Entry, EntryType, StatusOf

\* A fresh queue item is a queue item.
LEMMA ItemIsItem ==
    ASSUME NEW k \in TKey
    PROVE  Item(k) \in ItemType
BY DEF Item, ItemType

\* The queue rebuilt from the rows is a queue.
LEMMA RebuiltType ==
    ASSUME NEW rows, RowsOK(rows), NEW r \in Nat
    PROVE  [run |-> r, items |-> RebuiltItems(rows)] \in QueueType
BY KeysOfRows, ItemIsItem DEF RebuiltItems, QueueType

\* The second write of record keeps the type of the state.
LEMMA RecordStateType ==
    ASSUME StateOK, NEW k \in TKey, NEW outcome, RecordState(k, outcome)
    PROVE  StateOK'
<1> DEFINE p == k.path
           row == [state[p] EXCEPT !.status = StatusOf(outcome), !.result = k]
<1>1. p \in Paths
  BY DEF TKey
<1>2. RowOK(row, p)
  BY <1>1 DEF StateOK, RowsOK, RowOK, StatusOf, Statuses, Answered, Key
<1>3. state' = [state EXCEPT ![p] = row]
  BY <1>1 DEF RecordState, StateOK, RowsOK
<1> QED
  BY <1>1, <1>2, <1>3 DEF StateOK, RowsOK

\* The third write of record keeps the type of the queue.
LEMMA RecordQueueType ==
    ASSUME QueueOK, WorkOK, NEW k \in TKey, NEW outcome, RecordQueue(k, outcome)
    PROVE  QueueOK'
<1> DEFINE others  == {i \in queue.items : i.key # k}
           version == IF k \in DOMAIN packs THEN packs[k] ELSE 0
<1>1. version \in Nat
  BY DEF WorkOK, Partial
<1>2. [[Item(k) EXCEPT !.status = HOLD] EXCEPT !.hold = version]
        \in ItemType
  BY <1>1 DEF Item, ItemType
<1> QED
  BY <1>2 DEF QueueOK, QueueType, RecordQueue

\* The queue holds trigger keys only.
LEMMA QueueKeysType ==
    ASSUME QueueOK
    PROVE  QueueKeys \subseteq TKey
BY DEF QueueOK, QueueType, ItemType, QueueKeys

\* A chat task has a trigger key and a status.
LEMMA ChatsType ==
    ASSUME ChatsOK, NEW i \in DOMAIN chats
    PROVE  chats[i] \in ChatType /\ chats[i].key \in TKey /\ i \in Nat
<1>1. chats \in Seq(ChatType) /\ i \in 1..Len(chats)
  BY DEF ChatsOK
<1>2. chats[i] \in ChatType
  BY <1>1
<1> QED
  BY <1>1, <1>2 DEF ChatType

\* A new status of one chat task keeps the type of the chat tasks.
LEMMA ChatUpdateType ==
    ASSUME ChatsOK, NEW i \in DOMAIN chats,
           NEW s \in ChatStatuses,
           chats' = [chats EXCEPT ![i].status = s]
    PROVE  ChatsOK' /\ DOMAIN chats' = DOMAIN chats
<1>1. i \in 1..Len(chats) /\ chats \in Seq(ChatType)
  BY DEF ChatsOK
<1>2. [chats[i] EXCEPT !.status = s] \in ChatType
  BY ChatsType DEF ChatType
<1>3. chats' = [chats EXCEPT ![i] = [chats[i] EXCEPT !.status = s]]
  BY <1>1
<1> QED
  BY <1>1, <1>2, <1>3, ExceptSeq DEF ChatsOK

-----------------------------------------------------------------------------
(* How the lane stops, and how a task of the batch ends.                    *)

\* A lane that stops leaves nothing in its copies.
LEMMA LaneStopsType ==
    ASSUME LaneOK, LaneStops
    PROVE  LaneOK' /\ rpc' = "idle"
BY EmptyValues DEF LaneOK, LaneStops, LanePoints

\* A batch that aborts leaves no worker.
LEMMA BatchAbortsType ==
    ASSUME LaneOK, BatchAborts
    PROVE  LaneOK' /\ WorkerOK'
BY LaneStopsType, EmptyValues DEF BatchAborts, WorkerOK

\* A task that ends returns to the batch.
LEMMA TaskOverType ==
    ASSUME LaneOK, TaskOver
    PROVE  LaneOK' /\ WorkerOK'
BY EmptyValues DEF LaneOK, TaskOver, WorkerOK, LanePoints

\* A task put back to PENDING keeps the types, raising or not.
LEMMA BackToPendingType ==
    ASSUME StateOK, LaneOK, BackToPending
    PROVE  StateOK' /\ LaneOK' /\ WorkerOK'
<1>1. CASE Current(state, wkey)
  <2>1. StateOK'
    BY <1>1, MarkType DEF StateOK, BackToPending, Current, Statuses
  <2> QED
    BY <1>1, <2>1, TaskOverType DEF BackToPending
<1>2. CASE ~Current(state, wkey)
  BY <1>2, BatchAbortsType DEF BackToPending, StateOK
<1> QED
  BY <1>1, <1>2

-----------------------------------------------------------------------------
(* Type correctness.  Every part of TypeOK is about the variables of one    *)
(* tuple, so an action keeps the parts whose variables it leaves alone.     *)

\* An action keeps every part of TypeOK whose variables it leaves alone.
LEMMA Frame ==
    /\ RegistryOK /\ UNCHANGED registry => RegistryOK'
    /\ StateOK /\ UNCHANGED state => StateOK'
    /\ QueueOK /\ UNCHANGED queue => QueueOK'
    /\ LedgerOK /\ UNCHANGED ledger => LedgerOK'
    /\ WorkOK /\ UNCHANGED <<tasks, packs, runner, validated>> => WorkOK'
    /\ EventsOK /\ UNCHANGED events => EventsOK'
    /\ ChatsOK /\ UNCHANGED chats => ChatsOK'
    /\ TriggerOK /\ UNCHANGED trigger => TriggerOK'
    /\ LaneOK /\ UNCHANGED <<rpc, mode, rstate, rqueue, rledger, rkeys, todo>>
          => LaneOK'
    /\ WorkerOK /\ UNCHANGED <<rpc, wpc, wkey, wout>> => WorkerOK'
    /\ ChatterOK /\ UNCHANGED <<chats, cpc, cid, cout>> => ChatterOK'
    /\ HistoryOK /\ UNCHANGED <<asked, answers>> => HistoryOK'
BY DEF RegistryOK, StateOK, QueueOK, LedgerOK, WorkOK, EventsOK, ChatsOK,
       TriggerOK, LaneOK, WorkerOK, ChatterOK, HistoryOK, trigger

\* The initial state is well typed.
LEMMA TypeInit == Init => TypeOK
<1> SUFFICES ASSUME Init PROVE TypeOK
  OBVIOUS
<1> USE EmptyValues DEF Init
<1>1. RegistryOK
  BY DEF RegistryOK, FactOK
<1>2. StateOK /\ QueueOK /\ LedgerOK /\ EventsOK
  BY DEF StateOK, QueueOK, LedgerOK, EventsOK
<1>3. WorkOK /\ ChatsOK /\ TriggerOK /\ HistoryOK
  BY DEF WorkOK, ChatsOK, TriggerOK, HistoryOK
<1>4. LaneOK /\ WorkerOK /\ ChatterOK
  BY DEF LaneOK, LanePoints, WorkerOK, ChatterOK
<1> QED
  BY <1>1, <1>2, <1>3, <1>4 DEF TypeOK

\* A full run keeps the types.
LEMMA TriggerTypes ==
    ASSUME TypeOK, PublishRegistry \/ TriggerStep
    PROVE  TypeOK'
<1> USE DEF TypeOK, files, work, trigger, lane, worker, chatter, history
<1>1. CASE PublishRegistry
  <2>1. RegistryOK'
    BY <1>1, FactsAssumption, BoundsAssumption
    DEF PublishRegistry, RegistryOK, FactOK
  <2>2. TriggerOK'
    BY <1>1 DEF PublishRegistry, TriggerOK
  <2> QED
    BY <1>1, <2>1, <2>2, Frame DEF PublishRegistry
<1>2. CASE TriggerCompute
  <2>1. \A p \in Paths : RowOK(NextRow(p, state[p], registry.facts[p],
                                       registry.snap), p)
    BY NextRowOK DEF RegistryOK, StateOK, RowsOK
  <2>2. TriggerOK'
    BY <1>2, <2>1 DEF TriggerCompute, TriggerOK, RowsOK
  <2> QED
    BY <1>2, <2>2, Frame DEF TriggerCompute
<1>3. CASE TriggerWriteState
  <2>1. StateOK' /\ TriggerOK'
    BY <1>3 DEF TriggerWriteState, TriggerOK, StateOK
  <2>2. HistoryOK'
    BY <1>3, KeysOfRows DEF TriggerWriteState, TriggerOK, HistoryOK
  <2> QED
    BY <1>3, <2>1, <2>2, Frame DEF TriggerWriteState
<1>4. CASE TriggerWriteQueue
  <2>1. QueueOK'
    BY <1>4, RebuiltType DEF TriggerWriteQueue, TriggerOK, RegistryOK, QueueOK
  <2>2. TriggerOK'
    BY <1>4, EmptyValues DEF TriggerWriteQueue, TriggerOK
  <2> QED
    BY <1>4, <2>1, <2>2, Frame DEF TriggerWriteQueue
<1>5. CASE FullRunEnds
  <2>1. TriggerOK'
    BY <1>5 DEF FullRunEnds, TriggerOK, Synced
  <2> QED
    BY <1>5, <2>1, Frame DEF FullRunEnds
<1> QED
  BY <1>1, <1>2, <1>3, <1>4, <1>5 DEF TriggerStep

\* A new event keeps the types.
LEMMA EventTypes ==
    ASSUME TypeOK, NEW p \in Paths, EventArrives(p)
    PROVE  TypeOK'
<1>1. \A n \in 1..MaxEvents : EventKey(p, n) \in TKey
  BY BoundsAssumption DEF EventKey, TriggerKey, TKey, Reasons
<1>2. EventsOK'
  BY <1>1, PutType DEF TypeOK, EventArrives, EventsOK
<1> QED
  BY <1>2, Frame DEF TypeOK, EventArrives, work, trigger, lane, worker,
                     chatter, history

\* The event bridge keeps the types.
LEMMA BridgeTypes ==
    ASSUME TypeOK,
           BridgeRead \/ BridgeWriteState \/ BridgeWriteQueue \/ BridgeCommit
    PROVE  TypeOK'
<1> USE DEF TypeOK, files, work, trigger, lane, worker, chatter, history
<1>1. CASE BridgeRead
  <2>1. Promotable \subseteq TKey /\ Suppressible \subseteq TKey
    BY DEF Promotable, Suppressible, EventsOK, Partial
  <2>2. RowsOK(rstate')
    <3>1. ASSUME NEW p \in Paths
          PROVE  RowOK(rstate'[p], p)
      <4>1. CASE \E k \in Promotable : k.path = p
        <5> DEFINE k == CHOOSE k \in Promotable : k.path = p
        <5>1. k \in Key
          BY <2>1, <4>1 DEF Key
        <5>2. rstate'[p] = [state[p] EXCEPT !.status = "PENDING", !.key = k]
          BY <1>1, <4>1 DEF BridgeRead
        <5> HIDE DEF k
        <5> QED
          BY <5>1, <5>2 DEF StateOK, RowsOK, RowOK, Statuses
      <4>2. CASE ~ \E k \in Promotable : k.path = p
        BY <1>1, <4>2 DEF BridgeRead, StateOK, RowsOK
      <4> QED
        BY <4>1, <4>2
    <3> QED
      BY <1>1, <3>1 DEF BridgeRead, RowsOK
  <2>3. rqueue' \in QueueType
    <3> DEFINE kept == {IF i.key \in Promotable
                        THEN [i EXCEPT !.status = "PENDING"]
                        ELSE i : i \in queue.items}
               new  == {k \in Promotable : \A i \in queue.items : i.key # k}
    <3>1. rqueue' = [run |-> queue.run,
                     items |-> kept \cup {Item(k) : k \in new}]
      BY <1>1 DEF BridgeRead
    <3>2. [run |-> queue.run, items |-> kept] \in QueueType
      BY DEF QueueOK, QueueType, ItemType
    <3>3. [run |-> queue.run, items |-> {Item(k) : k \in new}] \in QueueType
      BY <2>1, ItemIsItem DEF QueueOK, QueueType
    <3> QED
      BY <3>1, <3>2, <3>3 DEF QueueType
  <2>4. LaneOK'
    BY <1>1, <2>1, <2>2, <2>3, ModesAssumption
    DEF BridgeRead, LaneOK, LanePoints
  <2>5. WorkerOK'
    BY <1>1 DEF BridgeRead, WorkerOK
  <2> QED
    BY <1>1, <2>4, <2>5, Frame DEF BridgeRead
<1>2. CASE BridgeWriteState
  <2>1. StateOK' /\ WorkerOK'
    BY <1>2 DEF BridgeWriteState, LaneOK, StateOK, WorkerOK
  <2>2. LaneOK'
    BY <1>2, EmptyValues
    DEF BridgeWriteState, LaneOK, LanePoints, QueueType, RegistryOK
  <2>3. HistoryOK'
    BY <1>2, KeysOfRows DEF BridgeWriteState, LaneOK, HistoryOK
  <2> QED
    BY <1>2, <2>1, <2>2, <2>3, Frame DEF BridgeWriteState
<1>3. CASE BridgeWriteQueue
  <2>1. QueueOK' /\ WorkerOK'
    BY <1>3 DEF BridgeWriteQueue, LaneOK, QueueOK, WorkerOK
  <2>2. LaneOK'
    BY <1>3, EmptyValues DEF BridgeWriteQueue, LaneOK, LanePoints
  <2> QED
    BY <1>3, <2>1, <2>2, Frame DEF BridgeWriteQueue
<1>4. CASE BridgeCommit
  <2>1. EventsOK' /\ WorkerOK'
    BY <1>4 DEF BridgeCommit, EventsOK, Partial, WorkerOK
  <2>2. LaneOK'
    BY <1>4 DEF BridgeCommit, LaneOK, LanePoints
  <2> QED
    BY <1>4, <2>1, <2>2, Frame DEF BridgeCommit
<1> QED
  BY <1>1, <1>2, <1>3, <1>4

\* The task builder keeps the types.
LEMMA BuildTypes ==
    ASSUME TypeOK, BuildNothing \/ BuildRaises \/ BuildTasks
    PROVE  TypeOK'
<1> USE DEF TypeOK, files, work, trigger, lane, worker, chatter, history
<1>1. CASE BuildNothing
  <2>1. LaneOK' /\ WorkerOK'
    BY <1>1 DEF BuildNothing, LaneOK, LanePoints, WorkerOK
  <2> QED
    BY <1>1, <2>1, Frame DEF BuildNothing
<1>2. CASE BuildRaises
  <2>1. WorkOK'
    BY <1>2, QueueKeysType DEF BuildRaises, WorkOK
  <2>2. LaneOK'
    BY <1>2, LaneStopsType DEF BuildRaises
  <2>3. WorkerOK'
    BY <1>2, LaneStopsType DEF BuildRaises, WorkerOK
  <2> QED
    BY <1>2, <2>1, <2>2, <2>3, Frame DEF BuildRaises
<1>3. CASE BuildTasks
  <2>1. WorkOK' /\ EventsOK'
    BY <1>3, QueueKeysType DEF BuildTasks, WorkOK, EventsOK, Partial
  <2>2. LaneOK' /\ WorkerOK'
    BY <1>3, QueueKeysType DEF BuildTasks, LaneOK, LanePoints, WorkerOK
  <2> QED
    BY <1>3, <2>1, <2>2, Frame DEF BuildTasks
<1> QED
  BY <1>1, <1>2, <1>3

\* The reuse of earlier answers keeps the types.
LEMMA ReuseTypes ==
    ASSUME TypeOK,
           \/ ReuseRaises \/ ReuseDecide
           \/ ReuseWriteQueue \/ ReuseWriteState \/ ReuseWriteLedger
    PROVE  TypeOK'
<1> USE DEF TypeOK, files, work, trigger, lane, worker, chatter, history
<1>1. CASE ReuseRaises
  <2>1. LaneOK' /\ WorkerOK'
    BY <1>1, LaneStopsType DEF ReuseRaises, WorkerOK
  <2> QED
    BY <1>1, <2>1, Frame DEF ReuseRaises
<1>2. CASE ReuseDecide
  <2> DEFINE Decided(reused, source) ==
          /\ \A k \in reused : source[k] \in ReuseSources(k)
          /\ rstate' = [p \in Paths |->
               IF state[p].key \in reused
               THEN [state[p] EXCEPT
                       !.status = "COMPLETED",
                       !.result = ledger[source[state[p].key]].result]
               ELSE state[p]]
          /\ rledger' = [k \in DOMAIN ledger \cup reused |->
                           IF k \in reused THEN ledger[source[k]] ELSE ledger[k]]
          /\ rqueue' = [queue EXCEPT !.items = {i \in @ : i.key \notin reused}]
          /\ rkeys' = rkeys \ reused
          /\ answers' = answers \cup
                          {<<k, ledger[source[k]].result>> : k \in reused}
  <2>a. PICK reused \in SUBSET {k \in Reusable : Current(state, k)} :
          \E source \in [reused -> DOMAIN ledger] : Decided(reused, source)
    BY <1>2 DEF ReuseDecide
  <2>1. PICK source \in [reused -> DOMAIN ledger] : Decided(reused, source)
    BY <2>a
  <2>2. /\ reused \subseteq TKey
        /\ \A k \in reused : /\ source[k] \in DOMAIN ledger
                             /\ ledger[source[k]] \in EntryType
                             /\ ledger[source[k]].result \in TKey
    BY DEF Reusable, LaneOK, LedgerOK, Partial, EntryType
  <2>3. RowsOK(rstate')
    <3>1. ASSUME NEW p \in Paths, state[p].key \in reused
          PROVE  RowOK(rstate'[p], p)
      BY <2>1, <2>2, <3>1
      DEF StateOK, RowsOK, RowOK, Statuses, Answered, Key
    <3>2. ASSUME NEW p \in Paths, state[p].key \notin reused
          PROVE  RowOK(rstate'[p], p)
      BY <2>1, <3>2 DEF StateOK, RowsOK
    <3> QED
      BY <2>1, <3>1, <3>2 DEF RowsOK
  <2>4. Partial(rledger', TKey, EntryType)
    BY <2>1, <2>2 DEF LedgerOK, Partial
  <2>5. rqueue' \in QueueType
    BY <2>1 DEF QueueOK, QueueType
  <2>6. LaneOK' /\ WorkerOK'
    BY <1>2, <2>1, <2>3, <2>4, <2>5
    DEF ReuseDecide, LaneOK, LanePoints, WorkerOK
  <2>7. HistoryOK'
    <3>1. {<<k, ledger[source[k]].result>> : k \in reused} \subseteq TKey \X TKey
      BY <2>2
    <3> QED
      BY <1>2, <2>1, <3>1 DEF ReuseDecide, HistoryOK
  <2> QED
    BY <1>2, <2>6, <2>7, Frame DEF ReuseDecide
<1>3. CASE ReuseWriteQueue
  <2>1. QueueOK' /\ LaneOK' /\ WorkerOK'
    BY <1>3 DEF ReuseWriteQueue, QueueOK, LaneOK, LanePoints, WorkerOK
  <2> QED
    BY <1>3, <2>1, Frame DEF ReuseWriteQueue
<1>4. CASE ReuseWriteState
  <2>1. StateOK' /\ LaneOK' /\ WorkerOK'
    BY <1>4, EmptyValues
    DEF ReuseWriteState, StateOK, LaneOK, LanePoints, WorkerOK
  <2>2. HistoryOK'
    BY <1>4, KeysOfRows DEF ReuseWriteState, LaneOK, HistoryOK
  <2> QED
    BY <1>4, <2>1, <2>2, Frame DEF ReuseWriteState
<1>5. CASE ReuseWriteLedger
  <2>1. LedgerOK' /\ LaneOK' /\ WorkerOK'
    BY <1>5, EmptyValues
    DEF ReuseWriteLedger, LedgerOK, LaneOK, LanePoints, WorkerOK
  <2> QED
    BY <1>5, <2>1, Frame DEF ReuseWriteLedger
<1> QED
  BY <1>1, <1>2, <1>3, <1>4, <1>5

\* The evidence stage and the batch loop keep the types.
LEMMA BatchTypes ==
    ASSUME TypeOK,
           BuildEvidence \/ BatchSelect \/ BatchEnds \/ LaneEnds \/ WorkerSpawn
    PROVE  TypeOK'
<1> USE DEF TypeOK, files, work, trigger, lane, worker, chatter, history
<1>1. CASE BuildEvidence
  <2>1. Partial(packs', TKey, Nat)
    BY <1>1 DEF BuildEvidence, LaneOK, WorkOK, Partial
  <2>2. WorkOK' /\ LaneOK' /\ WorkerOK'
    BY <1>1, <2>1 DEF BuildEvidence, WorkOK, LaneOK, LanePoints, WorkerOK
  <2> QED
    BY <1>1, <2>2, Frame DEF BuildEvidence
<1>2. CASE BatchSelect
  <2>1. \A B \in SUBSET {i.key : i \in {j \in queue.items : Runnable(j)}} :
           B \subseteq TKey
    BY DEF QueueOK, QueueType, ItemType
  <2>2. todo' \subseteq TKey
    BY <1>2, <2>1 DEF BatchSelect
  <2>3. LaneOK' /\ WorkerOK'
    BY <1>2, <2>2 DEF BatchSelect, LaneOK, LanePoints, WorkerOK
  <2> QED
    BY <1>2, <2>3, Frame DEF BatchSelect
<1>3. CASE BatchEnds
  <2>1. LaneOK' /\ WorkerOK'
    BY <1>3 DEF BatchEnds, LaneOK, LanePoints, WorkerOK
  <2> QED
    BY <1>3, <2>1, Frame DEF BatchEnds
<1>4. CASE LaneEnds
  <2>1. LaneOK' /\ WorkerOK'
    BY <1>4, LaneStopsType DEF LaneEnds, WorkerOK
  <2>2. TriggerOK'
    BY <1>4 DEF LaneEnds, TriggerOK, Synced
  <2> QED
    BY <1>4, <2>1, <2>2, Frame DEF LaneEnds
<1>5. CASE WorkerSpawn
  <2>1. LaneOK' /\ WorkerOK'
    BY <1>5 DEF WorkerSpawn, LaneOK, LanePoints, WorkerOK, Key
  <2> QED
    BY <1>5, <2>1, Frame DEF WorkerSpawn
<1> QED
  BY <1>1, <1>2, <1>3, <1>4, <1>5

\* The worker subprocess keeps the types.
LEMMA WorkerTypes ==
    ASSUME TypeOK, WorkerStep \/ WorkerCrash
    PROVE  TypeOK'
<1> USE DEF TypeOK, files, work, trigger, lane, worker, chatter, history
<1>1. wpc # "none" => wkey \in TKey
  BY DEF WorkerOK
<1>2. CASE WorkerBegin
  <2>1. StateOK' /\ WorkerOK'
    BY <1>2, MarkType
    DEF WorkerBegin, StateOK, WorkerOK, Current, Statuses
  <2> QED
    BY <1>2, <2>1, Frame DEF WorkerBegin
<1>3. CASE WorkerPass
  <2>1. WorkOK' /\ WorkerOK'
    BY <1>1, <1>3 DEF WorkerPass, WorkOK, WorkerOK
  <2> QED
    BY <1>3, <2>1, Frame DEF WorkerPass
<1>4. CASE WorkerFail
  <2>1. WorkOK'
    BY <1>1, <1>4, PutType DEF WorkerFail, WorkOK
  <2>2. StateOK' /\ WorkerOK'
    BY <1>4, MarkType
    DEF WorkerFail, StateOK, WorkerOK, Current, Statuses
  <2> QED
    BY <1>4, <2>1, <2>2, Frame DEF WorkerFail
<1>5. CASE WorkerRecordLedger
  <2>1. LedgerOK' /\ HistoryOK'
    BY <1>1, <1>5, PutType, EntryIsEntry
    DEF WorkerRecordLedger, RecordLedger, LedgerOK, HistoryOK
  <2>2. WorkerOK'
    BY <1>5 DEF WorkerRecordLedger, WorkerOK
  <2> QED
    BY <1>5, <2>1, <2>2, Frame DEF WorkerRecordLedger, RecordLedger
<1>6. CASE WorkerRecordState
  <2>1. StateOK'
    BY <1>1, <1>6, RecordStateType DEF WorkerRecordState
  <2>2. WorkerOK'
    BY <1>6 DEF WorkerRecordState, WorkerOK
  <2> QED
    BY <1>6, <2>1, <2>2, Frame DEF WorkerRecordState
<1>7. CASE WorkerRecordQueue
  <2>1. QueueOK'
    BY <1>1, <1>7, RecordQueueType DEF WorkerRecordQueue
  <2>2. WorkerOK'
    BY <1>7 DEF WorkerRecordQueue, WorkerOK
  <2> QED
    BY <1>7, <2>1, <2>2, Frame DEF WorkerRecordQueue
<1>8. CASE WorkerReport
  <2>1. WorkOK' /\ WorkerOK'
    BY <1>1, <1>8, PutType DEF WorkerReport, WorkOK, WorkerOK
  <2> QED
    BY <1>8, <2>1, Frame DEF WorkerReport
<1>9. CASE WorkerCrash
  <2>1. WorkerOK'
    BY <1>9 DEF WorkerCrash, Working, WorkerOK
  <2> QED
    BY <1>9, <2>1, Frame DEF WorkerCrash
<1> QED
  BY <1>2, <1>3, <1>4, <1>5, <1>6, <1>7, <1>8, <1>9 DEF WorkerStep

\* The parent's verdict on its worker keeps the types.
LEMMA CollectTypes ==
    ASSUME TypeOK, WorkerTimeout \/ ParentCollects
    PROVE  TypeOK'
<1> USE DEF TypeOK, files, work, trigger, lane, worker, chatter, history
<1>1. StateOK' /\ LaneOK' /\ WorkerOK'
  <2>1. CASE BackToPending
    BY <2>1, BackToPendingType
  <2>2. CASE UNCHANGED state /\ TaskOver
    BY <2>2, TaskOverType DEF StateOK
  <2> QED
    BY <2>1, <2>2 DEF WorkerTimeout, ParentCollects
<1> QED
  BY <1>1, Frame DEF WorkerTimeout, ParentCollects

\* The creation of a chat task keeps the types.
LEMMA ChatTaskTypes ==
    ASSUME TypeOK,
           \/ ChatTaskReused \/ ChatTaskCreate \/ ChatTaskUnprepared
           \/ ChatTaskMarkQueue \/ ChatTaskMarkState
    PROVE  TypeOK'
<1> USE DEF TypeOK, files, work, trigger, lane, worker, chatter, history
<1>1. CASE ChatTaskReused
  <2>1. LaneOK' /\ WorkerOK'
    BY <1>1 DEF ChatTaskReused, LaneOK, WorkerOK
  <2> QED
    BY <1>1, <2>1, Frame DEF ChatTaskReused
<1>2. CASE ChatTaskCreate
  <2>1. \A k \in todo : [key |-> k, status |-> "OPEN"] \in ChatType
    BY DEF LaneOK, ChatType, ChatStatuses
  <2>2. ChatsOK' /\ DOMAIN chats \subseteq DOMAIN chats'
    BY <1>2, <2>1, AppendProperties DEF ChatTaskCreate, ChatsOK
  <2>3. LaneOK' /\ WorkerOK' /\ ChatterOK'
    BY <1>2, <2>2
    DEF ChatTaskCreate, LaneOK, LanePoints, WorkerOK, ChatterOK, Key
  <2> QED
    BY <1>2, <2>2, <2>3, Frame DEF ChatTaskCreate
<1>3. CASE ChatTaskUnprepared
  <2>1. LaneOK' /\ WorkerOK'
    BY <1>3, BatchAbortsType DEF ChatTaskUnprepared
  <2> QED
    BY <1>3, <2>1, Frame DEF ChatTaskUnprepared
<1>4. CASE ChatTaskMarkQueue
  <2>1. QueueOK'
    <3>1. Len(chats) \in Nat
      BY DEF ChatsOK
    <3>2. \A i \in queue.items :
            [i EXCEPT !.status = "WAITING_FOR_CHAT", !.chat = Len(chats)]
              \in ItemType
      BY <3>1 DEF QueueOK, QueueType, ItemType
    <3>3. {IF i.key = wkey
           THEN [i EXCEPT !.status = "WAITING_FOR_CHAT", !.chat = Len(chats)]
           ELSE i : i \in queue.items} \subseteq ItemType
      BY <3>2 DEF QueueOK, QueueType
    <3> QED
      BY <1>4, <3>3 DEF ChatTaskMarkQueue, QueueOK, QueueType
  <2>2. CASE wkey \in QueueKeys
    <3>1. LaneOK' /\ WorkerOK'
      BY <1>4, <2>2 DEF ChatTaskMarkQueue, LaneOK, LanePoints, WorkerOK
    <3> QED
      BY <1>4, <2>1, <3>1, Frame DEF ChatTaskMarkQueue
  <2>3. CASE wkey \notin QueueKeys
    <3>1. LaneOK' /\ WorkerOK'
      BY <1>4, <2>3, BatchAbortsType DEF ChatTaskMarkQueue
    <3> QED
      BY <1>4, <2>1, <3>1, Frame DEF ChatTaskMarkQueue
  <2> QED
    BY <2>2, <2>3
<1>5. CASE ChatTaskMarkState
  <2>1. StateOK'
    BY <1>5, MarkType DEF ChatTaskMarkState, StateOK, Current, Statuses
  <2>2. LaneOK' /\ WorkerOK'
    BY <1>5, TaskOverType, BatchAbortsType DEF ChatTaskMarkState
  <2> QED
    BY <1>5, <2>1, <2>2, Frame DEF ChatTaskMarkState
<1> QED
  BY <1>1, <1>2, <1>3, <1>4, <1>5

\* A submitted resolution and its writeback keep the types.
LEMMA SubmitTypes ==
    ASSUME TypeOK, ChatRejected \/ ChatSubmit \/ ChatStep
    PROVE  TypeOK'
<1> USE DEF TypeOK, files, work, trigger, lane, worker, chatter, history
<1>1. \A i \in DOMAIN chats : chats[i].key \in TKey
  BY ChatsType
<1>2. \A i \in DOMAIN chats : i \in Nat
  BY ChatsType
<1>3. CASE ChatRejected
  <2>1. WorkOK'
    BY <1>3 DEF ChatRejected, WorkOK
  <2>2. ChatsOK' /\ DOMAIN chats' = DOMAIN chats
    BY <1>3, ChatUpdateType DEF ChatRejected, ChatStatuses
  <2>3. ChatterOK'
    BY <1>3, <2>2 DEF ChatRejected, ChatterOK
  <2> QED
    BY <1>3, <2>1, <2>2, <2>3, Frame DEF ChatRejected
<1>4. CASE ChatSubmit
  <2>1. PICK i \in DOMAIN chats :
           /\ validated' = validated \cup {chats[i].key}
           /\ \/ /\ cpc' = "ledger" /\ cid' = i /\ cout' \in Outcomes
                 /\ UNCHANGED chats
              \/ /\ chats' = [chats EXCEPT ![i].status = "WRITEBACK_FAILED"]
                 /\ UNCHANGED chatter
    BY <1>4 DEF ChatSubmit
  <2>2. WorkOK'
    BY <1>1, <1>4, <2>1 DEF ChatSubmit, WorkOK
  <2>3. ChatsOK' /\ DOMAIN chats' = DOMAIN chats
    BY <2>1, ChatUpdateType DEF ChatsOK, ChatStatuses
  <2>4. ChatterOK'
    BY <1>2, <2>1, <2>3 DEF ChatterOK
  <2> QED
    BY <1>4, <2>2, <2>3, <2>4, Frame DEF ChatSubmit
<1>5. cpc # "idle" => cid \in DOMAIN chats /\ chats[cid].key \in TKey
  BY <1>1 DEF ChatterOK
<1>6. ASSUME NEW s \in {"PASS", "WRITEBACK_FAILED"}, cpc # "idle", ChatOver(s)
      PROVE  ChatsOK' /\ ChatterOK'
  BY <1>5, <1>6, ChatUpdateType DEF ChatOver, ChatterOK, ChatStatuses
<1>7. CASE ChatRecordLedger
  <2>1. LedgerOK' /\ HistoryOK'
    BY <1>5, <1>7, PutType, EntryIsEntry
    DEF ChatRecordLedger, RecordLedger, LedgerOK, HistoryOK
  <2>2. ChatterOK'
    BY <1>7 DEF ChatRecordLedger, ChatterOK
  <2> QED
    BY <1>7, <2>1, <2>2, Frame DEF ChatRecordLedger, RecordLedger
<1>8. CASE ChatRecordState
  <2>1. CASE Current(state, chats[cid].key)
    <3>1. StateOK'
      BY <1>5, <1>8, <2>1, RecordStateType DEF ChatRecordState
    <3>2. ChatterOK'
      BY <1>8, <2>1 DEF ChatRecordState, ChatterOK
    <3> QED
      BY <1>8, <2>1, <3>1, <3>2, Frame DEF ChatRecordState
  <2>2. CASE ~Current(state, chats[cid].key)
    BY <1>6, <1>8, <2>2, Frame DEF ChatRecordState
  <2> QED
    BY <2>1, <2>2
<1>9. CASE ChatRecordQueue
  <2>1. QueueOK'
    BY <1>5, <1>9, RecordQueueType DEF ChatRecordQueue
  <2> QED
    BY <1>6, <1>9, <2>1, Frame DEF ChatRecordQueue
<1> QED
  BY <1>3, <1>4, <1>7, <1>8, <1>9 DEF ChatStep

\* The recovery of abandoned chat tasks keeps the types.
LEMMA RecoverTypes ==
    ASSUME TypeOK, Recover
    PROVE  TypeOK'
<1>1. ChatsOK' /\ DOMAIN chats' = DOMAIN chats
  <2>1. \A i \in DOMAIN chats : /\ chats[i] \in ChatType
                                /\ [chats[i] EXCEPT !.status = "SUPERSEDED"]
                                      \in ChatType
    BY ChatsType DEF TypeOK, ChatType, ChatStatuses
  <2>2. /\ chats \in Seq(ChatType)
        /\ DOMAIN chats = 1..Len(chats) /\ Len(chats) \in Nat
    BY DEF TypeOK, ChatsOK
  <2>3. chats' \in [1..Len(chats) -> ChatType]
    BY <2>1, <2>2 DEF Recover
  <2> QED
    BY <2>2, <2>3 DEF ChatsOK
<1>2. QueueOK'
  <2>1. \A i \in queue.items :
          [i EXCEPT !.status = "PENDING", !.chat = 0]
            \in ItemType
    BY DEF TypeOK, QueueOK, QueueType, ItemType
  <2>2. \A keys : {IF i.key \in keys
                   THEN [i EXCEPT !.status = "PENDING", !.chat = 0]
                   ELSE i : i \in queue.items} \subseteq ItemType
    BY <2>1 DEF TypeOK, QueueOK, QueueType
  <2> QED
    BY <2>2 DEF TypeOK, Recover, QueueOK, QueueType
<1>3. StateOK'
  BY DEF TypeOK, Recover, StateOK, RowsOK, RowOK, Statuses
<1>4. ChatterOK'
  BY <1>1 DEF TypeOK, Recover, ChatterOK, chatter
<1> QED
  BY <1>1, <1>2, <1>3, <1>4, Frame
  DEF TypeOK, Recover, work, trigger, lane, worker, chatter, history

\* A restart of the host keeps the types.
LEMMA RebootTypes ==
    ASSUME TypeOK, Reboot
    PROVE  TypeOK'
<1>1. TriggerOK' /\ ChatterOK'
  BY EmptyValues DEF TypeOK, Reboot, TriggerOK, ChatterOK
<1>2. LaneOK' /\ WorkerOK'
  BY BatchAbortsType DEF TypeOK, Reboot
<1> QED
  BY <1>1, <1>2, Frame DEF TypeOK, Reboot, files, work, history

\* Every step keeps the types.
LEMMA TypeNext == TypeOK /\ [Next]_vars => TypeOK'
<1> SUFFICES ASSUME TypeOK, [Next]_vars PROVE TypeOK'
  OBVIOUS
<1>1. CASE UNCHANGED vars
  BY <1>1, Frame
  DEF TypeOK, vars, files, work, trigger, lane, worker, chatter, history
<1>2. CASE LaneStep
  BY <1>2, BridgeTypes, BuildTypes, ReuseTypes, BatchTypes, CollectTypes,
     ChatTaskTypes DEF LaneStep
<1>3. CASE TriggerStep \/ WorkerStep \/ ChatStep
  BY <1>3, TriggerTypes, WorkerTypes, SubmitTypes
<1>4. CASE Environment
  BY <1>4, TriggerTypes, EventTypes, BridgeTypes, SubmitTypes, RecoverTypes,
     WorkerTypes, CollectTypes, RebootTypes DEF Environment
<1> QED
  BY <1>1, <1>2, <1>3, <1>4 DEF Next

\* Every file, copy and process of path research keeps its type, whatever runs
\* beside whatever and wherever it is cut off (TypeOK of PathResearch.tla).
THEOREM TypeCorrect == Spec => []TypeOK
BY TypeInit, TypeNext, PTL DEF Spec

-----------------------------------------------------------------------------
(* Answers.  RowAnswersItsTrigger is not inductive: the copies of the state *)
(* file that the trigger run and the lane hold are written back later, and  *)
(* record writes the ledger a step before the row.                          *)

RowsAnswered(rows) ==
    \A p \in Paths : rows[p].status \in Answered =>
                        <<rows[p].key, rows[p].result>> \in answers

AnswersFiled ==
    /\ RowsAnswered(state) /\ RowsAnswered(trows) /\ RowsAnswered(rstate)
    /\ wpc = "state" => <<wkey, wkey>> \in answers
    /\ cpc = "state" => <<chats[cid].key, chats[cid].key>> \in answers

\* Empty rows show no answer.
LEMMA NoRowsAnswered == RowsAnswered(NoRows)
BY DEF RowsAnswered, NoRows, AbsentRow, Answered, HOLD

\* A row marked with a status that is no answer shows none.
LEMMA MarkAnswers ==
    ASSUME RowsAnswered(state), NEW k, NEW s \in Statuses \ Answered,
           StateOK, state' = Mark(state, k, s), answers \subseteq answers'
    PROVE  RowsAnswered(state)'
BY DEF RowsAnswered, Mark, StateOK, RowsOK

\* The row that record writes shows the answer the ledger was given.
LEMMA RecordAnswers ==
    ASSUME RowsAnswered(state), NEW k \in TKey, NEW outcome, StateOK,
           RecordState(k, outcome), Current(state, k), <<k, k>> \in answers,
           UNCHANGED answers
    PROVE  RowsAnswered(state)'
<1>1. k.path \in Paths /\ state[k.path].key = k
  BY DEF Current
<1>2. /\ state'[k.path].key = k /\ state'[k.path].result = k
      /\ \A p \in Paths : p # k.path => state'[p] = state[p]
  BY <1>1 DEF RecordState, StateOK, RowsOK, RowOK
<1> QED
  BY <1>1, <1>2 DEF RowsAnswered

\* The trigger rules give no row an answer it did not have for its key.
LEMMA NextRowAnswers ==
    ASSUME NEW p \in Paths, NEW prev, RowOK(prev, p), NEW fact,
           FactOK(fact, p), NEW snap,
           prev.status \in Answered => <<prev.key, prev.result>> \in answers,
           NextRow(p, prev, fact, snap).status \in Answered
    PROVE  <<NextRow(p, prev, fact, snap).key,
             NextRow(p, prev, fact, snap).result>> \in answers
<1>1. CASE fact.econ = "ABSENT"
  BY <1>1 DEF NextRow, AbsentRow, Answered, HOLD
<1>2. CASE fact.econ = "DROP"
  BY <1>2 DEF NextRow, DroppedRow, RowOK, Answered, HOLD
<1>3. CASE fact.econ = "KEEP"
  BY <1>3 DEF NextRow, KeptRow, RowOK, Answered, HOLD
<1> QED
  BY <1>1, <1>2, <1>3 DEF FactOK, NoFact, FactType, Economics

\* What an action has to leave alone for its answers to stay filed.
LEMMA AnswersFrame ==
    /\ RowsAnswered(state) /\ UNCHANGED <<state, answers>>
          => RowsAnswered(state)'
    /\ RowsAnswered(trows) /\ UNCHANGED <<trows, answers>>
          => RowsAnswered(trows)'
    /\ RowsAnswered(rstate) /\ UNCHANGED <<rstate, answers>>
          => RowsAnswered(rstate)'
BY DEF RowsAnswered

\* A full run keeps the answers filed, its copy of the rows included.
LEMMA AnswersTrigger ==
    ASSUME TypeOK, AnswersFiled, PublishRegistry \/ TriggerStep
    PROVE  AnswersFiled'
<1> USE DEF AnswersFiled, files, work, trigger, lane, worker, chatter, history
<1>1. CASE TriggerCompute
  <2>1. \A p \in Paths : /\ RowOK(state[p], p)
                         /\ FactOK(registry.facts[p], p)
    BY DEF TypeOK, StateOK, RowsOK, RegistryOK
  <2>2. RowsAnswered(trows)'
    BY <1>1, <2>1, NextRowAnswers DEF TriggerCompute, RowsAnswered
  <2> QED
    BY <1>1, <2>2, AnswersFrame DEF TriggerCompute
<1>2. CASE TriggerWriteState
  BY <1>2, AnswersFrame DEF TriggerWriteState, RowsAnswered
<1>3. CASE TriggerWriteQueue
  <2>1. RowsAnswered(trows)'
    BY <1>3, NoRowsAnswered DEF TriggerWriteQueue, RowsAnswered
  <2> QED
    BY <1>3, <2>1, AnswersFrame DEF TriggerWriteQueue
<1>4. CASE PublishRegistry \/ FullRunEnds
  BY <1>4, AnswersFrame DEF PublishRegistry, FullRunEnds
<1> QED
  BY <1>1, <1>2, <1>3, <1>4 DEF TriggerStep

\* The bridge resets a row to PENDING whenever it changes its key.
LEMMA AnswersBridge ==
    ASSUME TypeOK, AnswersFiled,
           BridgeRead \/ BridgeWriteState \/ BridgeWriteQueue \/ BridgeCommit
    PROVE  AnswersFiled'
<1> USE DEF AnswersFiled, files, work, trigger, lane, worker, chatter, history
<1>1. CASE BridgeRead
  <2>1. \A p \in Paths : \/ rstate'[p].status = "PENDING"
                         \/ rstate'[p] = state[p]
    BY <1>1 DEF BridgeRead, TypeOK, StateOK, RowsOK, RowOK
  <2>2. RowsAnswered(rstate)'
    <3>1. "PENDING" \notin Answered
      BY DEF Answered, HOLD
    <3>2. UNCHANGED answers
      BY <1>1 DEF BridgeRead
    <3> QED
      BY <2>1, <3>1, <3>2 DEF RowsAnswered
  <2> QED
    BY <1>1, <2>2, AnswersFrame DEF BridgeRead
<1>2. CASE BridgeWriteState
  <2>1. RowsAnswered(state)' /\ RowsAnswered(rstate)'
    BY <1>2, NoRowsAnswered DEF BridgeWriteState, RowsAnswered
  <2> QED
    BY <1>2, <2>1, AnswersFrame DEF BridgeWriteState
<1>3. CASE BridgeWriteQueue \/ BridgeCommit
  BY <1>3, AnswersFrame DEF BridgeWriteQueue, BridgeCommit
<1> QED
  BY <1>1, <1>2, <1>3

\* Reuse files an answer for every row it completes.
LEMMA AnswersReuse ==
    ASSUME TypeOK, AnswersFiled,
           ReuseDecide \/ ReuseWriteQueue \/ ReuseWriteState \/ ReuseWriteLedger
    PROVE  AnswersFiled'
<1> USE DEF AnswersFiled, files, work, trigger, lane, worker, chatter, history
<1>1. CASE ReuseDecide
  <2>1. answers \subseteq answers'
    BY <1>1 DEF ReuseDecide
  <2>2. \A p \in Paths : \/ <<rstate'[p].key, rstate'[p].result>> \in answers'
                         \/ rstate'[p] = state[p]
    <3> DEFINE Decided(reused, source) ==
            /\ rstate' = [p \in Paths |->
                 IF state[p].key \in reused
                 THEN [state[p] EXCEPT
                         !.status = "COMPLETED",
                         !.result = ledger[source[state[p].key]].result]
                 ELSE state[p]]
            /\ answers' = answers \cup
                            {<<k, ledger[source[k]].result>> : k \in reused}
    <3>1. PICK reused \in SUBSET {k \in Reusable : Current(state, k)} :
            \E source \in [reused -> DOMAIN ledger] : Decided(reused, source)
      BY <1>1 DEF ReuseDecide
    <3>2. PICK source \in [reused -> DOMAIN ledger] : Decided(reused, source)
      BY <3>1
    <3>3. ASSUME NEW p \in Paths, state[p].key \in reused
          PROVE  /\ rstate'[p].key = state[p].key
                 /\ rstate'[p].result = ledger[source[state[p].key]].result
      BY <3>2, <3>3 DEF TypeOK, StateOK, RowsOK, RowOK
    <3>4. \A k \in reused : <<k, ledger[source[k]].result>> \in answers'
      BY <3>2
    <3>5. ASSUME NEW p \in Paths, state[p].key \notin reused
          PROVE  rstate'[p] = state[p]
      BY <3>2, <3>5
    <3> QED
      BY <3>3, <3>4, <3>5
  <2>3. RowsAnswered(rstate)'
    BY <2>1, <2>2 DEF RowsAnswered
  <2>4. RowsAnswered(state)' /\ RowsAnswered(trows)'
    BY <1>1, <2>1 DEF ReuseDecide, RowsAnswered
  <2> QED
    BY <1>1, <2>1, <2>3, <2>4 DEF ReuseDecide
<1>2. CASE ReuseWriteState
  <2>1. RowsAnswered(state)' /\ RowsAnswered(rstate)'
    BY <1>2, NoRowsAnswered DEF ReuseWriteState, RowsAnswered
  <2> QED
    BY <1>2, <2>1, AnswersFrame DEF ReuseWriteState
<1>3. CASE ReuseWriteQueue \/ ReuseWriteLedger
  BY <1>3, AnswersFrame DEF ReuseWriteQueue, ReuseWriteLedger
<1> QED
  BY <1>1, <1>2, <1>3

\* A lane that stops drops its copy of the rows.
LEMMA LaneStopsAnswers ==
    ASSUME AnswersFiled, LaneStops, UNCHANGED answers
    PROVE  RowsAnswered(rstate)'
BY NoRowsAnswered DEF LaneStops, RowsAnswered

\* The steps that end a task of the batch, by whatever process.
LEMMA AnswersTaskEnds ==
    ASSUME TypeOK, AnswersFiled, UNCHANGED <<trows, chats, chatter, history>>,
           \/ UNCHANGED state /\ TaskOver
           \/ UNCHANGED state /\ BatchAborts
           \/ BackToPending
           \/ ChatTaskMarkState
    PROVE  AnswersFiled'
<1> USE DEF AnswersFiled, chatter, history
<1>1. RowsAnswered(state)'
  <2>1. CASE UNCHANGED state
    BY <2>1, AnswersFrame
  <2>2. CASE \E s \in Statuses \ Answered : state' = Mark(state, wkey, s)
    BY <2>2, MarkAnswers DEF TypeOK
  <2>3. {"PENDING", "WAITING_FOR_CHAT"} \subseteq Statuses \ Answered
    BY DEF Statuses, Answered, HOLD
  <2> QED
    BY <2>1, <2>2, <2>3 DEF BackToPending, ChatTaskMarkState
<1>2. RowsAnswered(rstate)'
  BY LaneStopsAnswers, AnswersFrame
  DEF BackToPending, ChatTaskMarkState, TaskOver, BatchAborts
<1>3. wpc' = "none"
  BY DEF BackToPending, ChatTaskMarkState, TaskOver, BatchAborts
<1> QED
  BY <1>1, <1>2, <1>3, AnswersFrame

\* The builder, the evidence stage and the batch write no answer.
LEMMA AnswersBatch ==
    ASSUME TypeOK, AnswersFiled,
           \/ BuildNothing \/ BuildRaises \/ BuildTasks \/ ReuseRaises
           \/ BuildEvidence \/ BatchSelect \/ BatchEnds \/ LaneEnds
           \/ WorkerSpawn \/ WorkerTimeout \/ ParentCollects
           \/ ChatTaskReused \/ ChatTaskCreate \/ ChatTaskUnprepared
           \/ ChatTaskMarkQueue \/ ChatTaskMarkState
    PROVE  AnswersFiled'
<1>1. CASE WorkerTimeout \/ ParentCollects \/ ChatTaskUnprepared
           \/ ChatTaskMarkState
  BY <1>1, AnswersTaskEnds
  DEF WorkerTimeout, ParentCollects, ChatTaskUnprepared, ChatTaskMarkState,
      files, trigger
<1> USE DEF AnswersFiled, files, work, trigger, lane, worker, chatter, history
<1>2. CASE BuildRaises \/ ReuseRaises \/ LaneEnds
  BY <1>2, LaneStopsAnswers, AnswersFrame DEF BuildRaises, ReuseRaises, LaneEnds
<1>3. CASE BuildNothing \/ BuildTasks \/ BuildEvidence \/ BatchSelect \/ BatchEnds
  BY <1>3, AnswersFrame
  DEF BuildNothing, BuildTasks, BuildEvidence, BatchSelect, BatchEnds
<1>4. CASE WorkerSpawn \/ ChatTaskReused
  BY <1>4, AnswersFrame DEF WorkerSpawn, ChatTaskReused
<1>5. CASE ChatTaskCreate
  <2>1. wpc' = wpc /\ wpc # "state"
    BY <1>5 DEF ChatTaskCreate, TypeOK, WorkerOK
  <2>2. cpc = "state" => chats'[cid] = chats[cid]
    <3>1. \A i \in DOMAIN chats : chats'[i] = chats[i]
      BY <1>5, AppendProperties, ChatsType DEF ChatTaskCreate, TypeOK, ChatsOK
    <3> QED
      BY <3>1 DEF TypeOK, ChatterOK
  <2> QED
    BY <1>5, <2>1, <2>2, AnswersFrame DEF ChatTaskCreate
<1>6. CASE ChatTaskMarkQueue
  <2>1. CASE wkey \in QueueKeys
    BY <1>6, <2>1, AnswersFrame DEF ChatTaskMarkQueue
  <2>2. CASE wkey \notin QueueKeys
    BY <1>6, <2>2, AnswersTaskEnds DEF ChatTaskMarkQueue
  <2> QED
    BY <2>1, <2>2
<1> QED
  BY <1>1, <1>2, <1>3, <1>4, <1>5, <1>6

\* A worker writes a row only for the key whose answer it filed.
LEMMA AnswersWorker ==
    ASSUME TypeOK, AnswersFiled, WorkerStep \/ WorkerCrash
    PROVE  AnswersFiled'
<1> USE DEF AnswersFiled, files, work, trigger, lane, worker, chatter, history
<1>1. {"PENDING", "IN_PROGRESS"} \subseteq Statuses \ Answered
  BY DEF Statuses, Answered, HOLD
<1>2. CASE WorkerBegin \/ WorkerFail
  <2>1. RowsAnswered(state)'
    BY <1>1, <1>2, MarkAnswers, AnswersFrame
    DEF WorkerBegin, WorkerFail, TypeOK
  <2> QED
    BY <1>2, <2>1, AnswersFrame DEF WorkerBegin, WorkerFail
<1>3. CASE WorkerRecordLedger
  BY <1>3 DEF WorkerRecordLedger, RecordLedger, RowsAnswered
<1>4. CASE WorkerRecordState
  <2>1. wkey \in TKey
    BY <1>4 DEF WorkerRecordState, TypeOK, WorkerOK
  <2>2. RowsAnswered(state)'
    BY <1>4, <2>1, RecordAnswers DEF WorkerRecordState, TypeOK
  <2> QED
    BY <1>4, <2>2, AnswersFrame DEF WorkerRecordState
<1>5. CASE WorkerPass \/ WorkerRecordQueue \/ WorkerReport \/ WorkerCrash
  BY <1>5, AnswersFrame
  DEF WorkerPass, WorkerRecordQueue, WorkerReport, WorkerCrash
<1> QED
  BY <1>2, <1>3, <1>4, <1>5 DEF WorkerStep

\* A writeback writes a row only for the key whose answer it filed.
LEMMA AnswersSubmit ==
    ASSUME TypeOK, AnswersFiled, ChatRejected \/ ChatSubmit \/ ChatStep
    PROVE  AnswersFiled'
<1> USE DEF AnswersFiled, files, work, trigger, lane, worker, chatter, history
<1>1. CASE ChatRejected \/ ChatSubmit
  BY <1>1, AnswersFrame DEF ChatRejected, ChatSubmit
<1>2. CASE ChatRecordLedger
  BY <1>2 DEF ChatRecordLedger, RecordLedger, RowsAnswered
<1>3. CASE ChatRecordState
  <2>1. CASE Current(state, chats[cid].key)
    <3>1. chats[cid].key \in TKey
      BY <1>3, ChatsType DEF ChatRecordState, TypeOK, ChatterOK
    <3>2. RowsAnswered(state)'
      BY <1>3, <2>1, <3>1, RecordAnswers DEF ChatRecordState, TypeOK
    <3> QED
      BY <1>3, <2>1, <3>2, AnswersFrame DEF ChatRecordState
  <2>2. CASE ~Current(state, chats[cid].key)
    BY <1>3, <2>2, AnswersFrame DEF ChatRecordState, ChatOver
  <2> QED
    BY <2>1, <2>2
<1>4. CASE ChatRecordQueue
  BY <1>4, AnswersFrame DEF ChatRecordQueue, ChatOver
<1> QED
  BY <1>1, <1>2, <1>3, <1>4 DEF ChatStep

\* Events, the recovery and a restart write no answer.
LEMMA AnswersOthers ==
    ASSUME TypeOK, AnswersFiled,
           \/ \E p \in Paths : EventArrives(p)
           \/ Recover \/ Reboot \/ UNCHANGED vars
    PROVE  AnswersFiled'
<1> USE DEF AnswersFiled, files, work, trigger, lane, worker, chatter, history
<1>1. CASE (\E p \in Paths : EventArrives(p)) \/ UNCHANGED vars
  BY <1>1, AnswersFrame DEF EventArrives, vars
<1>2. CASE Recover
  <2>1. \A p \in Paths : \/ state'[p].status = "PENDING"
                         \/ state'[p] = state[p]
    BY <1>2 DEF Recover, TypeOK, StateOK, RowsOK, RowOK
  <2>2. UNCHANGED <<trows, rstate, answers, wpc, wkey, cpc, cid>>
    BY <1>2 DEF Recover
  <2>3. RowsAnswered(state)'
    <3>1. "PENDING" \notin Answered
      BY DEF Answered, HOLD
    <3> QED
      BY <2>1, <2>2, <3>1 DEF RowsAnswered
  <2>4. cpc = "state" => chats'[cid].key = chats[cid].key
    BY <1>2, ChatsType DEF Recover, TypeOK, ChatterOK, ChatType
  <2> QED
    BY <2>2, <2>3, <2>4, AnswersFrame
<1>3. CASE Reboot
  BY <1>3, LaneStopsAnswers, NoRowsAnswered, AnswersFrame
  DEF Reboot, BatchAborts, RowsAnswered
<1> QED
  BY <1>1, <1>2, <1>3

\* Nothing is answered initially.
LEMMA AnswersInit == Init => AnswersFiled
BY NoRowsAnswered DEF Init, AnswersFiled

\* Every step keeps AnswersFiled.
LEMMA AnswersNext == TypeOK /\ AnswersFiled /\ [Next]_vars => AnswersFiled'
BY AnswersTrigger, AnswersBridge, AnswersReuse, AnswersBatch, AnswersWorker,
   AnswersSubmit, AnswersOthers
DEF Next, LaneStep, Environment

\* A row shows only an answer that was filed for its present trigger, for any
\* number of paths and tasks, overlapping runs, crashes, timeouts and reboots
\* (RowAnswersItsTrigger; research_ledger.py:112-124).
THEOREM AnswersOwned == Spec => []RowAnswersItsTrigger
<1>1. AnswersFiled => RowAnswersItsTrigger
  BY DEF AnswersFiled, RowsAnswered, RowAnswersItsTrigger
<1> QED
  BY <1>1, AnswersInit, AnswersNext, TypeCorrect, PTL DEF Spec

-----------------------------------------------------------------------------
(* Events.  Between the decision of the bridge and its commit the promoted  *)
(* keys live in the lane: first in its copy of the state, then in the file. *)

PromotedAsked ==
    /\ PromotedEventsWereAsked
    /\ rpc = "bridge_state" => \A k \in rkeys : rstate[k.path].key = k
    /\ rpc \in {"bridge_queue", "bridge_commit", "build"} => rkeys \subseteq asked

\* A step that promotes nothing and forgets no key keeps the invariant.
LEMMA PromotedFrame ==
    ASSUME PromotedAsked, UNCHANGED events, asked \subseteq asked'
    PROVE  /\ PromotedEventsWereAsked'
           /\ UNCHANGED <<rpc, rkeys, rstate>> => PromotedAsked'
           /\ rpc' \notin {"bridge_state", "bridge_queue", "bridge_commit",
                           "build"} => PromotedAsked'
BY DEF PromotedAsked, PromotedEventsWereAsked

\* The bridge commits what it wrote to the state file before.
LEMMA PromotedBridge ==
    ASSUME TypeOK, PromotedAsked,
           BridgeRead \/ BridgeWriteState \/ BridgeWriteQueue \/ BridgeCommit
    PROVE  PromotedAsked'
<1> USE DEF files, work, trigger, lane, worker, chatter, history
<1>1. CASE BridgeRead
  <2>1. \A k \in Promotable : /\ k.path \in Paths
                              /\ PendingEvents(k.path) = {k}
                              /\ k \in PendingEvents(k.path)
    BY DEF Promotable, TypeOK, EventsOK, Partial, TKey
  <2>2. ASSUME NEW k \in Promotable
        PROVE  rstate'[k.path].key = k
    <3>1. (CHOOSE e \in Promotable : e.path = k.path) = k
      <4>1. \A e \in Promotable : e.path = k.path => e = k
        BY <2>1
      <4> QED
        BY <4>1
    <3>2. rstate'[k.path] = [state[k.path] EXCEPT !.status = "PENDING",
                               !.key = CHOOSE e \in Promotable : e.path = k.path]
      BY <1>1, <2>1 DEF BridgeRead
    <3>3. k.path \in Paths /\ RowOK(state[k.path], k.path)
      BY <2>1 DEF TypeOK, StateOK, RowsOK
    <3> QED
      BY <3>1, <3>2, <3>3 DEF RowOK
  <2>3. UNCHANGED <<events, asked>> /\ rkeys' = Promotable /\ rpc' = "bridge_state"
    BY <1>1 DEF BridgeRead
  <2> QED
    BY <2>2, <2>3, PromotedFrame DEF PromotedAsked
<1>2. CASE BridgeWriteState
  <2>1. rkeys \subseteq asked'
    BY <1>2 DEF BridgeWriteState, PromotedAsked, TypeOK, LaneOK, TKey
  <2>2. UNCHANGED <<events, rkeys>> /\ asked \subseteq asked'
        /\ rpc' = "bridge_queue"
    BY <1>2 DEF BridgeWriteState
  <2> QED
    BY <2>1, <2>2, PromotedFrame DEF PromotedAsked
<1>3. CASE BridgeWriteQueue
  BY <1>3 DEF BridgeWriteQueue, PromotedAsked, PromotedEventsWereAsked
<1>4. CASE BridgeCommit
  BY <1>4 DEF BridgeCommit, PromotedAsked, PromotedEventsWereAsked
<1> QED
  BY <1>1, <1>2, <1>3, <1>4

\* Every step keeps PromotedAsked.
LEMMA PromotedNext ==
    ASSUME TypeOK, PromotedAsked, [Next]_vars
    PROVE  PromotedAsked'
<1> USE DEF files, work, trigger, lane, worker, chatter, history
<1>1. CASE BridgeRead \/ BridgeWriteState \/ BridgeWriteQueue \/ BridgeCommit
  BY <1>1, PromotedBridge
<1>2. CASE BuildTasks
  BY <1>2 DEF BuildTasks, PromotedAsked, PromotedEventsWereAsked
<1>3. CASE \E p \in Paths : EventArrives(p)
  BY <1>3
  DEF EventArrives, Put, PromotedAsked, PromotedEventsWereAsked
<1>4. CASE UNCHANGED vars \/ TriggerStep \/ PublishRegistry
  BY <1>4, PromotedFrame
  DEF vars, TriggerStep, TriggerCompute, TriggerWriteState, TriggerWriteQueue,
      FullRunEnds, PublishRegistry
<1>5. CASE ReuseRaises \/ ReuseDecide \/ ReuseWriteQueue \/ ReuseWriteState
           \/ ReuseWriteLedger
  BY <1>5, PromotedFrame
  DEF ReuseRaises, ReuseDecide, ReuseWriteQueue, ReuseWriteState,
      ReuseWriteLedger, LaneStops
<1>6. CASE BuildNothing \/ BuildRaises \/ BuildEvidence \/ BatchSelect
           \/ BatchEnds \/ LaneEnds
  BY <1>6, PromotedFrame
  DEF BuildNothing, BuildRaises, BuildEvidence, BatchSelect, BatchEnds,
      LaneEnds, LaneStops
<1>7. CASE WorkerSpawn \/ WorkerTimeout \/ ParentCollects
  BY <1>7, PromotedFrame
  DEF WorkerSpawn, WorkerTimeout, ParentCollects, BackToPending, TaskOver,
      BatchAborts, LaneStops
<1>8. CASE ChatTaskReused \/ ChatTaskCreate \/ ChatTaskUnprepared
           \/ ChatTaskMarkQueue \/ ChatTaskMarkState
  BY <1>8, PromotedFrame
  DEF ChatTaskReused, ChatTaskCreate, ChatTaskUnprepared, ChatTaskMarkQueue,
      ChatTaskMarkState, TaskOver, BatchAborts, LaneStops
<1>9. CASE WorkerStep \/ WorkerCrash
  BY <1>9, PromotedFrame
  DEF WorkerStep, WorkerBegin, WorkerPass, WorkerFail, WorkerRecordLedger,
      WorkerRecordState, WorkerRecordQueue, WorkerReport, WorkerCrash,
      RecordLedger
<1>10. CASE ChatRejected \/ ChatSubmit \/ ChatStep \/ Recover
  BY <1>10, PromotedFrame
  DEF ChatRejected, ChatSubmit, ChatStep, ChatRecordLedger, ChatRecordState,
      ChatRecordQueue, RecordLedger, Recover
<1>11. CASE Reboot
  BY <1>11, PromotedFrame DEF Reboot, BatchAborts, LaneStops
<1> QED
  BY <1>1, <1>2, <1>3, <1>4, <1>5, <1>6, <1>7, <1>8, <1>9, <1>10, <1>11
  DEF Next, LaneStep, Environment

\* An event the database calls promoted was the key of its path's row in the
\* trigger state, wherever the bridge is cut off (PromotedEventsWereAsked;
\* incremental_event_research_bridge.py:179-181).
THEOREM PromotedAfterState == Spec => []PromotedEventsWereAsked
<1>1. Init => PromotedAsked
  BY DEF Init, PromotedAsked, PromotedEventsWereAsked, Empty
<1>2. PromotedAsked => PromotedEventsWereAsked
  BY DEF PromotedAsked
<1> QED
  BY <1>1, <1>2, PromotedNext, TypeCorrect, PTL DEF Spec

-----------------------------------------------------------------------------
(* Chat tasks.  A submission in progress belongs to an open chat task.      *)

OneOpenChat ==
    /\ \A i, j \in DOMAIN chats :
          chats[i].key = chats[j].key /\ OpenChat(i) /\ OpenChat(j) => i = j
    /\ cpc # "idle" => OpenChat(cid)

\* A chat task is open until it passed or was superseded.
LEMMA OpenChats ==
    ASSUME ChatsOK
    PROVE  \A i \in DOMAIN chats :
              OpenChat(i) <=> chats[i].status \notin {"PASS", "SUPERSEDED"}
BY ChatsType DEF OpenChat, ChatType, ChatStatuses

\* The two ways in which the chat tasks change: one more, or another status.
LEMMA OneOpenChatAdded ==
    ASSUME TypeOK, OneOpenChat, ChatTaskCreate
    PROVE  OneOpenChat'
<1>1. PICK k \in todo :
        /\ \A i \in DOMAIN chats : chats[i].key = k => ~OpenChat(i)
        /\ chats' = Append(chats, [key |-> k, status |-> "OPEN"])
  BY DEF ChatTaskCreate
<1> DEFINE n == Len(chats) + 1
<1>2. /\ DOMAIN chats' = DOMAIN chats \cup {n} /\ n \notin DOMAIN chats
      /\ \A i \in DOMAIN chats : chats'[i] = chats[i]
      /\ chats'[n].key = k
  <2>1. [key |-> k, status |-> "OPEN"] \in ChatType /\ chats \in Seq(ChatType)
    BY DEF TypeOK, LaneOK, ChatsOK, ChatType, ChatStatuses
  <2> QED
    BY <1>1, <2>1, AppendProperties
<1>3. UNCHANGED <<cpc, cid>> /\ (cpc # "idle" => cid \in DOMAIN chats)
  BY DEF ChatTaskCreate, chatter, TypeOK, ChatterOK
<1> HIDE DEF n
<1> QED
  BY <1>1, <1>2, <1>3 DEF OneOpenChat, OpenChat

\* No chat task is opened again: then one open task stays one.
LEMMA OneOpenChatKept ==
    ASSUME OneOpenChat, DOMAIN chats' = DOMAIN chats,
           \A i \in DOMAIN chats : /\ chats'[i].key = chats[i].key
                                   /\ OpenChat(i)' => OpenChat(i),
           cpc' # "idle" => OpenChat(cid)'
    PROVE  OneOpenChat'
BY DEF OneOpenChat, OpenChat

\* Every step keeps OneOpenChat.
LEMMA OneOpenChatNext ==
    ASSUME TypeOK, OneOpenChat, [Next]_vars
    PROVE  OneOpenChat'
<1> USE DEF files, work, trigger, lane, worker, chatter, history
<1>1. CASE ChatTaskCreate
  BY <1>1, OneOpenChatAdded
<1>2. CASE UNCHANGED chats /\ (cpc' # "idle" => cpc # "idle" /\ cid' = cid)
  BY <1>2 DEF OneOpenChat, OpenChat
<1>3. ASSUME NEW i \in DOMAIN chats, OpenChat(i), NEW s \in ChatStatuses,
             chats' = [chats EXCEPT ![i].status = s], cpc' = "idle"
      PROVE  OneOpenChat'
  <2>1. /\ DOMAIN chats' = DOMAIN chats
        /\ \A j \in DOMAIN chats : /\ chats'[j].key = chats[j].key
                                   /\ j # i => chats'[j] = chats[j]
    BY <1>3, ChatsType DEF TypeOK, ChatType
  <2> QED
    BY <1>3, <2>1, OneOpenChatKept DEF OpenChat
<1>4. CASE ChatRejected
  BY <1>3, <1>4 DEF ChatRejected, ChatStatuses
<1>5. CASE ChatSubmit
  <2>1. PICK i \in DOMAIN chats :
          /\ OpenChat(i)
          /\ \/ cid' = i /\ UNCHANGED chats
             \/ /\ chats' = [chats EXCEPT ![i].status = "WRITEBACK_FAILED"]
                /\ cpc' = "idle"
    BY <1>5 DEF ChatSubmit
  <2> QED
    BY <1>3, <2>1 DEF OneOpenChat, OpenChat, ChatStatuses
<1>6. cpc # "idle" => cid \in DOMAIN chats /\ OpenChat(cid)
  BY DEF OneOpenChat, TypeOK, ChatterOK
<1>7. CASE ChatRecordLedger
  BY <1>2, <1>7 DEF ChatRecordLedger
<1>8. CASE ChatRecordState
  BY <1>2, <1>3, <1>6, <1>8 DEF ChatRecordState, ChatOver, ChatStatuses
<1>9. CASE ChatRecordQueue
  BY <1>3, <1>6, <1>9 DEF ChatRecordQueue, ChatOver, ChatStatuses
<1>10. CASE Recover
  <2> DEFINE recovered == {i \in DOMAIN chats : Recoverable(i)}
  <2>1. /\ chats' = [i \in DOMAIN chats |->
                       IF i \in recovered
                       THEN [chats[i] EXCEPT !.status = "SUPERSEDED"]
                       ELSE chats[i]]
        /\ UNCHANGED <<cpc, cid>>
    BY <1>10 DEF Recover
  <2>2. cpc # "idle" => cid \notin recovered
    BY DEF Recoverable, Abandoned
  <2> HIDE DEF recovered
  <2>3. \A i \in DOMAIN chats : /\ chats'[i].key = chats[i].key
                                /\ i \in recovered => ~OpenChat(i)'
                                /\ i \notin recovered => chats'[i] = chats[i]
    BY <2>1, ChatsType DEF TypeOK, ChatType, OpenChat
  <2> QED
    BY <1>6, <2>1, <2>2, <2>3, OneOpenChatKept DEF OpenChat
<1>11. CASE \/ UNCHANGED vars \/ PublishRegistry \/ TriggerStep
            \/ \E p \in Paths : EventArrives(p)
  BY <1>2, <1>11
  DEF vars, PublishRegistry, TriggerStep, TriggerCompute, TriggerWriteState,
      TriggerWriteQueue, FullRunEnds, EventArrives
<1>12. CASE \/ BridgeRead \/ BridgeWriteState \/ BridgeWriteQueue \/ BridgeCommit
            \/ BuildNothing \/ BuildRaises \/ BuildTasks
  BY <1>2, <1>12
  DEF BridgeRead, BridgeWriteState, BridgeWriteQueue, BridgeCommit,
      BuildNothing, BuildRaises, BuildTasks
<1>13. CASE ReuseRaises \/ ReuseDecide \/ ReuseWriteQueue \/ ReuseWriteState
            \/ ReuseWriteLedger
  BY <1>2, <1>13
  DEF ReuseRaises, ReuseDecide, ReuseWriteQueue, ReuseWriteState,
      ReuseWriteLedger
<1>14. CASE \/ BuildEvidence \/ BatchSelect \/ BatchEnds \/ LaneEnds
            \/ WorkerSpawn \/ WorkerTimeout \/ ParentCollects \/ WorkerCrash
  BY <1>2, <1>14
  DEF BuildEvidence, BatchSelect, BatchEnds, LaneEnds, WorkerSpawn,
      WorkerTimeout, ParentCollects, WorkerCrash
<1>15. CASE ChatTaskReused \/ ChatTaskUnprepared \/ ChatTaskMarkQueue
            \/ ChatTaskMarkState
  BY <1>2, <1>15
  DEF ChatTaskReused, ChatTaskUnprepared, ChatTaskMarkQueue, ChatTaskMarkState
<1>16. CASE WorkerStep
  BY <1>2, <1>16
  DEF WorkerStep, WorkerBegin, WorkerPass, WorkerFail, WorkerRecordLedger,
      WorkerRecordState, WorkerRecordQueue, WorkerReport
<1>17. CASE Reboot
  BY <1>2, <1>17 DEF Reboot
<1> QED
  BY <1>1, <1>4, <1>5, <1>7, <1>8, <1>9, <1>10, <1>11, <1>12, <1>13, <1>14,
     <1>15, <1>16, <1>17 DEF Next, LaneStep, ChatStep, Environment

\* A trigger never has two chat tasks that can still be answered, whatever the
\* claims, rejections, failed writebacks and recoveries (OneLiveChatPerTrigger;
\* path_research_runner.py:62-78).
THEOREM OneLiveChat == Spec => []OneLiveChatPerTrigger
<1>1. Init => OneOpenChat
  BY DEF Init, OneOpenChat
<1>2. TypeOK /\ OneOpenChat => OneLiveChatPerTrigger
  BY OpenChats DEF TypeOK, OneOpenChat, OneLiveChatPerTrigger
<1> QED
  BY <1>1, <1>2, OneOpenChatNext, TypeCorrect, PTL DEF Spec

-----------------------------------------------------------------------------
(* One run at a time.  The rest holds where the timers keep full and        *)
(* information runs apart, answers come from AUTO_API alone and the host    *)
(* stays up: nobody else writes a file while a run holds a copy of it.      *)

Sequential == ~Overlap /\ CHAT \notin Modes /\ "reboot" \notin Faults

NoCrash == "worker_crash" \notin Faults                \* no worker dies
NoLoss  == NoCrash /\ "timeout" \notin Faults          \* and none is killed

Alone == /\ chats = <<>> /\ cpc = "idle" /\ mode = API
         /\ rpc \notin {"chat_queue", "chat_state"}
         /\ tpc = "idle" \/ rpc = "idle"

\* A row is asked a question of its own path, and says NONE until then.
KeysFit ==
    \A p \in Paths : /\ state[p].key # NoKey => state[p].key.path = p
                     /\ state[p].status # "NONE" => state[p].key # NoKey

\* The rows a full run holds follow from the rows on file.
NextRows == [p \in Paths |-> NextRow(p, state[p], registry.facts[p],
                                     registry.snap)]

TriggerTurn ==
    /\ tpc = "state" => trows = NextRows
    /\ tpc = "queue" => trows = state
    /\ tpc \notin {"trigger", "state"}
          => \A p \in Paths : state[p].econ = registry.facts[p].econ

\* A row the lane holds is the row on file, or what the bridge or the reuse
\* made of it.
Bridged(p) ==
    \E k \in rkeys :
        /\ k.path = p /\ state[p].econ = "KEEP" /\ state[p].key # k
        /\ rstate[p] = [state[p] EXCEPT !.status = "PENDING", !.key = k]

Reused(p) ==
    /\ state[p].key \in DOMAIN rledger /\ state[p].key # NoKey
    /\ rledger[state[p].key].ready
    /\ rstate[p] = [state[p] EXCEPT !.status = "COMPLETED",
                            !.result = rledger[state[p].key].result]

RowsCopied ==
    /\ rpc = "bridge_state"
          => \A p \in Paths : rstate[p] = state[p] \/ Bridged(p)
    /\ rpc \in {"reuse_queue", "reuse_state"}
          => \A p \in Paths : rstate[p] = state[p] \/ Reused(p)

\* The queue the tasks are built from is of the present registry.
RunFits ==
    /\ rpc = "bridge_queue" => rqueue.run = registry.run
    /\ rpc \in {"bridge_commit", "build"} => queue.run = registry.run
    /\ rpc = "reuse" => rkeys \subseteq QueueKeys
    /\ rpc = "reuse_state" => rqueue = queue

\* A row asks about an event only once the event is on its way to PROMOTED.
EventsAsked ==
    /\ rpc \in {"bridge_state", "bridge_queue", "bridge_commit"}
          => rkeys \subseteq DOMAIN events
    /\ \A k \in DOMAIN events : k.reason = "EVENT"
    /\ \A p \in Paths : state[p].key.reason = "EVENT" =>
          /\ state[p].key \in DOMAIN events
          /\ events[state[p].key] = "PENDING"
                => /\ rpc \in {"bridge_queue", "bridge_commit"}
                   /\ state[p].key \in rkeys

\* An item asks the question of its KEEP row, which is unanswered unless the
\* worker is at it (or died at it); without losses every pending row has one.
Unanswered == {"PENDING", "WAITING_FOR_CHAT", HOLD}

Attempted(k) == \/ ~NoCrash
                \/ wkey = k /\ wpc \in {"ai", "ledger", "state", "queue"}

ItemFits(row, k) == /\ row.key = k /\ row.econ = "KEEP"
                    /\ row.status \in Unanswered \/ Attempted(k)

Fits(rows, items) ==
    /\ \A i \in items : i.key.path \in Paths /\ ItemFits(rows[i.key.path], i.key)
    /\ NoLoss => \A p \in Paths :
                    rows[p].econ = "KEEP" /\ rows[p].status = "PENDING"
                        => \E i \in items : i.key = rows[p].key

QueueFits ==
    /\ tpc # "queue" /\ rpc \notin {"bridge_queue", "reuse_state"}
          => Fits(state, queue.items)
    /\ rpc \in {"bridge_state", "reuse_queue"} => Fits(rstate, rqueue.items)
    /\ rpc = "bridge_queue" => Fits(state, rqueue.items)
    /\ rpc = "reuse_state" => Fits(rstate, queue.items)

\* What the batch still has to do is asked of KEEP rows and queued.
BatchFits ==
    /\ rpc \in {"batch", "worker"} =>
          \A k \in todo :
             /\ Current(state, k) /\ state[k.path].econ = "KEEP"
             /\ k \in QueueKeys \/ (rpc = "worker" /\ k = wkey)
    /\ rpc = "worker" => wkey \in todo
    /\ NoLoss /\ wpc \in {"start", "ai", "ledger", "state", "queue", "fail",
                          "dead"} => wkey \in QueueKeys

\* The row of the worker's task.
WorkerFits ==
    /\ wpc \in {"ai", "ledger", "state"}
          => state[wkey.path].status = "IN_PROGRESS"
    /\ wpc = "queue" => state[wkey.path].status = StatusOf(wout)

\* A row that says IN_PROGRESS has its worker, or its worker died and an
\* earlier attempt at the same task passed.
InProgressKnown ==
    \A p \in Paths : state[p].status = "IN_PROGRESS" =>
        \/ wpc \in {"ai", "ledger", "state"} /\ wkey = state[p].key
        \/ /\ ~NoCrash
           /\ (wpc = "dead" /\ wkey = state[p].key) \/ HasPassed(state[p].key)

InTurn == /\ Alone /\ KeysFit /\ TriggerTurn /\ RowsCopied /\ RunFits
          /\ EventsAsked /\ QueueFits /\ BatchFits /\ WorkerFits
          /\ InProgressKnown

\* A derived trigger is of the path it was derived for, and is no event.
LEMMA TriggerOfPath ==
    ASSUME NEW p \in Paths, NEW prev, RowOK(prev, p),
           NEW fact \in FactType(p), NEW snap \in Nat
    PROVE  \/ Trigger(p, prev, fact, snap) = NoKey
           \/ /\ Trigger(p, prev, fact, snap).path = p
              /\ Trigger(p, prev, fact, snap).reason # "EVENT"
<1>1. /\ prev.econ = "KEEP" => prev.ev \in EventStates(p)
      /\ fact.ev \in EventStates(p)
  BY DEF RowOK, FactType
<1>2. CASE Kind[p] = MATURITY
  <2>1. /\ fact.ev \in DOMAIN BandRank
        /\ prev.econ = "KEEP" => prev.ev \in DOMAIN BandRank
    BY <1>1, <1>2 DEF EventStates, MATURITY, PUT, REVISION
  <2>2. \A b \in DOMAIN BandReason : BandReason[b] # "EVENT"
    BY DEF BandReason
  <2>3. \/ MaturityTrigger(p, prev, fact, snap) = NoKey
        \/ /\ MaturityTrigger(p, prev, fact, snap).path = p
           /\ MaturityTrigger(p, prev, fact, snap).reason # "EVENT"
    BY <2>1, <2>2, Bands DEF MaturityTrigger, NewEpisode, TriggerKey
  <2> QED
    BY <1>2, <2>3 DEF Trigger, MATURITY, PUT, REVISION
<1>3. CASE Kind[p] = PUT
  BY <1>3 DEF Trigger, PutTrigger, TriggerKey, MATURITY, PUT, REVISION
<1>4. CASE Kind[p] = REVISION
  <2>1. \A e \in DOMAIN RevisionTriggerStates : RevisionTriggerStates[e] # "EVENT"
    BY DEF RevisionTriggerStates
  <2> QED
    BY <1>4, <2>1 DEF Trigger, RevisionTrigger, TriggerKey, MATURITY, PUT, REVISION
<1> QED
  BY <1>2, <1>3, <1>4, KindAssumption DEF Kinds

\* The four things the trigger rules make of a row.
LEMMA NextRowCases ==
    ASSUME NEW p \in Paths, NEW prev, RowOK(prev, p),
           NEW fact, FactOK(fact, p), NEW snap \in Nat,
           NEW row, row = NextRow(p, prev, fact, snap)
    PROVE  /\ row.econ = fact.econ
           /\ \/ row = AbsentRow
              \/ /\ row.econ = "DROP" /\ row.key = prev.key
                 /\ row.result = prev.result
                 /\ \/ row.status = prev.status /\ prev.status # "PENDING"
                    \/ /\ row.status = "CANCELLED_ECONOMIC_DROP"
                       /\ prev.status = "PENDING"
              \/ /\ row.econ = "KEEP" /\ row.result = prev.result
                 /\ row.key # prev.key /\ row.key # NoKey
                 /\ row.key.path = p /\ row.key.reason # "EVENT"
                 /\ row.key = Trigger(p, prev, fact, snap)
                 /\ row.status = "PENDING"
              \/ /\ row.econ = "KEEP" /\ row.result = prev.result
                 /\ row.key = prev.key /\ row.status = prev.status
                 /\ Trigger(p, prev, fact, snap) \in {NoKey, prev.key}
<1>1. CASE fact.econ = "ABSENT"
  BY <1>1 DEF NextRow, AbsentRow
<1>2. CASE fact.econ = "DROP"
  BY <1>2 DEF NextRow, DroppedRow, RowOK
<1>3. CASE fact.econ = "KEEP"
  <2>1. fact \in FactType(p)
    BY <1>3 DEF FactOK, NoFact
  <2>2. \/ Trigger(p, prev, fact, snap) = NoKey
        \/ /\ Trigger(p, prev, fact, snap).path = p
           /\ Trigger(p, prev, fact, snap).reason # "EVENT"
    BY <2>1, TriggerOfPath
  <2>3. row = KeptRow(p, prev, fact, snap)
    BY <1>3 DEF NextRow
  <2> QED
    BY <1>3, <2>2, <2>3 DEF KeptRow, Emits
<1> QED
  BY <1>1, <1>2, <1>3 DEF FactOK, NoFact, FactType, Economics

\* A lane that is idle has no copy, no task and no worker.
LEMMA IdleLane ==
    ASSUME TypeOK, rpc = "idle"
    PROVE  wpc = "none" /\ RowsCopied /\ RunFits /\ BatchFits /\ WorkerFits
<1>1. wpc = "none"
  BY DEF TypeOK, WorkerOK
<1> QED
  BY <1>1 DEF RowsCopied, RunFits, BatchFits, WorkerFits

\* A full run has its turn while the lane is idle: the lane reads the state
\* and the queue only after both are written.
LEMMA TurnTrigger ==
    ASSUME Sequential, TypeOK, TypeOK', InTurn, PublishRegistry \/ TriggerStep
    PROVE  InTurn'
<1> USE DEF files, work, trigger, lane, worker, chatter, history
<1>1. /\ rpc = "idle" /\ wpc = "none"
      /\ UNCHANGED <<rpc, wpc, wkey, wout, mode, chats, cpc, events, rkeys,
                     runner>>
  BY IdleLane
  DEF InTurn, Alone, Sequential, PublishRegistry, TriggerStep, TriggerCompute,
      TriggerWriteState, TriggerWriteQueue, FullRunEnds
<1>2. Alone' /\ RowsCopied' /\ RunFits' /\ BatchFits' /\ WorkerFits'
  BY <1>1, IdleLane DEF InTurn, Alone, TypeOK, WorkerOK, RowsCopied, RunFits,
                        BatchFits, WorkerFits
<1>3. CASE PublishRegistry
  <2>1. UNCHANGED <<state, queue>> /\ tpc = "idle" /\ tpc' = "trigger"
    BY <1>3 DEF PublishRegistry
  <2> QED
    BY <1>1, <1>2, <2>1
    DEF InTurn, KeysFit, TriggerTurn, EventsAsked, QueueFits, Fits, ItemFits,
        Attempted, InProgressKnown, HasPassed
<1>4. CASE TriggerCompute
  <2>1. /\ UNCHANGED <<state, queue, registry>> /\ tpc = "trigger"
        /\ tpc' = "state" /\ trows' = NextRows
    BY <1>4 DEF TriggerCompute, NextRows
  <2>2. TriggerTurn'
    BY <2>1 DEF TriggerTurn, NextRows
  <2> QED
    BY <1>1, <1>2, <2>1, <2>2
    DEF InTurn, KeysFit, EventsAsked, QueueFits, Fits, ItemFits,
        Attempted, InProgressKnown, HasPassed
<1>5. CASE TriggerWriteState
  <2>1. /\ UNCHANGED <<queue, registry, trows>> /\ tpc = "state"
        /\ tpc' = "queue" /\ state' = NextRows
    BY <1>5 DEF TriggerWriteState, InTurn, TriggerTurn
  <2>2. ASSUME NEW p \in Paths
        PROVE  /\ state'[p].econ = registry.facts[p].econ
               /\ \/ state'[p].key = NoKey /\ state'[p].status = "NONE"
                  \/ /\ state'[p].key = state[p].key
                     /\ state'[p].status = state[p].status
                  \/ /\ state'[p].key = state[p].key /\ state[p].status = "PENDING"
                     /\ state'[p].status = "CANCELLED_ECONOMIC_DROP"
                  \/ /\ state'[p].key # NoKey /\ state'[p].key.path = p
                     /\ state'[p].key.reason # "EVENT"
                     /\ state'[p].status = "PENDING"
    <3>1. /\ RowOK(state[p], p) /\ FactOK(registry.facts[p], p)
          /\ registry.snap \in Nat
      BY DEF TypeOK, StateOK, RowsOK, RegistryOK
    <3>2. state'[p] = NextRow(p, state[p], registry.facts[p], registry.snap)
      BY <2>1 DEF NextRows
    <3>3. AbsentRow.key = NoKey /\ AbsentRow.status = "NONE"
      BY DEF AbsentRow
    <3> QED
      BY <3>1, <3>2, <3>3, NextRowCases
  <2>3. KeysFit'
    BY <2>2 DEF InTurn, KeysFit
  <2>4. TriggerTurn'
    BY <2>1, <2>2 DEF TriggerTurn, InTurn
  <2>5. EventsAsked'
    <3>1. NoKey.reason # "EVENT"
      BY DEF NoKey
    <3>2. EventsAsked
      BY DEF InTurn
    <3>3. ASSUME NEW p \in Paths, state'[p].key.reason = "EVENT"
          PROVE  /\ state'[p].key \in DOMAIN events
                 /\ events[state'[p].key] # "PENDING"
      <4>1. state'[p].key = state[p].key
        BY <2>2, <3>1, <3>3
      <4> QED
        BY <1>1, <3>2, <3>3, <4>1 DEF EventsAsked
    <3> QED
      BY <1>1, <3>2, <3>3 DEF EventsAsked
  <2>6. InProgressKnown'
    BY <1>1, <2>2 DEF InProgressKnown, InTurn, HasPassed
  <2>7. QueueFits'
    BY <1>1, <2>1 DEF QueueFits
  <2> QED
    BY <1>2, <2>3, <2>4, <2>5, <2>6, <2>7 DEF InTurn
<1>6. CASE TriggerWriteQueue
  <2>1. /\ UNCHANGED <<state, registry>> /\ tpc = "queue" /\ tpc' = "pool"
        /\ trows = state /\ queue'.items = RebuiltItems(state)
    BY <1>6 DEF TriggerWriteQueue, InTurn, TriggerTurn
  <2>2. \A i \in RebuiltItems(state) : \E q \in Paths :
            /\ state[q].econ = "KEEP" /\ state[q].status = "PENDING"
            /\ i.key = state[q].key /\ i.key.path = q
    BY DEF RebuiltItems, Item, InTurn, KeysFit
  <2>3. \A p \in Paths : state[p].econ = "KEEP" /\ state[p].status = "PENDING"
           => \E i \in RebuiltItems(state) : i.key = state[p].key
    <3>1. ASSUME NEW p \in Paths, state[p].econ = "KEEP",
                 state[p].status = "PENDING"
          PROVE  Item(state[p].key) \in RebuiltItems(state)
      BY <3>1 DEF RebuiltItems, InTurn, KeysFit
    <3>2. \A k : Item(k).key = k
      BY DEF Item
    <3> QED
      BY <3>1, <3>2
  <2>4. Fits(state, queue.items)'
    BY <2>1, <2>2, <2>3 DEF Fits, ItemFits, Unanswered
  <2>5. QueueFits'
    BY <1>1, <2>4 DEF QueueFits
  <2> QED
    BY <1>1, <1>2, <2>1, <2>5
    DEF InTurn, KeysFit, TriggerTurn, EventsAsked, InProgressKnown, HasPassed
<1>7. CASE FullRunEnds
  <2>1. UNCHANGED <<state, queue, registry, trows>> /\ tpc = "pool" /\ tpc' = "idle"
    BY <1>7 DEF FullRunEnds
  <2> QED
    BY <1>1, <1>2, <2>1
    DEF InTurn, KeysFit, TriggerTurn, EventsAsked, QueueFits, Fits, ItemFits,
        Attempted, InProgressKnown, HasPassed
<1> QED
  BY <1>3, <1>4, <1>5, <1>6, <1>7 DEF TriggerStep

\* A new event is nobody's question yet.
LEMMA TurnEvent ==
    ASSUME Sequential, TypeOK, InTurn, NEW q \in Paths, EventArrives(q)
    PROVE  InTurn'
<1> USE DEF files, work, trigger, lane, worker, chatter, history
<1>1. PICK n \in 1..MaxEvents : /\ EventKey(q, n) \notin DOMAIN events
                                /\ events' = Put(events, EventKey(q, n), "PENDING")
  BY DEF EventArrives
<1>2. EventsAsked'
  <2>1. UNCHANGED <<rpc, rkeys, state>>
    BY DEF EventArrives
  <2>2. /\ DOMAIN events \subseteq DOMAIN events'
        /\ \A k \in DOMAIN events : events'[k] = events[k]
    BY <1>1 DEF Put
  <2> QED
    BY <1>1, <2>1, <2>2 DEF InTurn, EventsAsked, Put, EventKey, TriggerKey
<1>3. UNCHANGED <<registry, state, queue, ledger, work, chats, trigger, lane,
                  worker, chatter, history>>
  BY DEF EventArrives
<1>4. Alone' /\ KeysFit' /\ TriggerTurn' /\ RunFits'
  BY <1>3 DEF InTurn, Alone, KeysFit, TriggerTurn, NextRows, RunFits, QueueKeys
<1>6. RowsCopied'
  <2>1. UNCHANGED <<rpc, state, rstate, rkeys, rledger>>
    BY <1>3
  <2>2. \A p \in Paths : (Bridged(p) => Bridged(p)') /\ (Reused(p) => Reused(p)')
    BY <2>1 DEF Bridged, Reused
  <2> QED
    BY <2>1, <2>2 DEF InTurn, RowsCopied
<1>5. QueueFits' /\ BatchFits' /\ WorkerFits' /\ InProgressKnown'
  BY <1>3 DEF InTurn, QueueFits, Fits, ItemFits, Attempted, BatchFits, Current,
              QueueKeys, WorkerFits, InProgressKnown, HasPassed
<1> QED
  BY <1>2, <1>4, <1>5, <1>6 DEF InTurn

\* The bridge asks about an event only where no other question of its path
\* waits in the queue, so the items of the other paths still fit.
LEMMA TurnBridgeRead ==
    ASSUME Sequential, TypeOK, TypeOK', InTurn, BridgeRead
    PROVE  InTurn'
<1> USE DEF files, work, trigger, lane, worker, chatter, history
<1>1. /\ rpc = "idle" /\ wpc = "none" /\ tpc = "idle" /\ rpc' = "bridge_state"
      /\ UNCHANGED <<state, queue, events, registry, tpc, trows, wpc, wkey, wout,
                     chats, cpc, runner>>
      /\ mode' = API /\ rkeys' = Promotable
  BY IdleLane, ModesAssumption DEF BridgeRead, Sequential
<1>2. \A k \in Promotable :
        /\ k \in DOMAIN events /\ events[k] = "PENDING"
        /\ k.path \in Paths /\ PendingEvents(k.path) = {k}
        /\ state[k.path].econ = "KEEP"
        /\ \A i \in queue.items : i.key.path = k.path => i.key = k
  <2>1. \A k \in Promotable : k \in PendingEvents(k.path) /\ k \in TKey
    BY DEF Promotable, TypeOK, EventsOK, Partial
  <2> QED
    BY <2>1 DEF Promotable, PendingEvents, TKey
<1>3. \A k, l \in Promotable : k.path = l.path => k = l
  BY <1>2
<1>4. ASSUME NEW p \in Paths
      PROVE  \/ rstate'[p] = state[p] /\ \A k \in Promotable : k.path # p
             \/ \E k \in Promotable :
                  /\ k.path = p
                  /\ rstate'[p] = [state[p] EXCEPT !.status = "PENDING", !.key = k]
  BY <1>3 DEF BridgeRead
<1>5. ASSUME NEW k \in Promotable, NEW p \in Paths
      PROVE  state[p].key # k
  BY <1>1, <1>2 DEF InTurn, EventsAsked
<1>6. RowsCopied'
  <2>1. ASSUME NEW p \in Paths
        PROVE  rstate'[p] = state[p] \/ Bridged(p)'
    <3>1. CASE rstate'[p] = state[p]
      BY <1>1, <3>1
    <3>2. CASE \E k \in Promotable :
                  /\ k.path = p
                  /\ rstate'[p] = [state[p] EXCEPT !.status = "PENDING", !.key = k]
      <4>1. PICK k \in Promotable :
                  /\ k.path = p
                  /\ rstate'[p] = [state[p] EXCEPT !.status = "PENDING", !.key = k]
        BY <3>2
      <4>2. state[p].econ = "KEEP" /\ state[p].key # k
        BY <1>2, <1>5, <4>1
      <4> QED
        BY <1>1, <4>1, <4>2 DEF Bridged
    <3> QED
      BY <1>4, <3>1, <3>2
  <2> QED
    BY <1>1, <2>1 DEF RowsCopied
<1>7. EventsAsked'
  BY <1>1, <1>2 DEF InTurn, EventsAsked
<1>8. Fits(state, queue.items)
  BY <1>1 DEF InTurn, QueueFits
<1>9. Fits(rstate, rqueue.items)'
  <2> DEFINE kept == {IF i.key \in Promotable
                      THEN [i EXCEPT !.status = "PENDING"]
                      ELSE i : i \in queue.items}
             new  == {k \in Promotable : \A i \in queue.items : i.key # k}
  <2>1. rqueue'.items = kept \cup {Item(k) : k \in new}
    BY DEF BridgeRead
  <2>2. \A i \in queue.items : /\ [i EXCEPT !.status = "PENDING"].key = i.key
                               /\ i.key \in TKey /\ i.key.path \in Paths
    BY DEF TypeOK, QueueOK, QueueType, ItemType, TKey
  <2>3. /\ \A j \in kept : \E i \in queue.items : j.key = i.key
        /\ \A i \in queue.items : \E j \in kept : j.key = i.key
    BY <2>2
  <2>4. /\ \A j \in {Item(k) : k \in new} : j.key \in Promotable
        /\ \A k \in new : \E j \in {Item(l) : l \in new} : j.key = k
    <3>1. \A k : Item(k).key = k
      BY DEF Item
    <3> QED
      BY <3>1
  <2> HIDE DEF kept
  <2>5. \A k \in Promotable : \E j \in rqueue'.items : j.key = k
    BY <2>1, <2>3, <2>4
  <2> HIDE DEF new
  <2>6. ASSUME NEW j \in rqueue'.items, j.key \in Promotable
        PROVE  j.key.path \in Paths /\ ItemFits(rstate[j.key.path], j.key)'
    <3>1. j.key.path \in Paths /\ state[j.key.path].econ = "KEEP"
      BY <1>2, <2>6
    <3>2. rstate'[j.key.path] = [state[j.key.path] EXCEPT !.status = "PENDING",
                                                         !.key = j.key]
      <4>1. PICK k \in Promotable :
              /\ k.path = j.key.path
              /\ rstate'[j.key.path] = [state[j.key.path] EXCEPT
                                           !.status = "PENDING", !.key = k]
        BY <1>4, <2>6, <3>1
      <4>2. k = j.key
        BY <1>3, <2>6, <4>1
      <4> QED
        BY <4>1, <4>2
    <3>3. RowOK(state[j.key.path], j.key.path)
      BY <3>1 DEF TypeOK, StateOK, RowsOK
    <3> QED
      BY <3>1, <3>2, <3>3 DEF ItemFits, Unanswered, RowOK
  <2>7. ASSUME NEW j \in rqueue'.items, j.key \notin Promotable
        PROVE  j.key.path \in Paths /\ ItemFits(rstate[j.key.path], j.key)'
    <3>1. PICK i \in queue.items : j.key = i.key
      BY <2>1, <2>3, <2>4, <2>7
    <3>2. j.key.path \in Paths /\ ItemFits(state[j.key.path], j.key)
      BY <1>8, <3>1 DEF Fits
    <3>3. rstate'[j.key.path] = state[j.key.path]
      <4>1. \A k \in Promotable : k.path # j.key.path
        BY <1>2, <2>7, <3>1
      <4> QED
        BY <1>4, <3>2, <4>1
    <3> QED
      BY <1>1, <3>2, <3>3 DEF ItemFits, Attempted
  <2>8. ASSUME NoLoss, NEW p \in Paths, rstate'[p].econ = "KEEP",
               rstate'[p].status = "PENDING"
        PROVE  \E j \in rqueue'.items : j.key = rstate'[p].key
    <3>1. CASE rstate'[p] = state[p]
      <4>1. \E i \in queue.items : i.key = state[p].key
        BY <1>8, <2>8, <3>1 DEF Fits
      <4> QED
        BY <2>1, <2>3, <3>1, <4>1
    <3>2. CASE \E k \in Promotable :
                  /\ k.path = p
                  /\ rstate'[p] = [state[p] EXCEPT !.status = "PENDING", !.key = k]
      BY <2>5, <3>2 DEF TypeOK, StateOK, RowsOK, RowOK
    <3> QED
      BY <1>4, <3>1, <3>2
  <2> QED
    BY <2>6, <2>7, <2>8 DEF Fits
<1>10. QueueFits'
  BY <1>1, <1>8, <1>9 DEF QueueFits, Fits, ItemFits, Attempted
<1> QED
  BY <1>1, <1>6, <1>7, <1>10
  DEF InTurn, Alone, KeysFit, TriggerTurn, RunFits, BatchFits, WorkerFits,
      InProgressKnown, HasPassed

\* The bridge writes state, queue and database in this order, and nobody comes
\* in between.
LEMMA TurnBridgeWrite ==
    ASSUME Sequential, TypeOK, TypeOK', InTurn,
           BridgeWriteState \/ BridgeWriteQueue \/ BridgeCommit
    PROVE  InTurn'
<1> USE DEF files, work, trigger, lane, worker, chatter, history
<1>1. /\ tpc = "idle" /\ wpc = "none" /\ wpc' = "none"
      /\ UNCHANGED <<registry, tpc, trows, wkey, wout, chats, cpc, mode, runner,
                     rkeys>>
  BY DEF BridgeWriteState, BridgeWriteQueue, BridgeCommit, InTurn, Alone, TypeOK,
         WorkerOK
<1>2. CASE BridgeWriteState
  <2>1. /\ rpc = "bridge_state" /\ rpc' = "bridge_queue" /\ state' = rstate
        /\ UNCHANGED <<queue, events>> /\ rqueue' = [rqueue EXCEPT !.run = registry.run]
    BY <1>2 DEF BridgeWriteState
  <2>2. ASSUME NEW p \in Paths
        PROVE  \/ state'[p] = state[p]
               \/ /\ state'[p].econ = state[p].econ
                  /\ state'[p].key \in rkeys /\ state'[p].key \in TKey
                  /\ state'[p].key.path = p /\ state'[p].status = "PENDING"
    <3>1. RowOK(state[p], p) /\ rkeys \subseteq TKey
      BY DEF TypeOK, StateOK, RowsOK, LaneOK
    <3>2. CASE rstate[p] = state[p]
      BY <2>1, <3>2
    <3>3. CASE Bridged(p)
      BY <2>1, <3>1, <3>3 DEF Bridged, RowOK
    <3> QED
      BY <2>1, <3>2, <3>3 DEF InTurn, RowsCopied
  <2>3. NoKey \notin TKey
    BY DEF NoKey, TKey, Reasons, KeepEntryReasons, BandReason, RevisionTriggerStates
  <2>4. KeysFit'
    BY <2>2, <2>3 DEF InTurn, KeysFit
  <2>5. TriggerTurn'
    BY <1>1, <2>2 DEF InTurn, TriggerTurn
  <2>6. EventsAsked'
    <3>1. EventsAsked
      BY DEF InTurn
    <3> QED
      BY <1>1, <2>1, <2>2, <3>1 DEF EventsAsked
  <2>7. InProgressKnown'
    BY <1>1, <2>2 DEF InTurn, InProgressKnown, HasPassed
  <2>8. rqueue'.items = rqueue.items /\ rqueue'.run = registry.run
    BY <2>1 DEF TypeOK, LaneOK, QueueType
  <2>9. QueueFits'
    BY <1>1, <2>1, <2>8 DEF InTurn, QueueFits, Fits, ItemFits, Attempted
  <2> QED
    BY <1>1, <2>1, <2>4, <2>5, <2>6, <2>7, <2>8, <2>9
    DEF InTurn, Alone, RowsCopied, RunFits, BatchFits, WorkerFits
<1>3. CASE BridgeWriteQueue
  <2>1. /\ rpc = "bridge_queue" /\ rpc' = "bridge_commit" /\ queue' = rqueue
        /\ UNCHANGED <<state, events>>
    BY <1>3 DEF BridgeWriteQueue
  <2>2. QueueFits'
    BY <1>1, <2>1 DEF InTurn, QueueFits, Fits, ItemFits, Attempted
  <2> QED
    BY <1>1, <2>1, <2>2
    DEF InTurn, Alone, KeysFit, TriggerTurn, RowsCopied, RunFits, EventsAsked,
        BatchFits, WorkerFits, InProgressKnown, HasPassed
<1>4. CASE BridgeCommit
  <2>1. /\ rpc = "bridge_commit" /\ rpc' = "build" /\ UNCHANGED <<state, queue>>
        /\ events' = [k \in DOMAIN events |->
                        IF k \in rkeys THEN "PROMOTED"
                        ELSE IF k \in todo THEN "SUPPRESSED" ELSE events[k]]
    BY <1>4 DEF BridgeCommit
  <2>2. EventsAsked'
    <3>1. EventsAsked
      BY DEF InTurn
    <3> QED
      BY <1>1, <2>1, <3>1 DEF EventsAsked
  <2>3. QueueFits'
    BY <1>1, <2>1 DEF InTurn, QueueFits, Fits, ItemFits, Attempted
  <2> QED
    BY <1>1, <2>1, <2>2, <2>3
    DEF InTurn, Alone, KeysFit, TriggerTurn, RowsCopied, RunFits, BatchFits,
        WorkerFits, InProgressKnown, HasPassed
<1> QED
  BY <1>2, <1>3, <1>4

\* The queue the lane has just written is of the present registry and asks for
\* KEEP paths only, so the task builder does not raise.
LEMMA TurnBuild ==
    ASSUME Sequential, TypeOK, TypeOK', InTurn,
           BuildNothing \/ BuildRaises \/ BuildTasks
    PROVE  InTurn' /\ ~BuildRaises
<1> USE DEF files, work, trigger, lane, worker, chatter, history
<1>1. /\ rpc = "build" /\ tpc = "idle" /\ wpc = "none" /\ wpc' = "none"
      /\ UNCHANGED <<registry, state, queue, tpc, trows, wkey, wout, chats, cpc,
                     runner>>
  BY DEF BuildNothing, BuildRaises, BuildTasks, InTurn, Alone, TypeOK, WorkerOK,
         LaneStops
<1>2. ~BuildRaises
  <2>1. \A k \in QueueKeys : Buildable(k)
    <3>1. Fits(state, queue.items)
      BY <1>1 DEF InTurn, QueueFits
    <3> QED
      BY <1>1, <3>1
      DEF QueueKeys, Buildable, Fits, ItemFits, InTurn, TriggerTurn
  <2>2. queue.run = registry.run
    BY <1>1 DEF InTurn, RunFits
  <2> QED
    BY <2>1, <2>2 DEF BuildRaises
<1>3. CASE BuildNothing
  <2>1. rpc' = "project" /\ UNCHANGED <<mode, rkeys, events>>
    BY <1>3 DEF BuildNothing
  <2> QED
    BY <1>1, <1>2, <2>1
    DEF InTurn, Alone, KeysFit, TriggerTurn, RowsCopied, RunFits, EventsAsked,
        QueueFits, Fits, ItemFits, Attempted, BatchFits, WorkerFits,
        InProgressKnown, HasPassed
<1>4. CASE BuildTasks
  <2>1. /\ rpc' = "reuse" /\ rkeys' = QueueKeys /\ UNCHANGED mode
        /\ events' = [k \in DOMAIN events |->
                        IF k \in rkeys \cap QueueKeys THEN "READY" ELSE events[k]]
    BY <1>4 DEF BuildTasks
  <2>2. EventsAsked'
    <3>1. EventsAsked
      BY DEF InTurn
    <3> QED
      BY <1>1, <2>1, <3>1 DEF EventsAsked
  <2>3. QueueFits'
    BY <1>1, <2>1 DEF InTurn, QueueFits, Fits, ItemFits, Attempted
  <2>4. RunFits'
    BY <1>1, <2>1 DEF RunFits, QueueKeys
  <2> QED
    BY <1>1, <1>2, <2>1, <2>2, <2>3, <2>4
    DEF InTurn, Alone, KeysFit, TriggerTurn, RowsCopied, BatchFits, WorkerFits,
        InProgressKnown, HasPassed
<1> QED
  BY <1>2, <1>3, <1>4

\* What the reuse decides: some rows are completed from a ready answer on
\* file and their items dropped.
LEMMA ReuseDecided ==
    ASSUME TypeOK, ReuseDecide
    PROVE  \E reused \in SUBSET {k \in Reusable : Current(state, k)} :
            /\ \A p \in Paths :
                 \/ state[p].key \notin reused /\ rstate'[p] = state[p]
                 \/ /\ state[p].key \in reused
                    /\ state[p].key \in DOMAIN rledger'
                    /\ rledger'[state[p].key].ready
                    /\ rledger'[state[p].key] \in EntryType
                    /\ rstate'[p] = [state[p] EXCEPT !.status = "COMPLETED",
                                       !.result = rledger'[state[p].key].result]
            /\ \A k \in DOMAIN ledger \ reused :
                 k \in DOMAIN rledger' /\ rledger'[k] = ledger[k]
            /\ rqueue'.items = {i \in queue.items : i.key \notin reused}
<1> DEFINE Decided(reused, source) ==
        /\ \A k \in reused : source[k] \in ReuseSources(k)
        /\ rstate' = [p \in Paths |->
             IF state[p].key \in reused
             THEN [state[p] EXCEPT
                     !.status = "COMPLETED",
                     !.result = ledger[source[state[p].key]].result]
             ELSE state[p]]
        /\ rledger' = [k \in DOMAIN ledger \cup reused |->
                         IF k \in reused THEN ledger[source[k]] ELSE ledger[k]]
        /\ rqueue' = [queue EXCEPT !.items = {i \in @ : i.key \notin reused}]
<1>1. PICK reused \in SUBSET {k \in Reusable : Current(state, k)} :
        \E source \in [reused -> DOMAIN ledger] : Decided(reused, source)
  BY DEF ReuseDecide
<1>2. PICK source \in [reused -> DOMAIN ledger] : Decided(reused, source)
  BY <1>1
<1>3. ASSUME NEW k \in reused
      PROVE  /\ k \in DOMAIN rledger' /\ rledger'[k] = ledger[source[k]]
             /\ rledger'[k].ready /\ rledger'[k] \in EntryType
  <2>1. source[k] \in DOMAIN ledger /\ ledger[source[k]].ready
    BY <1>2, <1>3 DEF ReuseSources
  <2>2. ledger[source[k]] \in EntryType
    BY <2>1 DEF TypeOK, LedgerOK, Partial
  <2> QED
    BY <1>2, <1>3, <2>1, <2>2
<1>4. ASSUME NEW p \in Paths, state[p].key \in reused
      PROVE  rstate'[p] = [state[p] EXCEPT !.status = "COMPLETED",
                             !.result = rledger'[state[p].key].result]
  BY <1>2, <1>3, <1>4
<1>5. ASSUME NEW p \in Paths, state[p].key \notin reused
      PROVE  rstate'[p] = state[p]
  BY <1>2, <1>5
<1>6. \A k \in DOMAIN ledger \ reused :
         k \in DOMAIN rledger' /\ rledger'[k] = ledger[k]
  BY <1>2
<1>7. rqueue'.items = {i \in queue.items : i.key \notin reused}
  BY <1>2 DEF TypeOK, QueueOK, QueueType
<1> QED
  BY <1>3, <1>4, <1>5, <1>6, <1>7

\* Every task the lane has built is asked by its row, so the reuse does not
\* raise, and what it completes leaves the queue.
LEMMA TurnReuse ==
    ASSUME Sequential, TypeOK, TypeOK', InTurn,
           \/ ReuseRaises \/ ReuseDecide
           \/ ReuseWriteQueue \/ ReuseWriteState \/ ReuseWriteLedger
    PROVE  InTurn' /\ ~ReuseRaises
<1> USE DEF files, work, trigger, lane, worker, chatter, history
<1>1. /\ tpc = "idle" /\ wpc = "none" /\ wpc' = "none"
      /\ rpc \in {"reuse", "reuse_queue", "reuse_state", "reuse_ledger"}
      /\ UNCHANGED <<registry, events, tpc, trows, wkey, wout, chats, cpc, runner>>
  BY DEF ReuseRaises, ReuseDecide, ReuseWriteQueue, ReuseWriteState,
         ReuseWriteLedger, InTurn, Alone, TypeOK, WorkerOK, LaneStops
<1>2. ~ReuseRaises
  <2>1. SUFFICES ASSUME rpc = "reuse" PROVE \A k \in rkeys : Current(state, k)
    BY DEF ReuseRaises, Reusable
  <2>2. Fits(state, queue.items) /\ rkeys \subseteq QueueKeys
    BY <1>1, <2>1 DEF InTurn, QueueFits, RunFits
  <2> QED
    BY <2>2 DEF QueueKeys, Fits, ItemFits, Current
<1>3. CASE ReuseDecide
  <2>1. /\ rpc = "reuse" /\ rpc' = "reuse_queue" /\ UNCHANGED <<state, queue, mode>>
    BY <1>3 DEF ReuseDecide
  <2>2. PICK reused \in SUBSET {k \in Reusable : Current(state, k)} :
            /\ \A p \in Paths :
                 \/ state[p].key \notin reused /\ rstate'[p] = state[p]
                 \/ /\ state[p].key \in reused
                    /\ state[p].key \in DOMAIN rledger'
                    /\ rledger'[state[p].key].ready
                    /\ rledger'[state[p].key] \in EntryType
                    /\ rstate'[p] = [state[p] EXCEPT !.status = "COMPLETED",
                                       !.result = rledger'[state[p].key].result]
            /\ \A k \in DOMAIN ledger \ reused :
                 k \in DOMAIN rledger' /\ rledger'[k] = ledger[k]
            /\ rqueue'.items = {i \in queue.items : i.key \notin reused}
    BY <1>3, ReuseDecided
  <2>3. NoKey \notin reused
    <3>1. NoKey \notin TKey
      BY DEF NoKey, TKey, Reasons, KeepEntryReasons, BandReason,
             RevisionTriggerStates
    <3> QED
      BY <3>1 DEF Reusable, TypeOK, LaneOK
  <2>4. RowsCopied'
    <3>1. ASSUME NEW p \in Paths
          PROVE  rstate'[p] = state'[p] \/ Reused(p)'
      BY <2>1, <2>2, <2>3 DEF Reused
    <3> QED
      BY <2>1, <3>1 DEF RowsCopied
  <2>5. Fits(state, queue.items)
    BY <1>1, <2>1 DEF InTurn, QueueFits
  <2>6. Fits(rstate, rqueue.items)'
    <3>1. ASSUME NEW i \in rqueue'.items
          PROVE  i.key.path \in Paths /\ ItemFits(rstate[i.key.path], i.key)'
      <4>1. i \in queue.items /\ i.key \notin reused
        BY <2>2
      <4>2. i.key.path \in Paths /\ ItemFits(state[i.key.path], i.key)
        BY <2>5, <4>1 DEF Fits
      <4>3. rstate'[i.key.path] = state[i.key.path]
        BY <2>2, <4>1, <4>2 DEF ItemFits
      <4> QED
        BY <1>1, <4>2, <4>3 DEF ItemFits, Attempted
    <3>2. ASSUME NoLoss, NEW p \in Paths, rstate'[p].econ = "KEEP",
                 rstate'[p].status = "PENDING"
          PROVE  \E i \in rqueue'.items : i.key = rstate'[p].key
      <4>1. rstate'[p] = state[p] /\ state[p].key \notin reused
        <5>1. RowOK(state[p], p)
          BY DEF TypeOK, StateOK, RowsOK
        <5>2. CASE state[p].key \in reused
          <6>1. rstate'[p] = [state[p] EXCEPT !.status = "COMPLETED",
                                !.result = rledger'[state[p].key].result]
            BY <2>2, <5>2
          <6> QED
            BY <3>2, <5>1, <6>1 DEF RowOK
        <5> QED
          BY <2>2, <5>2
      <4>2. \E i \in queue.items : i.key = state[p].key
        BY <2>5, <3>2, <4>1 DEF Fits
      <4> QED
        BY <2>2, <4>1, <4>2
    <3> QED
      BY <3>1, <3>2 DEF Fits
  <2>7. QueueFits'
    BY <1>1, <2>1, <2>5, <2>6 DEF QueueFits, Fits, ItemFits, Attempted
  <2>8. EventsAsked'
    BY <1>1, <2>1 DEF InTurn, EventsAsked
  <2> QED
    BY <1>1, <1>2, <2>1, <2>4, <2>7, <2>8
    DEF InTurn, Alone, KeysFit, TriggerTurn, RunFits, BatchFits, WorkerFits,
        InProgressKnown, HasPassed
<1>4. CASE ReuseWriteQueue
  <2>1. /\ rpc = "reuse_queue" /\ rpc' = "reuse_state" /\ queue' = rqueue
        /\ UNCHANGED <<state, rstate, rledger, rqueue, mode, rkeys>>
    BY <1>4 DEF ReuseWriteQueue
  <2>2. RowsCopied'
    <3>1. \A p \in Paths : Reused(p) => Reused(p)'
      BY <2>1 DEF Reused
    <3> QED
      BY <2>1, <3>1 DEF InTurn, RowsCopied
  <2>3. QueueFits'
    BY <1>1, <2>1 DEF InTurn, QueueFits, Fits, ItemFits, Attempted
  <2> QED
    BY <1>1, <1>2, <2>1, <2>2, <2>3
    DEF InTurn, Alone, KeysFit, TriggerTurn, RunFits, EventsAsked, BatchFits,
        WorkerFits, InProgressKnown, HasPassed
<1>5. CASE ReuseWriteState
  <2>1. /\ rpc = "reuse_state" /\ rpc' = "reuse_ledger" /\ state' = rstate
        /\ UNCHANGED <<queue, rqueue, mode, rkeys>>
    BY <1>5 DEF ReuseWriteState
  <2>2. ASSUME NEW p \in Paths
        PROVE  \/ state'[p] = state[p]
               \/ /\ state'[p].econ = state[p].econ /\ state'[p].key = state[p].key
                  /\ state[p].key # NoKey /\ state'[p].status = "COMPLETED"
    <3>1. RowOK(state[p], p)
      BY DEF TypeOK, StateOK, RowsOK
    <3>2. CASE rstate[p] = state[p]
      BY <2>1, <3>2
    <3>3. CASE Reused(p)
      BY <2>1, <3>1, <3>3 DEF Reused, RowOK
    <3> QED
      BY <2>1, <3>2, <3>3 DEF InTurn, RowsCopied
  <2>3. KeysFit' /\ TriggerTurn'
    BY <1>1, <2>2 DEF InTurn, KeysFit, TriggerTurn
  <2>4. EventsAsked'
    <3>1. EventsAsked /\ \A p \in Paths : state'[p].key = state[p].key
      BY <2>2 DEF InTurn
    <3> QED
      BY <1>1, <2>1, <3>1 DEF EventsAsked
  <2>5. InProgressKnown'
    BY <1>1, <2>2 DEF InTurn, InProgressKnown, HasPassed
  <2>6. QueueFits'
    BY <1>1, <2>1 DEF InTurn, QueueFits, Fits, ItemFits, Attempted
  <2> QED
    BY <1>1, <1>2, <2>1, <2>3, <2>4, <2>5, <2>6
    DEF InTurn, Alone, RowsCopied, RunFits, BatchFits, WorkerFits
<1>6. CASE ReuseWriteLedger
  <2>1. /\ rpc = "reuse_ledger" /\ rpc' \in {"project", "evidence"}
        /\ UNCHANGED <<state, queue, mode, rkeys>>
    BY <1>6 DEF ReuseWriteLedger
  <2>2. QueueFits'
    BY <1>1, <2>1 DEF InTurn, QueueFits, Fits, ItemFits, Attempted
  <2> QED
    BY <1>1, <1>2, <2>1, <2>2
    DEF InTurn, Alone, KeysFit, TriggerTurn, RowsCopied, RunFits, EventsAsked,
        BatchFits, WorkerFits, InProgressKnown, HasPassed
<1> QED
  BY <1>2, <1>3, <1>4, <1>5, <1>6

\* The stages around the batch change neither row nor item.
LEMMA TurnBatch ==
    ASSUME Sequential, TypeOK, TypeOK', InTurn,
           BuildEvidence \/ BatchSelect \/ BatchEnds \/ LaneEnds \/ WorkerSpawn
    PROVE  InTurn'
<1> USE DEF files, work, trigger, lane, worker, chatter, history
<1>1. /\ tpc = "idle" /\ wpc = "none"
      /\ UNCHANGED <<registry, state, queue, events, tpc, trows, wout, chats,
                     cpc, runner>>
      /\ mode' = API
      /\ rpc \in {"evidence", "select", "batch", "project"}
  BY DEF BuildEvidence, BatchSelect, BatchEnds, LaneEnds, WorkerSpawn, InTurn,
         Alone, TypeOK, WorkerOK, LaneStops
<1>2. /\ wpc' \in {"none", "start"}
      /\ rpc' \in {"select", "batch", "project", "idle", "worker"}
      /\ wpc' = "start" => rpc' = "worker"
  BY <1>1 DEF BuildEvidence, BatchSelect, BatchEnds, LaneEnds, WorkerSpawn, LaneStops
<1>3. Fits(state, queue.items) /\ QueueFits'
  BY <1>1, <1>2 DEF InTurn, QueueFits, Fits, ItemFits, Attempted
<1>4. BatchFits'
  <2>1. CASE BatchSelect
    <3>1. todo' \subseteq {i.key : i \in {j \in queue.items : Runnable(j)}}
      BY <2>1 DEF BatchSelect
    <3>2. \A k \in todo' : \E i \in queue.items : k = i.key
      BY <3>1
    <3>3. /\ wpc' = "none" /\ rpc' = "batch"
      BY <1>1, <2>1 DEF BatchSelect
    <3> QED
      BY <1>1, <1>3, <3>2, <3>3 DEF BatchFits, Fits, ItemFits, Current, QueueKeys
  <2>2. CASE WorkerSpawn
    <3>1. /\ rpc = "batch" /\ rpc' = "worker" /\ wkey' \in todo /\ todo' = todo
      BY <2>2 DEF WorkerSpawn
    <3> QED
      BY <1>1, <1>2, <3>1 DEF InTurn, BatchFits, Current, QueueKeys
  <2>3. CASE BuildEvidence \/ BatchEnds \/ LaneEnds
    <3>1. rpc' \in {"select", "project", "idle"} /\ wpc' = "none"
      BY <1>1, <2>3 DEF BuildEvidence, BatchEnds, LaneEnds, LaneStops
    <3> QED
      BY <3>1 DEF BatchFits
  <2> QED
    BY <2>1, <2>2, <2>3
<1>5. EventsAsked'
  BY <1>1, <1>2 DEF InTurn, EventsAsked
<1>6. InProgressKnown'
  BY <1>1, <1>2 DEF InTurn, InProgressKnown, HasPassed
<1>7. Alone' /\ KeysFit' /\ TriggerTurn' /\ RowsCopied' /\ RunFits' /\ WorkerFits'
  BY <1>1, <1>2
  DEF InTurn, Alone, KeysFit, TriggerTurn, RowsCopied, RunFits, WorkerFits
<1> QED
  BY <1>3, <1>4, <1>5, <1>6, <1>7 DEF InTurn

\* What holds while a worker runs: the full run is idle, the queue is the
\* batch's and the worker's task is asked by its row.
LEMMA AtWork ==
    ASSUME TypeOK, InTurn, wpc # "none"
    PROVE  /\ rpc = "worker" /\ tpc = "idle" /\ wkey \in TKey /\ wkey \in todo
           /\ Current(state, wkey) /\ state[wkey.path].econ = "KEEP"
           /\ wkey.path \in Paths /\ RowOK(state[wkey.path], wkey.path)
           /\ Fits(state, queue.items)
           /\ \A k \in todo : k # wkey => k \in QueueKeys
<1>1. rpc = "worker" /\ wkey \in TKey
  BY DEF TypeOK, WorkerOK
<1>2. tpc = "idle" /\ wkey \in todo /\ Fits(state, queue.items)
  BY <1>1 DEF InTurn, Alone, BatchFits, QueueFits
<1>3. Current(state, wkey) /\ state[wkey.path].econ = "KEEP"
  BY <1>1, <1>2 DEF InTurn, BatchFits
<1>4. wkey.path \in Paths
  BY <1>3 DEF Current
<1> QED
  BY <1>1, <1>2, <1>3, <1>4 DEF InTurn, BatchFits, TypeOK, StateOK, RowsOK

\* A step of the worker or of its parent touches the status and the result of
\* one row at most, and what does not depend on them stands.
OneRowTouched ==
    /\ \A p \in Paths : /\ state'[p].key = state[p].key
                        /\ state'[p].econ = state[p].econ
                        /\ p # wkey.path => state'[p] = state[p]
    /\ UNCHANGED <<registry, events, tpc, trows, chats, cpc, mode, rkeys>>
    /\ rpc' \in {"worker", "batch"}

LEMMA TouchedFrame ==
    ASSUME TypeOK, InTurn, wpc # "none", OneRowTouched
    PROVE  /\ Alone' /\ KeysFit' /\ TriggerTurn' /\ RowsCopied' /\ RunFits'
           /\ EventsAsked'
<1>1. NoKey \notin TKey
  BY DEF NoKey, TKey, Reasons, KeepEntryReasons, BandReason, RevisionTriggerStates
<1>2. rpc = "worker" /\ tpc = "idle" /\ state[wkey.path].key = wkey /\ wkey \in TKey
  BY AtWork DEF Current
<1>3. KeysFit'
  <2>1. ASSUME NEW p \in Paths
        PROVE  /\ state'[p].key # NoKey => state'[p].key.path = p
               /\ state'[p].status # "NONE" => state'[p].key # NoKey
    <3>1. CASE p = wkey.path
      BY <1>1, <1>2, <3>1 DEF OneRowTouched, InTurn, KeysFit
    <3>2. CASE p # wkey.path
      BY <3>2 DEF OneRowTouched, InTurn, KeysFit
    <3> QED
      BY <3>1, <3>2
  <2> QED
    BY <2>1 DEF KeysFit
<1>4. Alone' /\ TriggerTurn' /\ RowsCopied' /\ RunFits'
  BY <1>2 DEF OneRowTouched, InTurn, Alone, TriggerTurn, RowsCopied, RunFits
<1>5. EventsAsked'
  <2>1. EventsAsked
    BY DEF InTurn
  <2> QED
    BY <1>2, <2>1 DEF OneRowTouched, EventsAsked
<1> QED
  BY <1>3, <1>4, <1>5

\* The batch still fits when its todo loses at most the task that is over.
LEMMA TouchedBatch ==
    ASSUME TypeOK, InTurn, wpc # "none", OneRowTouched,
           \/ rpc' = "worker" /\ todo' = todo /\ wkey' = wkey
           \/ rpc' = "batch" /\ todo' = todo \ {wkey} /\ wpc' = "none",
           \A k \in QueueKeys : k = wkey \/ k \in QueueKeys',
           NoLoss /\ wpc' \in {"start", "ai", "ledger", "state", "queue", "fail",
                               "dead"} => wkey \in QueueKeys' /\ wkey' = wkey
    PROVE  BatchFits'
<1>1. /\ wkey \in todo /\ rpc = "worker"
      /\ \A k \in todo : k # wkey => k \in QueueKeys
  BY AtWork
<1>2. \A k \in todo : /\ k.path \in Paths /\ state'[k.path].econ = "KEEP"
                      /\ state'[k.path].key = k
  BY <1>1 DEF InTurn, BatchFits, Current, OneRowTouched
<1>3. \A k \in todo : Current(state', k) /\ state'[k.path].econ = "KEEP"
  BY <1>2 DEF Current
<1>4. CASE rpc' = "worker" /\ todo' = todo /\ wkey' = wkey
  BY <1>1, <1>3, <1>4 DEF BatchFits, Current
<1>5. CASE rpc' = "batch" /\ todo' = todo \ {wkey} /\ wpc' = "none"
  BY <1>1, <1>3, <1>5 DEF BatchFits, Current
<1> QED
  BY <1>4, <1>5

\* An item other than the worker's keeps fitting; the worker's fits by its new
\* status, and a row put back to PENDING is queued.
LEMMA TouchedQueue ==
    ASSUME TypeOK, InTurn, wpc # "none", OneRowTouched, NEW k, k = wkey,
           \A i \in queue'.items :
                \/ i.key # wkey /\ \E j \in queue.items : j.key = i.key
                \/ /\ i.key = wkey
                   /\ state'[k.path].status \in Unanswered \/ Attempted(k)',
           \A l \in QueueKeys : l = wkey \/ l \in QueueKeys',
           NoLoss /\ state'[wkey.path].status = "PENDING" => wkey \in QueueKeys',
           \/ wkey' = wkey
           \/ wpc' = "none"
    PROVE  QueueFits'
<1>1. /\ rpc = "worker" /\ Fits(state, queue.items) /\ wkey.path \in Paths
      /\ state[wkey.path].key = wkey /\ state[wkey.path].econ = "KEEP"
  BY AtWork DEF Current
<1>2. ASSUME NEW i \in queue'.items
      PROVE  i.key.path \in Paths /\ ItemFits(state[i.key.path], i.key)'
  <2>1. CASE i.key = k
    BY <1>1, <2>1 DEF OneRowTouched, ItemFits
  <2>2. CASE i.key # wkey /\ \E j \in queue.items : j.key = i.key
    <3>1. i.key.path \in Paths /\ ItemFits(state[i.key.path], i.key)
      BY <1>1, <2>2 DEF Fits
    <3>2. i.key.path # wkey.path
      BY <1>1, <2>2, <3>1 DEF ItemFits
    <3>3. state'[i.key.path] = state[i.key.path]
      BY <3>1, <3>2 DEF OneRowTouched
    <3>4. Attempted(i.key) => Attempted(i.key)'
      BY <2>2 DEF Attempted
    <3> QED
      BY <3>1, <3>3, <3>4 DEF ItemFits
  <2> QED
    BY <2>1, <2>2
<1>3. ASSUME NoLoss, NEW p \in Paths, state'[p].econ = "KEEP",
             state'[p].status = "PENDING"
      PROVE  \E i \in queue'.items : i.key = state'[p].key
  <2>1. CASE p = wkey.path
    BY <1>1, <1>3, <2>1 DEF OneRowTouched, QueueKeys
  <2>2. CASE p # wkey.path
    <3>1. state'[p] = state[p]
      BY <2>2 DEF OneRowTouched
    <3>2. state[p].key \in QueueKeys
      BY <1>1, <1>3, <3>1 DEF Fits, QueueKeys
    <3>3. state[p].key # wkey
      <4>1. state[p].status # "NONE" /\ NoKey # state[p].key
        BY <1>3, <3>1 DEF InTurn, KeysFit
      <4> QED
        BY <2>2, <4>1 DEF InTurn, KeysFit
    <3> QED
      BY <3>1, <3>2, <3>3 DEF QueueKeys
  <2> QED
    BY <2>1, <2>2
<1>4. Fits(state, queue.items)'
  BY <1>2, <1>3 DEF Fits
<1> QED
  BY <1>4 DEF QueueFits, OneRowTouched

\* A status written over the row of the worker's task.
LEMMA MarkTouches ==
    ASSUME TypeOK, InTurn, wpc # "none", NEW s \in Statuses,
           state' = Mark(state, wkey, s)
    PROVE  /\ \A p \in Paths : /\ state'[p].key = state[p].key
                               /\ state'[p].econ = state[p].econ
                               /\ p # wkey.path => state'[p] = state[p]
           /\ state'[wkey.path].status = s
BY AtWork DEF Mark, TypeOK, StateOK, RowsOK, RowOK

\* The steps of the worker.
LEMMA TurnWorker ==
    ASSUME Sequential, TypeOK, TypeOK', InTurn, WorkerStep \/ WorkerCrash
    PROVE  InTurn'
<1> USE DEF files, work, trigger, lane, worker, chatter, history
<1>1. /\ wpc # "none" /\ wpc' # "none" /\ rpc' = "worker"
      /\ UNCHANGED <<registry, events, tpc, trows, chats, cpc, mode, rkeys, rpc,
                     todo, wkey>>
  BY AtWork
  DEF WorkerStep, WorkerBegin, WorkerPass, WorkerFail, WorkerRecordLedger,
      WorkerRecordState, WorkerRecordQueue, WorkerReport, WorkerCrash, Working
<1>2. /\ Current(state, wkey) /\ wkey.path \in Paths /\ wkey \in TKey
      /\ state[wkey.path].key = wkey /\ Fits(state, queue.items)
      /\ \A p \in Paths : p # wkey.path => state[p].key # wkey
  <2>1. wkey # NoKey
    BY <1>1, AtWork
    DEF NoKey, TKey, Reasons, KeepEntryReasons, BandReason, RevisionTriggerStates
  <2> QED
    BY <1>1, <2>1, AtWork DEF Current, InTurn, KeysFit
<1>3. PICK k : k = wkey
  OBVIOUS
<1>4. \A i \in queue.items : i.key = wkey => ItemFits(state[wkey.path], wkey)
  BY <1>2 DEF Fits
<1>5. CASE WorkerBegin
  <2>1. CASE state' = Mark(state, wkey, "IN_PROGRESS") /\ wpc' = "ai"
    <3>1. /\ OneRowTouched /\ state'[wkey.path].status = "IN_PROGRESS"
          /\ wpc = "start" /\ UNCHANGED <<queue, runner>>
      BY <1>1, <1>5, <2>1, MarkTouches DEF WorkerBegin, OneRowTouched, Statuses
    <3>2. BatchFits'
      <4>1. NoLoss => wkey \in QueueKeys
        BY <3>1 DEF InTurn, BatchFits
      <4> QED
        BY <1>1, <3>1, <4>1, TouchedBatch DEF QueueKeys
    <3>3. QueueFits'
      <4>1. Attempted(k)'
        BY <1>1, <1>3, <2>1 DEF Attempted
      <4> QED
        BY <1>1, <1>3, <3>1, <4>1, TouchedQueue DEF QueueKeys
    <3>4. InProgressKnown' /\ WorkerFits'
      BY <1>1, <1>2, <2>1, <3>1
      DEF OneRowTouched, InTurn, InProgressKnown, WorkerFits, HasPassed
    <3> QED
      BY <1>1, <3>1, <3>2, <3>3, <3>4, TouchedFrame DEF InTurn
  <2>2. CASE UNCHANGED state /\ wpc' = "dead"
    <3>1. OneRowTouched /\ wpc = "start" /\ UNCHANGED <<queue, runner>>
      BY <1>1, <1>5, <2>2 DEF WorkerBegin, OneRowTouched
    <3>2. BatchFits'
      <4>1. NoLoss => wkey \in QueueKeys
        BY <3>1 DEF InTurn, BatchFits
      <4> QED
        BY <1>1, <3>1, <4>1, TouchedBatch DEF QueueKeys
    <3>3. QueueFits'
      <4>1. (Attempted(k) => Attempted(k)') /\ \A p \in Paths : state'[p] = state[p]
        BY <1>3, <2>2, <3>1 DEF Attempted
      <4>2. NoLoss /\ state[wkey.path].status = "PENDING" => wkey \in QueueKeys
        BY <1>1, <1>2, AtWork DEF Fits, QueueKeys
      <4> QED
        BY <1>1, <1>2, <1>3, <1>4, <3>1, <4>1, <4>2, TouchedQueue
        DEF QueueKeys, ItemFits
    <3>4. InProgressKnown' /\ WorkerFits'
      BY <1>1, <1>2, <2>2, <3>1
      DEF OneRowTouched, InTurn, InProgressKnown, WorkerFits, HasPassed
    <3> QED
      BY <1>1, <3>1, <3>2, <3>3, <3>4, TouchedFrame DEF InTurn
  <2> QED
    BY <1>5, <2>1, <2>2 DEF WorkerBegin
<1>6. CASE WorkerPass \/ WorkerRecordLedger
  <2>1. /\ OneRowTouched /\ UNCHANGED <<state, queue, runner>>
        /\ wpc \in {"ai", "ledger"} /\ wpc' \in {"ledger", "state"}
    BY <1>1, <1>6 DEF WorkerPass, WorkerRecordLedger, RecordLedger, OneRowTouched
  <2>2. BatchFits'
    <3>1. NoLoss => wkey \in QueueKeys
      BY <2>1 DEF InTurn, BatchFits
    <3> QED
      BY <1>1, <2>1, <3>1, TouchedBatch DEF QueueKeys
  <2>3. QueueFits'
    <3>1. Attempted(k)'
      BY <1>1, <1>3, <2>1 DEF Attempted
    <3>2. NoLoss => wkey \in QueueKeys
      BY <2>1 DEF InTurn, BatchFits
    <3> QED
      BY <1>1, <1>3, <2>1, <3>1, <3>2, TouchedQueue DEF QueueKeys
  <2>4. InProgressKnown' /\ WorkerFits'
    BY <1>1, <2>1 DEF InTurn, InProgressKnown, WorkerFits, HasPassed
  <2> QED
    BY <1>1, <2>1, <2>2, <2>3, <2>4, TouchedFrame DEF InTurn
<1>7. CASE WorkerFail
  <2>1. /\ state' = Mark(state, wkey, "PENDING") /\ wpc' = "fail" /\ wpc = "ai"
        /\ UNCHANGED queue /\ runner' = Put(runner, wkey, "FAIL")
    BY <1>2, <1>7 DEF WorkerFail
  <2>2. OneRowTouched /\ state'[wkey.path].status = "PENDING"
    BY <1>1, <2>1, MarkTouches DEF OneRowTouched, Statuses
  <2>3. NoLoss => wkey \in QueueKeys
    BY <2>1 DEF InTurn, BatchFits
  <2>4. BatchFits'
    BY <1>1, <2>1, <2>2, <2>3, TouchedBatch DEF QueueKeys
  <2>5. QueueFits'
    BY <1>1, <1>3, <2>1, <2>2, <2>3, TouchedQueue DEF QueueKeys, Unanswered
  <2>6. WorkerFits'
    BY <2>1 DEF WorkerFits
  <2>7. InProgressKnown'
    <3>1. ASSUME NEW p \in Paths, state'[p].status = "IN_PROGRESS"
          PROVE  ~NoCrash /\ HasPassed(state[p].key)'
      <4>1. p # wkey.path /\ state'[p] = state[p] /\ state[p].key # wkey
        BY <1>2, <2>2, <3>1 DEF OneRowTouched
      <4>2. ~NoCrash /\ HasPassed(state[p].key)
        BY <3>1, <4>1 DEF InTurn, InProgressKnown
      <4> QED
        BY <2>1, <4>1, <4>2 DEF HasPassed, Put
    <3> QED
      BY <3>1 DEF InProgressKnown
  <2> QED
    BY <1>1, <2>2, <2>4, <2>5, <2>6, <2>7, TouchedFrame DEF InTurn
<1>8. CASE WorkerRecordState
  <2>1. /\ RecordState(wkey, wout) /\ wpc = "state" /\ wpc' = "queue"
        /\ UNCHANGED <<queue, runner, wout>>
    BY <1>8 DEF WorkerRecordState
  <2>2. OneRowTouched /\ state'[wkey.path].status = StatusOf(wout)
    BY <1>1, <1>2, <2>1
    DEF OneRowTouched, RecordState, TypeOK, StateOK, RowsOK, RowOK
  <2>3. NoLoss => wkey \in QueueKeys
    BY <2>1 DEF InTurn, BatchFits
  <2>4. BatchFits'
    BY <1>1, <2>1, <2>2, <2>3, TouchedBatch DEF QueueKeys
  <2>5. QueueFits'
    <3>1. Attempted(k)'
      BY <1>1, <1>3, <2>1 DEF Attempted
    <3> QED
      BY <1>1, <1>3, <2>1, <2>2, <2>3, <3>1, TouchedQueue DEF QueueKeys
  <2>6. WorkerFits' /\ InProgressKnown'
    <3>1. StatusOf(wout) # "IN_PROGRESS"
      BY DEF StatusOf, HOLD
    <3> QED
      BY <1>1, <1>2, <2>1, <2>2, <3>1
      DEF OneRowTouched, InTurn, WorkerFits, InProgressKnown, HasPassed
  <2> QED
    BY <1>1, <2>2, <2>4, <2>5, <2>6, TouchedFrame DEF InTurn
<1>9. CASE WorkerRecordQueue
  <2>1. /\ RecordQueue(wkey, wout) /\ wpc = "queue" /\ wpc' = "report"
        /\ UNCHANGED <<state, runner, wout>>
    BY <1>9 DEF WorkerRecordQueue
  <2>2. OneRowTouched /\ state[wkey.path].status = StatusOf(wout)
    BY <1>1, <2>1 DEF OneRowTouched, InTurn, WorkerFits
  <2>3. /\ \A i \in queue'.items :
              \/ i.key # wkey /\ \E j \in queue.items : j.key = i.key
              \/ i.key = wkey /\ wout = HOLD
        /\ \A l \in QueueKeys : l = wkey \/ l \in QueueKeys'
    <3> DEFINE others  == {i \in queue.items : i.key # wkey}
    <3>1. PICK version :
            queue' = [queue EXCEPT !.items =
                        IF wout = HOLD
                        THEN others \cup {[Item(wkey) EXCEPT !.status = HOLD,
                                                             !.hold = version]}
                        ELSE others]
      BY <2>1 DEF RecordQueue
    <3>2. queue'.items = IF wout = HOLD
                         THEN others \cup {[Item(wkey) EXCEPT !.status = HOLD,
                                                              !.hold = version]}
                         ELSE others
      BY <3>1 DEF TypeOK, QueueOK, QueueType
    <3>3. [Item(wkey) EXCEPT !.status = HOLD, !.hold = version].key = wkey
      BY DEF Item
    <3> QED
      BY <3>2, <3>3 DEF QueueKeys
  <2>4. BatchFits'
    BY <1>1, <2>1, <2>2, <2>3, TouchedBatch
  <2>5. QueueFits'
    <3>1. wout = HOLD => state'[k.path].status \in Unanswered
      BY <1>3, <2>1, <2>2 DEF StatusOf, Unanswered
    <3>2. state'[wkey.path].status # "PENDING"
      BY <2>1, <2>2 DEF StatusOf, HOLD
    <3> QED
      BY <1>1, <1>3, <2>2, <2>3, <3>1, <3>2, TouchedQueue
  <2>6. WorkerFits' /\ InProgressKnown'
    <3>1. StatusOf(wout) # "IN_PROGRESS"
      BY DEF StatusOf, HOLD
    <3> QED
      BY <1>1, <2>1 DEF InTurn, WorkerFits, InProgressKnown, HasPassed
  <2> QED
    BY <1>1, <2>2, <2>4, <2>5, <2>6, TouchedFrame DEF InTurn
<1>10. CASE WorkerReport
  <2>1. /\ UNCHANGED <<state, queue, wout>> /\ wpc = "report" /\ wpc' = "pass"
        /\ runner' = Put(runner, wkey, "PASS")
    BY <1>10 DEF WorkerReport
  <2>2. OneRowTouched
    BY <1>1, <2>1 DEF OneRowTouched
  <2>3. BatchFits'
    BY <1>1, <2>1, <2>2, TouchedBatch DEF QueueKeys
  <2>4. QueueFits'
    <3>1. (Attempted(k) => Attempted(k)') /\ UNCHANGED queue
      BY <1>3, <2>1 DEF Attempted
    <3>2. NoLoss /\ state[wkey.path].status = "PENDING" => wkey \in QueueKeys
      BY <1>1, <1>2, AtWork DEF Fits, QueueKeys
    <3> QED
      BY <1>1, <1>2, <1>3, <1>4, <2>1, <2>2, <3>1, <3>2, TouchedQueue
      DEF QueueKeys, ItemFits
  <2>5. WorkerFits' /\ InProgressKnown'
    BY <1>1, <2>1 DEF InTurn, WorkerFits, InProgressKnown, HasPassed, Put
  <2> QED
    BY <1>1, <2>2, <2>3, <2>4, <2>5, TouchedFrame DEF InTurn
<1>11. CASE WorkerCrash
  <2>1. ~NoCrash /\ wpc' = "dead" /\ UNCHANGED <<state, queue, runner, wout>>
    BY <1>11 DEF WorkerCrash, NoCrash
  <2>2. OneRowTouched
    BY <1>1, <2>1 DEF OneRowTouched
  <2>3. BatchFits'
    BY <1>1, <2>1, <2>2, TouchedBatch DEF QueueKeys, NoLoss
  <2>4. QueueFits'
    BY <1>1, <1>3, <2>1, <2>2, TouchedQueue DEF QueueKeys, NoLoss, Attempted
  <2>5. WorkerFits' /\ InProgressKnown'
    BY <1>1, <2>1 DEF InTurn, WorkerFits, InProgressKnown, HasPassed
  <2> QED
    BY <1>1, <2>2, <2>3, <2>4, <2>5, TouchedFrame DEF InTurn
<1> QED
  BY <1>5, <1>6, <1>7, <1>8, <1>9, <1>10, <1>11 DEF WorkerStep

\* The parent takes the task off its list: the row goes back to PENDING, which
\* cannot raise, or the task has passed.
LEMMA TurnCollect ==
    ASSUME Sequential, TypeOK, TypeOK', InTurn, WorkerTimeout \/ ParentCollects
    PROVE  InTurn' /\ rpc' = "batch"
<1> USE DEF files, work, trigger, lane, worker, chatter, history
<1>1. /\ wpc # "none"
      /\ UNCHANGED <<registry, queue, ledger, work, events, chats, trigger,
                     chatter>>
  BY DEF WorkerTimeout, ParentCollects, Working
<1>2. /\ Current(state, wkey) /\ wkey.path \in Paths /\ wkey \in TKey
      /\ state[wkey.path].key = wkey /\ state[wkey.path].econ = "KEEP"
      /\ Fits(state, queue.items)
      /\ \A p \in Paths : p # wkey.path => state[p].key # wkey
  <2>1. wkey # NoKey
    BY <1>1, AtWork
    DEF NoKey, TKey, Reasons, KeepEntryReasons, BandReason, RevisionTriggerStates
  <2> QED
    BY <1>1, <2>1, AtWork DEF Current, InTurn, KeysFit
<1>3. PICK k : k = wkey
  OBVIOUS
<1>4. CASE state' = Mark(state, wkey, "PENDING") /\ TaskOver
            /\ (wpc \in {"fail", "dead"} \/ "timeout" \in Faults)
  <2>1. /\ rpc' = "batch" /\ wpc' = "none" /\ todo' = todo \ {wkey}
        /\ UNCHANGED <<mode, rkeys>>
    BY <1>4 DEF TaskOver
  <2>2. OneRowTouched /\ state'[wkey.path].status = "PENDING"
    BY <1>1, <1>4, <2>1, MarkTouches DEF OneRowTouched, Statuses
  <2>3. NoLoss => wkey \in QueueKeys
    BY <1>4 DEF InTurn, BatchFits, NoLoss
  <2>4. BatchFits'
    BY <1>1, <2>1, <2>2, TouchedBatch DEF QueueKeys
  <2>5. QueueFits'
    BY <1>1, <1>3, <2>1, <2>2, <2>3, TouchedQueue DEF QueueKeys, Unanswered
  <2>6. InProgressKnown'
    <3>1. ASSUME NEW p \in Paths, state'[p].status = "IN_PROGRESS"
          PROVE  ~NoCrash /\ HasPassed(state[p].key)
      <4>1. p # wkey.path /\ state'[p] = state[p] /\ state[p].key # wkey
        BY <1>2, <2>2, <3>1 DEF OneRowTouched
      <4> QED
        BY <3>1, <4>1 DEF InTurn, InProgressKnown
    <3> QED
      BY <1>1, <2>2, <3>1 DEF InProgressKnown, HasPassed, OneRowTouched
  <2> QED
    BY <1>1, <2>1, <2>2, <2>4, <2>5, <2>6, TouchedFrame DEF InTurn, WorkerFits
<1>5. CASE UNCHANGED state /\ TaskOver /\ Passed
  <2>1. /\ rpc' = "batch" /\ wpc' = "none" /\ todo' = todo \ {wkey}
        /\ UNCHANGED <<mode, rkeys>> /\ wpc \in {"pass", "dead"}
    BY <1>5 DEF TaskOver, Passed
  <2>2. OneRowTouched
    BY <1>1, <1>5, <2>1 DEF OneRowTouched
  <2>3. BatchFits'
    BY <1>1, <2>1, <2>2, TouchedBatch DEF QueueKeys
  <2>4. QueueFits'
    <3>1. NoLoss /\ state[wkey.path].status = "PENDING" => wkey \in QueueKeys
      BY <1>2 DEF Fits, QueueKeys
    <3>2. /\ UNCHANGED queue /\ state'[wkey.path].status = state[wkey.path].status
          /\ state'[k.path].status = state[k.path].status
      BY <1>1, <1>5
    <3>3. \A i \in queue'.items : i.key = wkey =>
              state'[k.path].status \in Unanswered \/ Attempted(k)'
      BY <1>2, <1>3, <2>1, <3>2 DEF Fits, ItemFits, Attempted
    <3>4. \A i \in queue'.items :
              \/ i.key # wkey /\ \E j \in queue.items : j.key = i.key
              \/ /\ i.key = wkey
                 /\ state'[k.path].status \in Unanswered \/ Attempted(k)'
      BY <3>2, <3>3
    <3> QED
      BY <1>1, <1>3, <2>1, <2>2, <3>1, <3>2, <3>4, TouchedQueue DEF QueueKeys
  <2>5. InProgressKnown'
    <3>1. ASSUME NEW p \in Paths, state[p].status = "IN_PROGRESS"
          PROVE  ~NoCrash /\ HasPassed(state[p].key)
      BY <1>5, <2>1, <3>1 DEF InTurn, InProgressKnown, Passed, HasPassed
    <3> QED
      BY <1>1, <1>5, <3>1 DEF InProgressKnown, HasPassed
  <2> QED
    BY <1>1, <2>1, <2>2, <2>3, <2>4, <2>5, TouchedFrame DEF InTurn, WorkerFits
<1> QED
  BY <1>2, <1>4, <1>5 DEF WorkerTimeout, ParentCollects, BackToPending, Passed

\* Nobody answers a chat task while there is none, and the host stays up.
LEMMA NobodyElse ==
    ASSUME Sequential, TypeOK, InTurn
    PROVE  /\ ~(\/ ChatTaskReused \/ ChatTaskCreate \/ ChatTaskUnprepared
                \/ ChatTaskMarkQueue \/ ChatTaskMarkState)
           /\ ~ChatStep /\ ~ChatRejected /\ ~ChatSubmit /\ ~Recover /\ ~Reboot
<1>1. DOMAIN chats = {} /\ cpc = "idle" /\ mode # CHAT
  BY DEF InTurn, Alone, API, CHAT
<1>2. ~Recover
  BY <1>1 DEF Recover
<1>3. rpc \notin {"chat_queue", "chat_state"} /\ "reboot" \notin Faults
  BY DEF InTurn, Alone, Sequential
<1> QED
  BY <1>1, <1>2, <1>3
  DEF ChatTaskReused, ChatTaskCreate, ChatTaskUnprepared, ChatTaskMarkQueue,
      ChatTaskMarkState, ChatStep, ChatRecordLedger, ChatRecordState,
      ChatRecordQueue, ChatRejected, ChatSubmit, Reboot

\* The initial state.
LEMMA TurnInit ==
    ASSUME Sequential, Init
    PROVE  InTurn
<1> USE DEF Init
<1>1. Alone /\ KeysFit /\ TriggerTurn /\ RowsCopied /\ RunFits
  BY DEF Alone, KeysFit, TriggerTurn, RowsCopied, RunFits, NoRows, AbsentRow, NoFact
<1>2. EventsAsked /\ QueueFits /\ BatchFits /\ WorkerFits /\ InProgressKnown
  BY DEF EventsAsked, QueueFits, Fits, BatchFits, WorkerFits, InProgressKnown,
         NoRows, AbsentRow, NoQueue, Empty, NoKey
<1> QED
  BY <1>1, <1>2 DEF InTurn

\* A step that changes nothing keeps InTurn.
LEMMA TurnStutter ==
    ASSUME InTurn, UNCHANGED vars
    PROVE  InTurn'
<1> USE DEF vars, files, work, trigger, lane, worker, chatter, history
<1>1. \A p \in Paths : (Bridged(p) => Bridged(p)') /\ (Reused(p) => Reused(p)')
  BY DEF Bridged, Reused
<1>2. Alone' /\ KeysFit' /\ TriggerTurn' /\ RowsCopied' /\ RunFits'
  BY <1>1 DEF InTurn, Alone, KeysFit, TriggerTurn, NextRows, RowsCopied, RunFits,
              QueueKeys
<1>3. QueueFits' /\ BatchFits' /\ WorkerFits' /\ InProgressKnown' /\ EventsAsked'
  BY DEF InTurn, QueueFits, Fits, ItemFits, Attempted, BatchFits, Current,
         QueueKeys, WorkerFits, InProgressKnown, HasPassed, EventsAsked
<1> QED
  BY <1>2, <1>3 DEF InTurn

\* Every step keeps InTurn.
LEMMA TurnNext ==
    ASSUME Sequential, TypeOK, TypeOK', InTurn, [Next]_vars
    PROVE  InTurn'
BY TurnStutter, TurnTrigger, TurnEvent, TurnBridgeRead, TurnBridgeWrite, TurnBuild,
   TurnReuse, TurnBatch, TurnWorker, TurnCollect, NobodyElse
DEF Next, LaneStep, Environment

\* The runs that take turns find every file as the last one left it.
LEMMA TurnsKept ==
    ASSUME Sequential
    PROVE  Spec => [](TypeOK /\ InTurn)
<1>1. Init => TypeOK /\ InTurn
  BY TurnInit, TypeInit
<1>2. TypeOK /\ InTurn /\ [Next]_vars => (TypeOK /\ InTurn)'
  BY TurnNext, TypeNext
<1> QED
  BY <1>1, <1>2, PTL DEF Spec

\* An information run that has started comes to its end where runs take turns,
\* for any facts, events, outcomes, worker crashes and timeouts
\* (LaneNeverRaises; research_task_builder.py:205-244,
\* path_research_runner.py:42-43).
THEOREM LaneRuns ==
    ASSUME Sequential
    PROVE  Spec => LaneNeverRaises
<1>1. TypeOK /\ InTurn /\ [Next]_vars
        => [rpc # "idle" /\ rpc' = "idle" => rpc = "project"]_vars
  <2> SUFFICES ASSUME TypeOK, InTurn, Next, rpc # "idle", rpc' = "idle"
               PROVE  rpc = "project"
    OBVIOUS
  <2>1. TypeOK'
    BY TypeNext
  <2>2. ~BuildRaises /\ ~ReuseRaises /\ ~WorkerTimeout /\ ~ParentCollects
    BY <2>1, TurnBuild, TurnReuse, TurnCollect
  <2>3. LaneStep \/ WorkerStep \/ Environment \/ TriggerStep
    BY NobodyElse DEF Next
  <2>4. CASE LaneStep
    BY <2>2, <2>4, NobodyElse
    DEF LaneStep, BridgeWriteState, BridgeWriteQueue, BridgeCommit, BuildNothing,
        BuildTasks, ReuseDecide, ReuseWriteQueue, ReuseWriteState,
        ReuseWriteLedger, BuildEvidence, BatchSelect, BatchEnds, LaneEnds,
        WorkerSpawn
  <2>5. CASE WorkerStep \/ TriggerStep
    <3>1. rpc' = rpc
      BY <2>5
      DEF WorkerStep, WorkerBegin, WorkerPass, WorkerFail, WorkerRecordLedger,
          WorkerRecordState, WorkerRecordQueue, WorkerReport, TriggerStep,
          TriggerCompute, TriggerWriteState, TriggerWriteQueue, FullRunEnds, lane
    <3> QED
      BY <3>1
  <2>6. CASE Environment
    <3>1. rpc' = rpc \/ rpc' = "bridge_state"
      BY <2>2, <2>6, NobodyElse
      DEF Environment, PublishRegistry, EventArrives, BridgeRead, WorkerCrash, lane
    <3> QED
      BY <3>1
  <2> QED
    BY <2>3, <2>4, <2>5, <2>6
<1> QED
  BY <1>1, TypeCorrect, TurnsKept, PTL DEF Spec, LaneNeverRaises

\* Where runs take turns, what is left IN_PROGRESS outside a worker's life is a
\* task an earlier attempt at which had passed (ResidualHasPassed), for any
\* timeouts, failures and crashes (path_research_batch.py:72-73, 95-108).
THEOREM ResidualKnown ==
    ASSUME Sequential
    PROVE  Spec => []ResidualHasPassed
<1>1. TypeOK /\ InTurn => ResidualHasPassed
  BY DEF TypeOK, WorkerOK, InTurn, InProgressKnown, ResidualHasPassed
<1> QED
  BY <1>1, TurnsKept, PTL

\* Where runs take turns and no worker dies, every item of the queue asks the
\* present question of a KEEP path without a final answer
\* (QueuedQuestionsAreOpen; research_ledger.py:128-143).
THEOREM QueuedAreOpen ==
    ASSUME Sequential, NoCrash
    PROVE  Spec => []QueuedQuestionsAreOpen
<1>1. TypeOK /\ InTurn => QueuedQuestionsAreOpen
  <2> SUFFICES ASSUME TypeOK, InTurn, Quiet PROVE QueuedQuestionsAreOpen
    BY DEF QueuedQuestionsAreOpen
  <2>1. wpc = "none" /\ Fits(state, queue.items)
    BY DEF Quiet, TypeOK, WorkerOK, InTurn, QueueFits
  <2> QED
    BY <2>1 DEF Fits, ItemFits, Attempted, Unanswered, Current,
                QueuedQuestionsAreOpen
<1> QED
  BY <1>1, TurnsKept, PTL

\* Where runs take turns and no worker dies or is killed, every pending row of a
\* KEEP path is queued between runs (PendingRowsAreQueued;
\* research_trigger.py:340-360, path_research_runner.py:205).
THEOREM PendingAreQueued ==
    ASSUME Sequential, NoLoss
    PROVE  Spec => []PendingRowsAreQueued
<1>1. TypeOK /\ InTurn => PendingRowsAreQueued
  <2> SUFFICES ASSUME TypeOK, InTurn, Quiet PROVE PendingRowsAreQueued
    BY DEF PendingRowsAreQueued
  <2>1. Fits(state, queue.items)
    BY DEF Quiet, InTurn, QueueFits
  <2> QED
    BY <2>1 DEF Fits, PendingRowsAreQueued, Queued
<1> QED
  BY <1>1, TurnsKept, PTL

\* A worker begins, fails or is done with a row that is not completed.
LEMMA WorkerRowOpen ==
    ASSUME TypeOK, InTurn, NoLoss,
           wpc \in {"start", "ai", "ledger", "state", "fail", "dead"}
    PROVE  state[wkey.path].status # "COMPLETED"
<1>1. CASE wpc \in {"start", "fail", "dead"}
  <2>1. wkey \in QueueKeys /\ Fits(state, queue.items)
    BY <1>1, AtWork DEF InTurn, BatchFits
  <2>2. ItemFits(state[wkey.path], wkey)
    BY <2>1 DEF QueueKeys, Fits
  <2> QED
    BY <1>1, <2>2 DEF ItemFits, Attempted, NoLoss, Unanswered, HOLD
<1>2. CASE wpc \in {"ai", "ledger", "state"}
  BY <1>2 DEF InTurn, WorkerFits
<1> QED
  BY <1>1, <1>2

\* A step keeps a completed row completed, or asks it something new.
LEMMA CompletedKept ==
    ASSUME Sequential, NoLoss, TypeOK, InTurn, [Next]_vars,
           NEW p \in Paths, state[p].status = "COMPLETED",
           state'[p].key = state[p].key
    PROVE  state'[p].status = "COMPLETED"
<1> USE DEF files, work, trigger, lane, worker, chatter, history
<1>1. /\ RowOK(state[p], p) /\ FactOK(registry.facts[p], p)
      /\ registry.snap \in Nat /\ state[p].key # NoKey
  BY DEF TypeOK, StateOK, RowsOK, RegistryOK, InTurn, KeysFit
<1>2. CASE TriggerWriteState
  <2>1. state'[p] = NextRow(p, state[p], registry.facts[p], registry.snap)
    BY <1>2 DEF TriggerWriteState, InTurn, TriggerTurn, NextRows
  <2> QED
    BY <1>1, <2>1, NextRowCases DEF AbsentRow
<1>3. CASE BridgeWriteState
  <2>1. state'[p] = state[p] \/ (Bridged(p) /\ state'[p] = rstate[p])
    BY <1>3 DEF BridgeWriteState, InTurn, RowsCopied
  <2> QED
    BY <1>1, <2>1 DEF Bridged, RowOK
<1>4. CASE ReuseWriteState
  <2>1. state'[p] = state[p] \/ (Reused(p) /\ state'[p] = rstate[p])
    BY <1>4 DEF ReuseWriteState, InTurn, RowsCopied
  <2> QED
    BY <1>1, <2>1 DEF Reused, RowOK
<1>5. CASE WorkerBegin \/ WorkerFail \/ WorkerRecordState \/ ParentCollects
  <2>1. wpc # "none" /\ wkey.path \in Paths
    BY <1>5, AtWork DEF WorkerBegin, WorkerFail, WorkerRecordState, ParentCollects
  <2>2. CASE p = wkey.path
    <3>1. wpc = "pass"
      BY <1>5, <2>2, WorkerRowOpen
      DEF WorkerBegin, WorkerFail, WorkerRecordState, ParentCollects
    <3> QED
      BY <1>5, <3>1
      DEF WorkerBegin, WorkerFail, WorkerRecordState, ParentCollects, Passed
  <2>3. CASE p # wkey.path
    <3>1. \/ UNCHANGED state
          \/ \E s \in Statuses : state' = Mark(state, wkey, s)
          \/ RecordState(wkey, wout)
      BY <1>5 DEF WorkerBegin, WorkerFail, WorkerRecordState, ParentCollects,
                  BackToPending, Statuses
    <3> QED
      BY <2>3, <3>1 DEF Mark, RecordState, TypeOK, StateOK, RowsOK
  <2> QED
    BY <2>2, <2>3
<1>6. CASE WorkerTimeout
  BY <1>6 DEF WorkerTimeout, NoLoss
<1>7. CASE UNCHANGED state
  BY <1>7
<1>8. TriggerStep \/ PublishRegistry => UNCHANGED state \/ TriggerWriteState
  BY DEF TriggerStep, PublishRegistry, TriggerCompute, TriggerWriteQueue, FullRunEnds
<1>9. LaneStep => UNCHANGED state \/ BridgeWriteState \/ ReuseWriteState
                    \/ ParentCollects
  BY NobodyElse
  DEF LaneStep, BridgeWriteQueue, BridgeCommit, BuildNothing, BuildRaises,
      BuildTasks, ReuseRaises, ReuseDecide, ReuseWriteQueue, ReuseWriteLedger,
      BuildEvidence, BatchSelect, BatchEnds, LaneEnds, WorkerSpawn
<1>10. WorkerStep => UNCHANGED state \/ WorkerBegin \/ WorkerFail
                      \/ WorkerRecordState
  BY DEF WorkerStep, WorkerPass, WorkerRecordLedger, WorkerRecordQueue, WorkerReport
<1>11. Environment => UNCHANGED state \/ PublishRegistry \/ WorkerTimeout
  BY NobodyElse DEF Environment, EventArrives, BridgeRead, WorkerCrash
<1> QED
  BY <1>2, <1>3, <1>4, <1>5, <1>6, <1>7, <1>8, <1>9, <1>10, <1>11, NobodyElse
  DEF Next, vars

\* Where runs take turns and no worker dies or is killed, a completed answer is
\* not taken back while its trigger stands (CompletedStays;
\* path_research_runner.py:44, research_trigger.py:285).
THEOREM CompletedForGood ==
    ASSUME Sequential, NoLoss
    PROVE  Spec => CompletedStays
<1>1. TypeOK /\ InTurn /\ [Next]_vars
        => [\A p \in Paths :
              state[p].status = "COMPLETED" /\ state'[p].key = state[p].key
                => state'[p].status = "COMPLETED"]_vars
  BY CompletedKept
<1> QED
  BY <1>1, TurnsKept, PTL DEF Spec, CompletedStays

-----------------------------------------------------------------------------
(* The pool.  Its audit compares the rows with the ledger, which record and *)
(* reuse write before or after the row.  A row that is kept shows a status  *)
(* the pool can map as a path that comes back is always asked again: that   *)
(* takes a new snapshot per run and a path that is not watched for revision.*)

Auditable == /\ "UNREADY" \notin Outcomes /\ SnapSteps \subseteq {1}
             /\ \A p \in Paths : Kind[p] # REVISION

RowFiled(row, led) ==
    row.status \in Answered =>
        /\ row.key \in DOMAIN led
        /\ led[row.key].result = row.result
        /\ led[row.key].ready = (row.status = "COMPLETED")

\* An answered row has its answer in the ledger, in the copies as in the files.
AnswersOnFile ==
    /\ \A p \in Paths :
          /\ rpc # "reuse_ledger" => RowFiled(state[p], ledger)
          /\ rpc \in {"reuse_queue", "reuse_state"} => RowFiled(rstate[p], rledger)
          /\ rpc = "reuse_ledger" => RowFiled(state[p], rledger)
    /\ wpc = "state" => wkey \in DOMAIN ledger /\ ledger[wkey] = Entry(wkey, wout)

\* A KEEP row has been asked, and was not cancelled since.
Mapped ==
    \A p \in Paths : state[p].econ = "KEEP" =>
        /\ state[p].key # NoKey
        /\ state[p].status \in {"PENDING", "IN_PROGRESS"} \cup Answered

\* No row was entered in a later snapshot than the present one.
EntriesPast ==
    \A p \in Paths : state[p].key.reason \in KeepEntryReasons =>
        /\ state[p].key.episode <= registry.snap
        /\ tpc \in {"trigger", "state"} => state[p].key.episode < registry.snap

Audited == AnswersOnFile /\ Mapped /\ EntriesPast

\* Between the sides of a full run and of the lane's work on the queue the
\* audited parts stand.
LEMMA AuditedFrame ==
    ASSUME Audited, rpc # "reuse_ledger", wpc' # "state",
           rpc' \notin {"reuse_queue", "reuse_state", "reuse_ledger"},
           UNCHANGED <<state, ledger, registry>>,
           tpc' \in {"trigger", "state"} => tpc' = tpc \/ tpc = "trigger"
    PROVE  Audited'
BY DEF Audited, AnswersOnFile, Mapped, EntriesPast

\* A path that is kept again is asked again.
LEMMA KeptAgain ==
    ASSUME Auditable, NEW p \in Paths, NEW prev, RowOK(prev, p),
           NEW fact \in FactType(p), NEW snap \in Nat, prev.econ # "KEEP",
           prev.key.reason \in KeepEntryReasons => prev.key.episode < snap
    PROVE  Trigger(p, prev, fact, snap) \notin {NoKey, prev.key}
<1>1. Trigger(p, prev, fact, snap).episode = snap
      /\ Trigger(p, prev, fact, snap).reason \in KeepEntryReasons
  <2>1. CASE Kind[p] = MATURITY
    BY <2>1 DEF Trigger, MaturityTrigger, NewEpisode, TriggerKey, KeepEntryReasons,
                MATURITY, PUT, REVISION
  <2>2. CASE Kind[p] = PUT
    BY <2>2 DEF Trigger, PutTrigger, NewEpisode, TriggerKey, KeepEntryReasons,
                MATURITY, PUT, REVISION
  <2> QED
    BY <2>1, <2>2, KindAssumption DEF Kinds, Auditable
<1>2. NoKey.reason \notin KeepEntryReasons
  BY DEF NoKey, KeepEntryReasons
<1> QED
  BY <1>1, <1>2, SMTT(20)

\* An entry trigger is of the snapshot or of an earlier row.
LEMMA EntryOfSnapshot ==
    ASSUME NEW p \in Paths, NEW prev, RowOK(prev, p),
           NEW fact \in FactType(p), NEW snap \in Nat,
           Trigger(p, prev, fact, snap).reason \in KeepEntryReasons
    PROVE  Trigger(p, prev, fact, snap).episode = snap
<1>1. NoKey.reason \notin KeepEntryReasons
  BY DEF NoKey, KeepEntryReasons
<1>2. /\ prev.econ = "KEEP" => prev.ev \in EventStates(p)
      /\ fact.ev \in EventStates(p)
  BY DEF RowOK, FactType
<1>3. CASE Kind[p] = MATURITY
  <2>1. /\ fact.ev \in DOMAIN BandRank
        /\ prev.econ = "KEEP" => prev.ev \in DOMAIN BandRank
    BY <1>2, <1>3 DEF EventStates, MATURITY, PUT, REVISION
  <2>2. \A b \in DOMAIN BandReason : BandReason[b] \notin KeepEntryReasons
    BY DEF BandReason, KeepEntryReasons
  <2>3. MaturityTrigger(p, prev, fact, snap).reason \in KeepEntryReasons
          => MaturityTrigger(p, prev, fact, snap).episode = snap
    BY <1>1, <2>1, <2>2, Bands DEF MaturityTrigger, NewEpisode, TriggerKey
  <2> QED
    BY <1>3, <2>3 DEF Trigger, MATURITY, PUT, REVISION
<1>4. CASE Kind[p] = PUT
  <2>1. PutTrigger(p, prev, fact, snap).reason \in KeepEntryReasons
          => PutTrigger(p, prev, fact, snap).episode = snap
    BY <1>1 DEF PutTrigger, TriggerKey, KeepEntryReasons
  <2> QED
    BY <1>4, <2>1 DEF Trigger, MATURITY, PUT, REVISION
<1>5. CASE Kind[p] = REVISION
  <2>1. \A e \in DOMAIN RevisionTriggerStates :
            RevisionTriggerStates[e] \notin KeepEntryReasons
    BY DEF RevisionTriggerStates, KeepEntryReasons
  <2>2. RevisionTrigger(p, prev, fact, snap).reason \notin KeepEntryReasons
    BY <1>1, <2>1 DEF RevisionTrigger, TriggerKey, KeepEntryReasons
  <2> QED
    BY <1>5, <2>2 DEF Trigger, MATURITY, PUT, REVISION
<1> QED
  BY <1>3, <1>4, <1>5, KindAssumption DEF Kinds

\* A full run leaves every kept row with a question the pool can map.
LEMMA AuditedTrigger ==
    ASSUME Sequential, Auditable, TypeOK, TypeOK', InTurn, Audited,
           PublishRegistry \/ TriggerStep
    PROVE  Audited'
<1> USE DEF files, work, trigger, lane, worker, chatter, history
<1>1. /\ rpc = "idle" /\ wpc = "none" /\ UNCHANGED <<rpc, wpc, ledger>>
  BY IdleLane
  DEF InTurn, Alone, Sequential, PublishRegistry, TriggerStep, TriggerCompute,
      TriggerWriteState, TriggerWriteQueue, FullRunEnds
<1>2. CASE PublishRegistry
  <2>1. /\ registry'.snap = registry.snap + 1 /\ registry.snap \in Nat
        /\ UNCHANGED state
    BY <1>2 DEF PublishRegistry, Auditable, TypeOK, RegistryOK
  <2>2. EntriesPast'
    <3>1. ASSUME NEW p \in Paths, state[p].key.reason \in KeepEntryReasons
          PROVE  state[p].key.episode < registry'.snap
      <4>1. state[p].key \in TKey
        BY <3>1 DEF TypeOK, StateOK, RowsOK, RowOK, Key, NoKey, KeepEntryReasons
      <4> QED
        BY <2>1, <3>1, <4>1 DEF Audited, EntriesPast, TKey
    <3>2. \A p \in Paths : state[p].key.reason \in KeepEntryReasons
            => state[p].key.episode <= registry'.snap
      <4>1. \A p \in Paths : state[p].key.reason \in KeepEntryReasons
                => state[p].key \in TKey
        BY DEF TypeOK, StateOK, RowsOK, RowOK, Key, NoKey, KeepEntryReasons
      <4> QED
        BY <2>1, <3>1, <4>1 DEF TKey
    <3> QED
      BY <2>1, <3>1, <3>2 DEF EntriesPast
  <2>3. Mapped' /\ AnswersOnFile'
    BY <1>1, <2>1 DEF Audited, Mapped, AnswersOnFile, RowFiled
  <2> QED
    BY <2>2, <2>3 DEF Audited
<1>3. CASE TriggerWriteState
  <2>1. /\ tpc = "state" /\ tpc' = "queue" /\ state' = NextRows
        /\ UNCHANGED registry
    BY <1>3 DEF TriggerWriteState, InTurn, TriggerTurn
  <2>2. ASSUME NEW p \in Paths
        PROVE  /\ state'[p].econ = "KEEP" =>
                     /\ state'[p].key # NoKey
                     /\ state'[p].status \in {"PENDING", "IN_PROGRESS"} \cup Answered
               /\ RowFiled(state'[p], ledger)
               /\ state'[p].key.reason \in KeepEntryReasons
                     => state'[p].key.episode <= registry.snap
    <3>1. /\ RowOK(state[p], p) /\ FactOK(registry.facts[p], p)
          /\ registry.snap \in Nat
      BY DEF TypeOK, StateOK, RowsOK, RegistryOK
    <3>2. state'[p] = NextRow(p, state[p], registry.facts[p], registry.snap)
      BY <2>1 DEF NextRows
    <3>3. /\ state[p].econ = "KEEP" =>
                /\ state[p].key # NoKey
                /\ state[p].status \in {"PENDING", "IN_PROGRESS"} \cup Answered
          /\ RowFiled(state[p], ledger)
          /\ state[p].key.reason \in KeepEntryReasons
                     => /\ state[p].key.episode <= registry.snap
                        /\ state[p].key.episode < registry.snap
      BY <1>1, <2>1 DEF Audited, Mapped, AnswersOnFile, EntriesPast
    <3>4. CASE state'[p] = AbsentRow
      BY <3>4 DEF AbsentRow, RowFiled, Answered, HOLD, NoKey, KeepEntryReasons
    <3>5. CASE /\ state'[p].econ = "DROP" /\ state'[p].key = state[p].key
               /\ state'[p].result = state[p].result
               /\ \/ state'[p].status = state[p].status
                  \/ state'[p].status = "CANCELLED_ECONOMIC_DROP"
      BY <3>3, <3>5 DEF RowFiled, Answered, HOLD
    <3>6. CASE /\ state'[p].econ = "KEEP" /\ state'[p].key # NoKey
               /\ state'[p].key = Trigger(p, state[p], registry.facts[p],
                                          registry.snap)
               /\ state'[p].status = "PENDING"
      <4>1. registry.facts[p] \in FactType(p)
        BY <3>1, <3>2, <3>6, NextRowCases DEF FactOK, NoFact
      <4>2. state'[p].key.reason \in KeepEntryReasons
                => state'[p].key.episode = registry.snap
        BY <3>1, <3>6, <4>1, EntryOfSnapshot
      <4> QED
        BY <3>1, <3>6, <4>2 DEF RowFiled, Answered, HOLD
    <3>7. CASE /\ state'[p].econ = "KEEP" /\ state'[p].result = state[p].result
               /\ state'[p].key = state[p].key
               /\ state'[p].status = state[p].status
               /\ Trigger(p, state[p], registry.facts[p], registry.snap)
                    \in {NoKey, state[p].key}
      <4>1. registry.facts[p] \in FactType(p)
        BY <3>1, <3>2, <3>7, NextRowCases DEF FactOK, NoFact
      <4>2. state[p].econ = "KEEP"
        BY <3>1, <3>3, <3>7, <4>1, KeptAgain
      <4> QED
        BY <3>3, <3>7, <4>2 DEF RowFiled
    <3> QED
      BY <3>1, <3>2, <3>4, <3>5, <3>6, <3>7, NextRowCases
  <2> QED
    BY <1>1, <2>1, <2>2 DEF Audited, Mapped, AnswersOnFile, EntriesPast
<1>4. CASE TriggerCompute \/ TriggerWriteQueue \/ FullRunEnds
  <2>1. /\ UNCHANGED <<state, registry>>
        /\ tpc' \in {"trigger", "state"} => tpc = "trigger"
    BY <1>4 DEF TriggerCompute, TriggerWriteQueue, FullRunEnds
  <2> QED
    BY <1>1, <2>1, AuditedFrame
<1> QED
  BY <1>2, <1>3, <1>4 DEF TriggerStep

\* The bridge leaves a row as it was or asks it about an event.
LEMMA AuditedBridge ==
    ASSUME Sequential, TypeOK, TypeOK', InTurn, Audited,
           BridgeRead \/ BridgeWriteState \/ BridgeWriteQueue \/ BridgeCommit
    PROVE  Audited'
<1> USE DEF files, work, trigger, lane, worker, chatter, history
<1>1. wpc = "none" /\ UNCHANGED <<registry, ledger, wpc, tpc>>
  BY DEF BridgeRead, BridgeWriteState, BridgeWriteQueue, BridgeCommit, TypeOK, WorkerOK
<1>2. CASE BridgeWriteState
  <2>1. rpc = "bridge_state" /\ rpc' = "bridge_queue" /\ state' = rstate
    BY <1>2 DEF BridgeWriteState
  <2>2. ASSUME NEW p \in Paths
        PROVE  \/ state'[p] = state[p]
               \/ /\ state'[p].status = "PENDING" /\ state'[p].key # NoKey
                  /\ state'[p].key.reason \notin KeepEntryReasons
                  /\ state'[p].econ = state[p].econ
    <3>1. CASE Bridged(p)
      <4>1. PICK k \in rkeys :
              /\ k.path = p
              /\ rstate[p] = [state[p] EXCEPT !.status = "PENDING", !.key = k]
        BY <3>1 DEF Bridged
      <4>2. k.reason = "EVENT"
        BY <2>1 DEF InTurn, EventsAsked
      <4> QED
        BY <2>1, <4>1, <4>2
        DEF TypeOK, StateOK, RowsOK, RowOK, NoKey, KeepEntryReasons
    <3> QED
      BY <2>1, <3>1 DEF InTurn, RowsCopied
  <2>3. AnswersOnFile'
    <3>1. \A p \in Paths : RowFiled(state[p], ledger)
      BY <2>1 DEF Audited, AnswersOnFile
    <3> QED
      BY <1>1, <2>1, <2>2, <3>1 DEF AnswersOnFile, RowFiled, Answered, HOLD
  <2>4. Mapped' /\ EntriesPast'
    <3>1. \A p \in Paths : state'[p].econ = state[p].econ
      BY <2>2
    <3>2. Mapped'
      BY <2>2, <3>1 DEF Audited, Mapped
    <3>3. EntriesPast'
      BY <1>1, <2>2 DEF Audited, EntriesPast
    <3> QED
      BY <3>2, <3>3
  <2> QED
    BY <2>3, <2>4 DEF Audited
<1>3. CASE BridgeRead \/ BridgeWriteQueue \/ BridgeCommit
  <2>1. /\ rpc # "reuse_ledger" /\ UNCHANGED state
        /\ rpc' \in {"bridge_state", "bridge_commit", "build"}
    BY <1>3 DEF BridgeRead, BridgeWriteQueue, BridgeCommit
  <2> QED
    BY <1>1, <2>1, AuditedFrame
<1> QED
  BY <1>2, <1>3

\* A row is reused with the answer its ledger entry gets, and no answer of
\* another row is overwritten.
LEMMA AuditedReuse ==
    ASSUME Sequential, TypeOK, TypeOK', InTurn, Audited,
           \/ ReuseDecide \/ ReuseWriteQueue \/ ReuseWriteState \/ ReuseWriteLedger
    PROVE  Audited'
<1> USE DEF files, work, trigger, lane, worker, chatter, history
<1>1. wpc = "none" /\ UNCHANGED <<registry, wpc, tpc>>
  BY DEF ReuseDecide, ReuseWriteQueue, ReuseWriteState, ReuseWriteLedger, TypeOK,
         WorkerOK
<1>2. CASE ReuseDecide
  <2>1. rpc = "reuse" /\ rpc' = "reuse_queue" /\ UNCHANGED <<state, ledger>>
    BY <1>2 DEF ReuseDecide
  <2>2. PICK reused \in SUBSET {k \in Reusable : Current(state, k)} :
            /\ \A p \in Paths :
                 \/ state[p].key \notin reused /\ rstate'[p] = state[p]
                 \/ /\ state[p].key \in reused
                    /\ state[p].key \in DOMAIN rledger'
                    /\ rledger'[state[p].key].ready
                    /\ rledger'[state[p].key] \in EntryType
                    /\ rstate'[p] = [state[p] EXCEPT !.status = "COMPLETED",
                                       !.result = rledger'[state[p].key].result]
            /\ \A k \in DOMAIN ledger \ reused :
                 k \in DOMAIN rledger' /\ rledger'[k] = ledger[k]
    BY <1>2, ReuseDecided
  <2>3. ASSUME NEW p \in Paths
        PROVE  RowFiled(rstate'[p], rledger')
    <3>1. RowOK(state[p], p) /\ RowFiled(state[p], ledger)
      BY <2>1 DEF TypeOK, StateOK, RowsOK, Audited, AnswersOnFile
    <3>2. CASE state[p].key \notin reused /\ rstate'[p] = state[p]
      BY <2>2, <3>1, <3>2 DEF RowFiled
    <3>3. CASE /\ state[p].key \in DOMAIN rledger'
               /\ rledger'[state[p].key].ready
               /\ rledger'[state[p].key] \in EntryType
               /\ rstate'[p] = [state[p] EXCEPT !.status = "COMPLETED",
                                  !.result = rledger'[state[p].key].result]
      <4>1. /\ rstate'[p].status = "COMPLETED" /\ rstate'[p].key = state[p].key
            /\ rstate'[p].result = rledger'[state[p].key].result
            /\ rledger'[state[p].key].ready = TRUE
        BY <3>1, <3>3 DEF RowOK, EntryType
      <4> QED
        BY <3>3, <4>1 DEF RowFiled
    <3> QED
      BY <2>2, <3>2, <3>3
  <2>4. AnswersOnFile'
    BY <1>1, <2>1, <2>3 DEF Audited, AnswersOnFile
  <2> QED
    BY <1>1, <2>1, <2>4 DEF Audited, Mapped, EntriesPast
<1>3. CASE ReuseWriteQueue
  <2>1. /\ rpc = "reuse_queue" /\ rpc' = "reuse_state"
        /\ UNCHANGED <<state, ledger, rstate, rledger>>
    BY <1>3 DEF ReuseWriteQueue
  <2> QED
    BY <1>1, <2>1 DEF Audited, AnswersOnFile, Mapped, EntriesPast
<1>4. CASE ReuseWriteState
  <2>1. /\ rpc = "reuse_state" /\ rpc' = "reuse_ledger" /\ state' = rstate
        /\ UNCHANGED <<ledger, rledger>>
    BY <1>4 DEF ReuseWriteState
  <2>2. AnswersOnFile'
    BY <1>1, <2>1 DEF Audited, AnswersOnFile
  <2>3. ASSUME NEW p \in Paths
        PROVE  \/ state'[p] = state[p]
               \/ /\ state'[p].econ = state[p].econ /\ state'[p].key = state[p].key
                  /\ state[p].key # NoKey /\ state'[p].status = "COMPLETED"
    <3>1. RowOK(state[p], p)
      BY DEF TypeOK, StateOK, RowsOK
    <3>2. CASE Reused(p)
      BY <2>1, <3>1, <3>2 DEF Reused, RowOK
    <3> QED
      BY <2>1, <3>2 DEF InTurn, RowsCopied
  <2>4. Mapped' /\ EntriesPast'
    BY <1>1, <2>3 DEF Audited, Mapped, EntriesPast, Answered
  <2> QED
    BY <2>2, <2>4 DEF Audited
<1>5. CASE ReuseWriteLedger
  <2>1. /\ rpc = "reuse_ledger" /\ rpc' \in {"project", "evidence"}
        /\ UNCHANGED state /\ ledger' = rledger
    BY <1>5 DEF ReuseWriteLedger
  <2> QED
    BY <1>1, <2>1 DEF Audited, AnswersOnFile, Mapped, EntriesPast
<1> QED
  BY <1>2, <1>3, <1>4, <1>5

\* The worker files the answer of its row before the row shows it, and no other
\* row has the same key.
LEMMA AuditedWorker ==
    ASSUME Sequential, Auditable, TypeOK, TypeOK', InTurn, Audited,
           WorkerStep \/ WorkerCrash \/ WorkerTimeout \/ ParentCollects
    PROVE  Audited'
<1> USE DEF files, work, trigger, lane, worker, chatter, history
<1>1. /\ wpc # "none" /\ UNCHANGED <<registry, tpc>>
  BY DEF WorkerStep, WorkerBegin, WorkerPass, WorkerFail, WorkerRecordLedger,
         WorkerRecordState, WorkerRecordQueue, WorkerReport, WorkerCrash,
         WorkerTimeout, ParentCollects, Working
<1>2. /\ rpc = "worker" /\ tpc = "idle" /\ Current(state, wkey) /\ wkey \in TKey
      /\ wkey.path \in Paths /\ state[wkey.path].key = wkey
      /\ \A p \in Paths : p # wkey.path => state[p].key # wkey
      /\ wkey # NoKey /\ RowOK(state[wkey.path], wkey.path)
  <2>1. wkey # NoKey
    BY <1>1, AtWork
    DEF NoKey, TKey, Reasons, KeepEntryReasons, BandReason, RevisionTriggerStates
  <2> QED
    BY <1>1, <2>1, AtWork DEF Current, InTurn, KeysFit
<1>3. rpc' \in {"worker", "batch"}
  BY <1>2, TurnCollect
  DEF WorkerStep, WorkerBegin, WorkerPass, WorkerFail, WorkerRecordLedger,
      WorkerRecordState, WorkerRecordQueue, WorkerReport, WorkerCrash
<1>4. ASSUME NEW s \in {"PENDING", "IN_PROGRESS"}, state' = Mark(state, wkey, s),
             UNCHANGED ledger, wpc' # "state"
      PROVE  Audited'
  <2>1. s \in Statuses /\ s \notin Answered
    BY DEF Statuses, Answered, HOLD
  <2>2. /\ \A p \in Paths : /\ state'[p].key = state[p].key
                            /\ state'[p].econ = state[p].econ
                            /\ p # wkey.path => state'[p] = state[p]
        /\ state'[wkey.path].status = s
    BY <1>1, <1>4, <2>1, MarkTouches
  <2>3. AnswersOnFile'
    <3>1. \A p \in Paths : RowFiled(state[p], ledger)
      BY <1>2 DEF Audited, AnswersOnFile
    <3>2. \A p \in Paths : RowFiled(state'[p], ledger)
      BY <2>1, <2>2, <3>1 DEF RowFiled
    <3> QED
      BY <1>3, <1>4, <3>2 DEF AnswersOnFile
  <2>4. Mapped' /\ EntriesPast'
    <3>1. Mapped'
      BY <1>2, <2>2 DEF Audited, Mapped
    <3>2. EntriesPast'
      BY <1>1, <2>2 DEF Audited, EntriesPast
    <3> QED
      BY <3>1, <3>2
  <2> QED
    BY <2>3, <2>4 DEF Audited
<1>5. ASSUME UNCHANGED <<state, ledger>>, wpc' # "state"
      PROVE  Audited'
  BY <1>1, <1>2, <1>3, <1>5, AuditedFrame
<1>6. CASE WorkerRecordLedger
  <2>1. /\ wpc = "ledger" /\ wpc' = "state" /\ rpc' = "worker"
        /\ UNCHANGED <<state, wkey, wout>>
        /\ ledger' = Put(ledger, wkey, Entry(wkey, wout))
    BY <1>2, <1>6 DEF WorkerRecordLedger, RecordLedger
  <2>2. state[wkey.path].status = "IN_PROGRESS"
    BY <2>1 DEF InTurn, WorkerFits
  <2>3. \A p \in Paths : RowFiled(state[p], ledger)
    BY <1>2 DEF Audited, AnswersOnFile
  <2>4. \A p \in Paths : RowFiled(state[p], ledger')
    BY <1>2, <2>1, <2>2, <2>3 DEF RowFiled, Put, Answered, HOLD
  <2>5. wkey \in DOMAIN ledger' /\ ledger'[wkey] = Entry(wkey, wout)
    BY <2>1 DEF Put
  <2>6. AnswersOnFile'
    BY <2>1, <2>4, <2>5 DEF AnswersOnFile, Entry, StatusOf
  <2> QED
    BY <1>1, <2>1, <2>6 DEF Audited, Mapped, EntriesPast
<1>7. CASE WorkerRecordState
  <2>1. /\ wpc = "state" /\ wpc' = "queue" /\ rpc' = "worker" /\ UNCHANGED ledger
        /\ RecordState(wkey, wout)
    BY <1>2, <1>7 DEF WorkerRecordState
  <2>2. /\ \A p \in Paths : /\ state'[p].key = state[p].key
                            /\ state'[p].econ = state[p].econ
                            /\ p # wkey.path => state'[p] = state[p]
        /\ state'[wkey.path].status = StatusOf(wout)
        /\ state'[wkey.path].result = wkey
    BY <1>2, <2>1 DEF RecordState, TypeOK, StateOK, RowsOK, RowOK
  <2>3. RowFiled(state'[wkey.path], ledger)
    <3>1. wkey \in DOMAIN ledger /\ ledger[wkey] = Entry(wkey, wout)
      BY <2>1 DEF Audited, AnswersOnFile
    <3>2. wout \in {"READY", HOLD}
      BY OutcomesAssumption DEF TypeOK, WorkerOK, Auditable
    <3>3. Entry(wkey, wout).result = wkey
          /\ Entry(wkey, wout).ready = (StatusOf(wout) = "COMPLETED")
      BY <3>2 DEF Entry, StatusOf, HOLD
    <3> QED
      BY <1>2, <2>2, <3>1, <3>3 DEF RowFiled
  <2>4. AnswersOnFile'
    <3>1. \A p \in Paths : RowFiled(state[p], ledger)
      BY <1>2 DEF Audited, AnswersOnFile
    <3>2. \A p \in Paths : RowFiled(state'[p], ledger)
      BY <2>2, <2>3, <3>1
    <3> QED
      BY <2>1, <3>2 DEF AnswersOnFile
  <2>5. Mapped' /\ EntriesPast'
    <3>1. StatusOf(wout) \in Answered
      BY DEF StatusOf, Answered
    <3>2. Mapped'
      BY <1>2, <2>2, <3>1 DEF Audited, Mapped
    <3>3. EntriesPast'
      BY <1>1, <2>2 DEF Audited, EntriesPast
    <3> QED
      BY <3>2, <3>3
  <2> QED
    BY <2>4, <2>5 DEF Audited
<1>8. CASE WorkerBegin \/ WorkerFail \/ WorkerTimeout \/ ParentCollects
  <2>1. UNCHANGED ledger /\ wpc' # "state"
    BY <1>2, <1>8 DEF WorkerBegin, WorkerFail, WorkerTimeout, ParentCollects,
                BackToPending, TaskOver
  <2>2. \/ UNCHANGED state
        \/ \E s \in {"PENDING", "IN_PROGRESS"} : state' = Mark(state, wkey, s)
    BY <1>8 DEF WorkerBegin, WorkerFail, WorkerTimeout, ParentCollects, BackToPending
  <2> QED
    BY <1>4, <1>5, <2>1, <2>2
<1>9. CASE WorkerPass \/ WorkerRecordQueue \/ WorkerReport \/ WorkerCrash
  <2>1. UNCHANGED <<state, ledger>> /\ wpc' # "state"
    BY <1>9 DEF WorkerPass, WorkerRecordQueue, WorkerReport, WorkerCrash
  <2> QED
    BY <1>5, <2>1
<1> QED
  BY <1>6, <1>7, <1>8, <1>9 DEF WorkerStep

\* The other steps touch neither row nor ledger.
LEMMA AuditedOthers ==
    ASSUME TypeOK, Audited,
           \/ UNCHANGED vars \/ BuildNothing \/ BuildTasks \/ BuildEvidence
           \/ BatchSelect \/ BatchEnds \/ LaneEnds \/ WorkerSpawn
           \/ \E p \in Paths : EventArrives(p)
    PROVE  Audited'
<1> USE DEF files, work, trigger, lane, worker, chatter, history
<1>1. CASE UNCHANGED vars \/ \E p \in Paths : EventArrives(p)
  <2>1. UNCHANGED <<state, ledger, registry, rpc, wpc, wkey, wout, tpc, rstate,
                    rledger>>
    BY <1>1 DEF vars, EventArrives
  <2> QED
    BY <2>1 DEF Audited, AnswersOnFile, Mapped, EntriesPast, Entry, StatusOf
<1>2. CASE \/ BuildNothing \/ BuildTasks \/ BuildEvidence \/ BatchSelect
           \/ BatchEnds \/ LaneEnds \/ WorkerSpawn
  <2>1. /\ rpc # "reuse_ledger" /\ UNCHANGED <<state, ledger, registry, tpc>>
        /\ wpc' # "state"
        /\ rpc' \notin {"reuse_queue", "reuse_state", "reuse_ledger"}
    BY <1>2 DEF BuildNothing, BuildTasks, BuildEvidence, BatchSelect, BatchEnds,
                LaneEnds, WorkerSpawn, LaneStops, TypeOK, WorkerOK
  <2> QED
    BY <2>1, AuditedFrame
<1> QED
  BY <1>1, <1>2

\* Every step keeps Audited.
LEMMA AuditedNext ==
    ASSUME Sequential, Auditable, TypeOK, InTurn, Audited, [Next]_vars
    PROVE  Audited'
<1>1. TypeOK'
  BY TypeNext
<1>2. ~BuildRaises /\ ~ReuseRaises
  BY <1>1, TurnBuild, TurnReuse
<1> QED
  BY <1>1, <1>2, AuditedTrigger, AuditedBridge, AuditedReuse, AuditedWorker,
     AuditedOthers, NobodyElse DEF Next, LaneStep, Environment

\* Whenever a run comes to project the pool, its audit of the state against the
\* ledger passes, for any maturity and put paths, any events and outcomes that
\* are ready when they are final, and any worker crashes and timeouts, where
\* runs take turns and every full run has a snapshot of its own
\* (ProjectionPasses; candidate_pool.py:155-198).
THEOREM ProjectionsPass ==
    ASSUME Sequential, Auditable
    PROVE  Spec => []ProjectionPasses
<1>1. Init => Audited
  <2> SUFFICES ASSUME Init PROVE Audited
    OBVIOUS
  <2> QED
    BY DEF Init, NoRows, AbsentRow, NoKey, KeepEntryReasons, Audited, AnswersOnFile,
           RowFiled, Answered, HOLD, Mapped, EntriesPast
<1>2. TypeOK /\ InTurn /\ Audited /\ [Next]_vars => Audited'
  BY AuditedNext
<1>3. TypeOK /\ InTurn /\ Audited => ProjectionPasses
  <2> SUFFICES ASSUME TypeOK, InTurn, Audited, tpc = "pool" \/ rpc = "project",
                      NEW p \in Paths, registry.facts[p].econ = "KEEP"
               PROVE  PathAudited(p)
    BY DEF ProjectionPasses, PoolPasses
  <2>1. rpc # "reuse_ledger" /\ tpc \notin {"trigger", "state"}
    BY DEF InTurn, Alone
  <2>2. /\ state[p].econ = "KEEP" /\ state[p].key # NoKey
        /\ state[p].status \in {"PENDING", "IN_PROGRESS"} \cup Answered
        /\ RowFiled(state[p], ledger)
    BY <2>1 DEF InTurn, TriggerTurn, Audited, Mapped, AnswersOnFile
  <2> QED
    BY <2>2 DEF PathAudited, RowFiled
<1> QED
  BY <1>1, <1>2, <1>3, TurnsKept, PTL DEF Spec
=============================================================================
