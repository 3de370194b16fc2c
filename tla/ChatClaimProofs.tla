---------------------------- MODULE ChatClaimProofs ----------------------------
(***************************************************************************)
(* While no claim has passed its expiry, two sessions never work on a task  *)
(* together, and a session loses its claim by giving it back only: for any  *)
(* number of sessions and claims, with commands killed anywhere.            *)
(***************************************************************************)
EXTENDS ChatClaim, TLAPS

LEMMA TypeInit == ClaimInit => TypeOK
<1> SUFFICES ASSUME ClaimInit PROVE TypeOK
  OBVIOUS
<1>1. claim \in [id : Nat, blank : BOOLEAN, live : BOOLEAN]
  BY DEF ClaimInit, NoClaim
<1>2. doing \in [Sessions -> Points] /\ \A s \in Sessions : doing[s] = "idle"
  BY DEF ClaimInit, Points
<1>3. ids \in Nat /\ mine \in [Sessions -> Nat] /\ holds \in [Sessions -> Nat]
  BY DEF ClaimInit
<1>4. cmd \in [Sessions -> Commands \cup {"none"}]
  BY DEF ClaimInit
<1> QED BY <1>1, <1>2, <1>3, <1>4 DEF ClaimInit, TypeOK

LEMMA TypeNext == TypeOK /\ [ClaimNext]_claimVars => TypeOK'
<1> SUFFICES ASSUME TypeOK, [ClaimNext]_claimVars PROVE TypeOK'
  OBVIOUS
<1> USE DEF TypeOK, Points, Commands, Goto, history
<1>0. ASSUME NEW s \in Sessions, NEW point \in Points \ {"renew", "rewrite"},
             Create(s, point)
      PROVE  TypeOK'
  <2>1. CASE claim = NoClaim /\ claim' = Created(ids + 1)
    BY <1>0, <2>1 DEF Create, Created
  <2>2. CASE UNCHANGED <<claim, task, verdict, ids, cmd, mine, holds, history>>
    BY <1>0, <2>2 DEF Create
  <2> QED BY <1>0, <2>1, <2>2 DEF Create
<1>1. ASSUME NEW s \in Sessions, ClaimStep(s) PROVE TypeOK'
  <2>1. CASE ClaimStart(s)       BY <2>1 DEF ClaimStart
  <2>2. CASE ClaimRead(s)        BY <2>2 DEF ClaimRead, ReadClaim
  <2>3. CASE ClaimUnlink(s)      BY <2>3 DEF ClaimUnlink, UnlinkClaim, NoClaim
  <2>4. CASE ClaimCreate(s)      BY <1>0, <2>4 DEF ClaimCreate
  <2>5. CASE ClaimReread(s)      BY <2>5 DEF ClaimReread, ReadClaim
  <2>6. CASE ClaimUnlinkAgain(s)
    BY <2>6 DEF ClaimUnlinkAgain, UnlinkClaim, NoClaim
  <2>7. CASE ClaimCreateAgain(s) BY <1>0, <2>7 DEF ClaimCreateAgain
  <2>8. CASE ClaimWrite(s)       BY <2>8 DEF ClaimWrite, Written
  <2>9. CASE ClaimMark(s)        BY <2>9 DEF ClaimMark
  <2> QED
    BY <1>1, <2>1, <2>2, <2>3, <2>4, <2>5, <2>6, <2>7, <2>8, <2>9 DEF ClaimStep
<1>2. ASSUME NEW s \in Sessions, UseStep(s) PROVE TypeOK'
  <2>1. CASE RequireClaim(s)     BY <2>1 DEF RequireClaim
  <2>2. CASE DropExpired(s)      BY <2>2 DEF DropExpired, UnlinkClaim, NoClaim
  <2>3. CASE RenewTruncate(s)    BY <2>3 DEF RenewTruncate, Created
  <2>4. CASE RenewClaim(s)       BY <2>4 DEF RenewClaim, Written
  <2>5. CASE RunTool(s)          BY <2>5 DEF RunTool, ReadClaim
  <2>6. CASE ToolUnlink(s)       BY <2>6 DEF ToolUnlink, UnlinkClaim, NoClaim
  <2>7. CASE KeepClaimed(s)      BY <2>7 DEF KeepClaimed, WriteTask
  <2>8. CASE SubmitValidate(s)   BY <2>8 DEF SubmitValidate
  <2>9. CASE SubmitWriteback(s)  BY <2>9 DEF SubmitWriteback
  <2>10. CASE SubmitUnclaim(s)   BY <2>10 DEF SubmitUnclaim, UnlinkClaim, NoClaim
  <2>11. CASE SubmitFinish(s)    BY <2>11 DEF SubmitFinish, WriteTask
  <2>12. CASE ReleaseUnlink(s)   BY <2>12 DEF ReleaseUnlink, UnlinkClaim, NoClaim
  <2>13. CASE ReleaseMark(s)     BY <2>13 DEF ReleaseMark, WriteTask
  <2> QED
    BY <1>2, <2>1, <2>2, <2>3, <2>4, <2>5, <2>6, <2>7, <2>8, <2>9, <2>10,
       <2>11, <2>12, <2>13 DEF UseStep
<1>3. ASSUME NEW s \in Sessions, ListStep(s) PROVE TypeOK'
  <2>1. CASE ListLoad(s)         BY <2>1 DEF ListLoad
  <2>2. CASE ListRead(s)         BY <2>2 DEF ListRead, ReadClaim
  <2>3. CASE ListUnlink(s)       BY <2>3 DEF ListUnlink, UnlinkClaim, NoClaim
  <2>4. CASE ListHeal(s)         BY <2>4 DEF ListHeal, WriteTask
  <2> QED BY <1>3, <2>1, <2>2, <2>3, <2>4 DEF ListStep
<1>4. ASSUME NEW s \in Sessions, Crash(s) PROVE TypeOK'
  BY <1>4 DEF Crash
<1>5. CASE Expire
  BY <1>5 DEF Expire
<1>6. CASE UNCHANGED claimVars
  BY <1>6 DEF claimVars
<1> QED BY <1>1, <1>2, <1>3, <1>4, <1>5, <1>6 DEF ClaimNext

\* Every variable keeps its type.
THEOREM Typed == ClaimSpec => []TypeOK
  BY TypeInit, TypeNext, PTL DEF ClaimSpec

-----------------------------------------------------------------------------
(* The invariant behind both properties: drawn ids are told apart, and a     *)
(* session past its check, or with a new claim file, has its id in the file. *)

Using(s) == Inside(s) \/ doing[s] = "renew"

Unlinking(s) == doing[s] \in {"claim_unlink", "unlink_again", "drop",
                          "list_unlink", "tool_unlink"}

DistinctIds ==
    /\ \A s \in Sessions : mine[s] <= ids /\ holds[s] <= ids
    /\ \A s, t \in Sessions : mine[s] # 0 => mine[s] # holds[t]
    /\ \A s, t \in Sessions : mine[s] # 0 /\ mine[s] = mine[t] => s = t
    /\ \A s, t \in Sessions : holds[s] # 0 /\ holds[s] = holds[t] => s = t
    /\ \A s \in Sessions : doing[s] \in {"write", "mark"} => mine[s] # 0

FileIsHolders ==
    ~lapsed =>
        /\ claim # NoClaim => claim.live
        /\ \A s \in Sessions : ~Unlinking(s)
        /\ \A s \in Sessions : Using(s) => Owns(s)
        /\ \A s \in Sessions :
               doing[s] \in {"write", "mark"} => claim.id = mine[s]

IInv == TypeOK /\ DistinctIds /\ FileIsHolders

LEMMA InvInit == ClaimInit => DistinctIds /\ FileIsHolders
  BY DEF ClaimInit, DistinctIds, FileIsHolders, NoClaim, Using, Inside, Unlinking

\* Steps that leave the ids alone move no session to a place that needs one,
\* but for the write of a payload.
QuietIds(s) ==
    /\ UNCHANGED <<ids, mine, holds>>
    /\ \E point \in Points :
          /\ doing' = [doing EXCEPT ![s] = point]
          /\ point \in {"write", "mark"} => mine[s] # 0

LEMMA QuietIdsKeep ==
  ASSUME TypeOK, DistinctIds, NEW s \in Sessions, QuietIds(s)
  PROVE  DistinctIds'
  BY DEF TypeOK, DistinctIds, QuietIds

LEMMA DistinctCreate ==
  ASSUME TypeOK, DistinctIds, NEW s \in Sessions,
         NEW point \in {"reread", "idle"}, Create(s, point)
  PROVE  DistinctIds'
<1>1. CASE UNCHANGED <<ids, mine, holds>> /\ Goto(s, point)
  <2>1. QuietIds(s)
    BY <1>1 DEF QuietIds, Goto, Points
  <2> QED BY <2>1, QuietIdsKeep
<1>2. CASE /\ ids' = ids + 1 /\ mine' = [mine EXCEPT ![s] = ids + 1]
           /\ UNCHANGED holds /\ Goto(s, "write")
  <2>1. ids \in Nat /\ mine \in [Sessions -> Nat] /\ holds \in [Sessions -> Nat]
    BY DEF TypeOK
  <2>2. /\ mine'[s] = ids + 1
        /\ \A t \in Sessions : t # s => mine'[t] = mine[t]
        /\ doing'[s] = "write"
        /\ \A t \in Sessions : t # s => doing'[t] = doing[t]
    BY <1>2 DEF TypeOK, Goto
  <2>3. \A t \in Sessions : mine[t] <= ids /\ holds[t] <= ids
    BY DEF DistinctIds
  <2>4. \A t \in Sessions : mine[t] # ids + 1 /\ holds[t] # ids + 1
    <3> TAKE t \in Sessions
    <3>1. mine[t] \in Nat /\ holds[t] \in Nat /\ mine[t] <= ids /\ holds[t] <= ids
      BY <2>1, <2>3
    <3> QED BY <2>1, <3>1
  <2>5. \A t \in Sessions : mine'[t] <= ids' /\ holds'[t] <= ids'
    BY <1>2, <2>1, <2>2, <2>3
  <2>6. /\ \A t, u \in Sessions : mine'[t] # 0 => mine'[t] # holds'[u]
        /\ \A t, u \in Sessions : mine'[t] # 0 /\ mine'[t] = mine'[u] => t = u
    BY <1>2, <2>2, <2>4 DEF DistinctIds
  <2>7. \A t \in Sessions : doing'[t] \in {"write", "mark"} => mine'[t] # 0
    BY <2>1, <2>2 DEF DistinctIds
  <2> QED BY <1>2, <2>5, <2>6, <2>7 DEF DistinctIds
<1> QED BY <1>1, <1>2 DEF Create

LEMMA DistinctNext == TypeOK /\ DistinctIds /\ [ClaimNext]_claimVars => DistinctIds'
<1> SUFFICES ASSUME TypeOK, DistinctIds, [ClaimNext]_claimVars PROVE DistinctIds'
  OBVIOUS
<1> USE DEF Goto, Points, Commands
<1>1. ASSUME NEW s \in Sessions, ClaimStep(s) PROVE DistinctIds'
  <2>1. CASE ClaimCreate(s)
    BY <2>1, DistinctCreate DEF ClaimCreate
  <2>2. CASE ClaimCreateAgain(s)
    BY <2>2, DistinctCreate DEF ClaimCreateAgain
  <2>3. CASE ClaimMark(s)
    BY <2>3 DEF ClaimMark, DistinctIds, TypeOK
  <2>4. CASE ClaimWrite(s)
    <3>1. QuietIds(s)
      BY <2>4 DEF ClaimWrite, QuietIds, DistinctIds
    <3> QED BY <3>1, QuietIdsKeep
  <2>5. CASE \/ ClaimStart(s) \/ ClaimRead(s) \/ ClaimUnlink(s)
             \/ ClaimReread(s) \/ ClaimUnlinkAgain(s)
    <3>1. QuietIds(s)
      BY <2>5 DEF ClaimStart, ClaimRead, ClaimUnlink, ClaimReread,
                  ClaimUnlinkAgain, ReadClaim, UnlinkClaim, QuietIds
    <3> QED BY <3>1, QuietIdsKeep
  <2> QED BY <1>1, <2>1, <2>2, <2>3, <2>4, <2>5 DEF ClaimStep
<1>2. ASSUME NEW s \in Sessions, UseStep(s) PROVE DistinctIds'
  <2>1. QuietIds(s)
    <3>1. CASE RequireClaim(s) \/ DropExpired(s) \/ RenewTruncate(s)
      BY <3>1 DEF RequireClaim, DropExpired, RenewTruncate, UnlinkClaim,
                  QuietIds
    <3>2. CASE RenewClaim(s)
      BY <3>2 DEF RenewClaim, QuietIds, TypeOK
    <3>3. CASE RunTool(s) \/ ToolUnlink(s) \/ KeepClaimed(s)
      BY <3>3 DEF RunTool, ToolUnlink, KeepClaimed, ReadClaim, UnlinkClaim,
                  WriteTask, QuietIds
    <3>4. CASE SubmitValidate(s) \/ SubmitWriteback(s)
      BY <3>4 DEF SubmitValidate, SubmitWriteback, QuietIds
    <3>5. CASE SubmitUnclaim(s) \/ SubmitFinish(s)
      BY <3>5 DEF SubmitUnclaim, SubmitFinish, UnlinkClaim, WriteTask, QuietIds
    <3>6. CASE ReleaseUnlink(s) \/ ReleaseMark(s)
      BY <3>6 DEF ReleaseUnlink, ReleaseMark, UnlinkClaim, WriteTask, QuietIds
    <3> QED BY <1>2, <3>1, <3>2, <3>3, <3>4, <3>5, <3>6 DEF UseStep
  <2> QED BY <2>1, QuietIdsKeep
<1>3. ASSUME NEW s \in Sessions, ListStep(s) PROVE DistinctIds'
  <2>1. QuietIds(s)
    BY <1>3 DEF ListStep, ListLoad, ListRead, ListUnlink, ListHeal, ReadClaim,
                UnlinkClaim, WriteTask, QuietIds
  <2> QED BY <2>1, QuietIdsKeep
<1>4. ASSUME NEW s \in Sessions, Crash(s) PROVE DistinctIds'
  BY <1>4 DEF Crash, DistinctIds, TypeOK
<1>5. CASE Expire
  BY <1>5 DEF Expire, DistinctIds
<1>6. CASE UNCHANGED claimVars
  BY <1>6 DEF claimVars, DistinctIds
<1> QED BY <1>1, <1>2, <1>3, <1>4, <1>5, <1>6 DEF ClaimNext

-----------------------------------------------------------------------------
\* Steps that leave claim.json alone move a session inside only if it owns the
\* file.
QuietFile(s) ==
    /\ UNCHANGED <<claim, holds, lapsed>>
    /\ \A t \in Sessions : t # s => mine'[t] = mine[t]
    /\ \E point \in Points :
          /\ doing' = [doing EXCEPT ![s] = point]
          /\ ~lapsed /\ Using(s)' => Owns(s)
          /\ ~lapsed => ~Unlinking(s)'
          /\ ~lapsed /\ point \in {"write", "mark"} => claim.id = mine'[s]

LEMMA QuietFileKeeps ==
  ASSUME TypeOK, FileIsHolders, NEW s \in Sessions, QuietFile(s)
  PROVE  FileIsHolders'
<1> SUFFICES ASSUME ~lapsed PROVE FileIsHolders'
  BY DEF FileIsHolders, QuietFile
<1>1. \A t \in Sessions : t # s => doing'[t] = doing[t]
  BY DEF QuietFile, TypeOK
<1>2. \A t \in Sessions : Using(t)' => Owns(t)'
  BY <1>1 DEF QuietFile, FileIsHolders, Using, Inside, Owns
<1>3. \A t \in Sessions : ~Unlinking(t)'
  BY <1>1 DEF QuietFile, FileIsHolders, Unlinking
<1>4. \A t \in Sessions : doing'[t] \in {"write", "mark"} => claim'.id = mine'[t]
  <2>1. doing'[s] \in {"write", "mark"} => claim'.id = mine'[s]
    BY DEF QuietFile, TypeOK
  <2>2. \A t \in Sessions : t # s => mine'[t] = mine[t] /\ claim' = claim
    BY DEF QuietFile
  <2> QED BY <1>1, <2>1, <2>2 DEF FileIsHolders
<1> QED BY <1>2, <1>3, <1>4 DEF FileIsHolders, QuietFile

\* A session that writes its own id to the file, or removes it, is the only one
\* that the file's id concerns.
LEMMA NoneBesideUser ==
  ASSUME TypeOK, DistinctIds, FileIsHolders, ~lapsed,
         NEW s \in Sessions, Owns(s), NEW t \in Sessions, t # s
  PROVE  ~Owns(t) /\ ~Using(t) /\ doing[t] \notin {"write", "mark"}
  BY DEF DistinctIds, FileIsHolders, Owns

LEMMA NoneBesideWriter ==
  ASSUME TypeOK, DistinctIds, FileIsHolders, ~lapsed,
         NEW s \in Sessions, doing[s] \in {"write", "mark"}, NEW t \in Sessions
  PROVE  /\ ~Owns(t) /\ ~Using(t)
         /\ t # s => doing[t] \notin {"write", "mark"}
  BY DEF DistinctIds, FileIsHolders, Owns

LEMMA FileUnlinked ==
  ASSUME TypeOK, DistinctIds, FileIsHolders, NEW s \in Sessions,
         NEW next \in Points, ~Unlinking(s) => Owns(s),
         next \in {"create", "create_again", "idle", "keep", "finish",
                   "released", "heal"},
         next = "keep" => Unlinking(s),
         UnlinkClaim(s, next)
  PROVE  FileIsHolders'
<1> SUFFICES ASSUME ~lapsed PROVE FileIsHolders'
  BY DEF FileIsHolders, UnlinkClaim, history
<1>1. Owns(s) /\ next # "keep"
  BY DEF FileIsHolders
<1>2. doing' = [doing EXCEPT ![s] = next] /\ claim' = NoClaim
  BY DEF UnlinkClaim, Goto
<1>3. \A t \in Sessions : ~Using(t)' /\ doing'[t] \notin {"write", "mark"}
  <2> TAKE t \in Sessions
  <2>1. CASE t = s
    BY <1>1, <1>2, <2>1 DEF TypeOK, Using, Inside
  <2>2. CASE t # s
    BY <1>1, <1>2, <2>2, NoneBesideUser DEF TypeOK, Using, Inside
  <2> QED BY <2>1, <2>2
<1>4. \A t \in Sessions : ~Unlinking(t)'
  BY <1>2 DEF TypeOK, FileIsHolders, Unlinking
<1> QED BY <1>2, <1>3, <1>4 DEF FileIsHolders

LEMMA FileCreated ==
  ASSUME TypeOK, DistinctIds, FileIsHolders, NEW s \in Sessions,
         NEW point \in {"reread", "idle"}, Create(s, point)
  PROVE  FileIsHolders'
<1>1. CASE /\ UNCHANGED <<claim, task, verdict, ids, cmd, mine, holds, history>>
           /\ Goto(s, point)
  <2>1. QuietFile(s)
    BY <1>1 DEF QuietFile, Goto, Points, Using, Inside, Unlinking, TypeOK, history
  <2> QED BY <2>1, QuietFileKeeps
<1>2. CASE /\ claim = NoClaim /\ claim' = Created(ids + 1)
           /\ mine' = [mine EXCEPT ![s] = ids + 1] /\ Goto(s, "write")
           /\ UNCHANGED <<task, verdict, cmd, holds, history>>
  <2> SUFFICES ASSUME ~lapsed PROVE FileIsHolders'
    BY <1>2 DEF FileIsHolders, history
  <2>1. \A t \in Sessions : ~Owns(t)
    BY <1>2 DEF Owns, NoClaim
  <2>2. \A t \in Sessions : ~Using(t) /\ ~Unlinking(t) /\ doing[t] \notin {"write", "mark"}
    BY <1>2, <2>1 DEF FileIsHolders, DistinctIds, NoClaim
  <2>3. /\ doing'[s] = "write" /\ mine'[s] = ids + 1
        /\ \A t \in Sessions : t # s => doing'[t] = doing[t]
    BY <1>2 DEF Goto, TypeOK
  <2>4. \A t \in Sessions : ~Using(t)' /\ ~Unlinking(t)'
    BY <2>2, <2>3 DEF Using, Inside, Unlinking
  <2>5. \A t \in Sessions : doing'[t] \in {"write", "mark"} => claim'.id = mine'[t]
    BY <1>2, <2>2, <2>3 DEF Created
  <2> QED BY <1>2, <2>4, <2>5 DEF FileIsHolders, Created
<1> QED BY <1>1, <1>2 DEF Create

\* The owner writes the file: its payload, or the empty file before it.
LEMMA FileRewritten ==
  ASSUME TypeOK, DistinctIds, FileIsHolders, NEW s \in Sessions,
         NEW point \in Points \ {"write", "mark", "renew"}, ~Unlinking(s)',
         ~lapsed => Owns(s), claim' \in {claim, Created(holds[s]), Written(holds[s])},
         doing' = [doing EXCEPT ![s] = point], UNCHANGED <<mine, holds, lapsed>>
  PROVE  FileIsHolders'
<1> SUFFICES ASSUME ~lapsed PROVE FileIsHolders'
  BY DEF FileIsHolders
<1>1. claim'.id = claim.id /\ claim # NoClaim /\ (claim' # NoClaim => claim'.live)
  BY DEF Owns, Created, Written, NoClaim, FileIsHolders
<1>2. \A t \in Sessions : Owns(t)' <=> Owns(t)
  BY <1>1 DEF Owns
<1>3. \A t \in Sessions : t # s => doing'[t] = doing[t]
  BY DEF TypeOK
<1>4. doing'[s] = point
  BY DEF TypeOK
<1>5. \A t \in Sessions : Using(t)' => Owns(t)'
  BY <1>2, <1>3 DEF FileIsHolders, Using, Inside
<1>6. \A t \in Sessions : ~Unlinking(t)'
  BY <1>3 DEF FileIsHolders, Unlinking
<1>7. \A t \in Sessions : doing'[t] \in {"write", "mark"} => claim'.id = mine'[t]
  BY <1>1, <1>3, <1>4 DEF FileIsHolders
<1> QED BY <1>1, <1>5, <1>6, <1>7 DEF FileIsHolders

LEMMA FileNext == TypeOK /\ DistinctIds /\ FileIsHolders /\ [ClaimNext]_claimVars => FileIsHolders'
<1> SUFFICES ASSUME TypeOK, DistinctIds, FileIsHolders, [ClaimNext]_claimVars
             PROVE  FileIsHolders'
  OBVIOUS
<1> USE DEF Goto, Points, Commands, history
<1>0. ~lapsed => ~Expired
  BY DEF FileIsHolders, Expired, Readable
<1>1. ASSUME NEW s \in Sessions, ClaimStep(s) PROVE FileIsHolders'
  <2>1. CASE ClaimCreate(s)
    BY <2>1, FileCreated DEF ClaimCreate
  <2>2. CASE ClaimCreateAgain(s)
    BY <2>2, FileCreated DEF ClaimCreateAgain
  <2>3. CASE ClaimUnlink(s)
    BY <2>3, FileUnlinked DEF ClaimUnlink, Unlinking
  <2>4. CASE ClaimUnlinkAgain(s)
    BY <2>4, FileUnlinked DEF ClaimUnlinkAgain, Unlinking
  <2>5. CASE ClaimStart(s) \/ ClaimRead(s) \/ ClaimReread(s)
    <3>1. QuietFile(s)
      BY <1>0, <2>5 DEF ClaimStart, ClaimRead, ClaimReread, ReadClaim, QuietFile,
                        Using, Inside, Unlinking, TypeOK
    <3> QED BY <3>1, QuietFileKeeps
  <2>6. CASE ClaimWrite(s)
    <3> SUFFICES ASSUME ~lapsed PROVE FileIsHolders'
      BY <2>6 DEF ClaimWrite, FileIsHolders
    <3>1. claim.id = mine[s] /\ claim' = Written(mine[s]) /\ doing' = [doing EXCEPT ![s] = "mark"]
      BY <2>6 DEF ClaimWrite, FileIsHolders
    <3>2. \A t \in Sessions : ~Using(t)' /\ ~Unlinking(t)'
      BY <2>6, <3>1, NoneBesideWriter
      DEF ClaimWrite, TypeOK, FileIsHolders, Using, Inside, Unlinking
    <3>3. \A t \in Sessions : doing'[t] \in {"write", "mark"} => t = s
      BY <2>6, <3>1, NoneBesideWriter DEF ClaimWrite, TypeOK
    <3> QED BY <2>6, <3>1, <3>2, <3>3 DEF ClaimWrite, FileIsHolders, Written
  <2>7. CASE ClaimMark(s)
    <3> SUFFICES ASSUME ~lapsed PROVE FileIsHolders'
      BY <2>7 DEF ClaimMark, FileIsHolders
    <3>1. \A t \in Sessions : ~Using(t)' /\ ~Unlinking(t)'
      BY <2>7, NoneBesideWriter
      DEF ClaimMark, TypeOK, FileIsHolders, Using, Inside, Unlinking
    <3>2. \A t \in Sessions : doing'[t] \notin {"write", "mark"}
      BY <2>7, NoneBesideWriter DEF ClaimMark, TypeOK
    <3> QED BY <2>7, <3>1, <3>2 DEF ClaimMark, FileIsHolders
  <2> QED BY <1>1, <2>1, <2>2, <2>3, <2>4, <2>5, <2>6, <2>7 DEF ClaimStep
<1>2. ASSUME NEW s \in Sessions, UseStep(s) PROVE FileIsHolders'
  <2>1. CASE RequireClaim(s)
    <3>1. QuietFile(s)
      <4>1. UNCHANGED <<claim, holds, lapsed, mine>>
        BY <2>1 DEF RequireClaim
      <4>2. CASE MayUse(s) /\ doing' = [doing EXCEPT ![s] = "renew"]
        BY <2>1, <4>1, <4>2 DEF RequireClaim, MayUse, Owns, QuietFile, Unlinking,
                                TypeOK
      <4>3. CASE Expired /\ doing' = [doing EXCEPT ![s] = "drop"]
        BY <1>0, <4>1, <4>3 DEF QuietFile
      <4>4. CASE doing' = [doing EXCEPT ![s] = "idle"]
        BY <4>1, <4>4 DEF QuietFile, Using, Inside, Unlinking, TypeOK
      <4> QED BY <2>1, <4>2, <4>3, <4>4 DEF RequireClaim
    <3> QED BY <3>1, QuietFileKeeps
  <2>2. CASE DropExpired(s)
    BY <2>2, FileUnlinked DEF DropExpired, Unlinking
  <2>3. CASE RenewTruncate(s)
    <3>1. (~lapsed => Owns(s)) /\ ~Unlinking(s)'
      BY <2>3 DEF RenewTruncate, FileIsHolders, Using, Unlinking, TypeOK
    <3> QED BY <2>3, <3>1, FileRewritten DEF RenewTruncate
  <2>4. CASE RenewClaim(s)
    <3>1. cmd[s] \in Commands /\ (~lapsed => Owns(s)) /\ ~Unlinking(s)'
      BY <2>4 DEF RenewClaim, FileIsHolders, Using, Inside, Unlinking, TypeOK
    <3> QED BY <2>4, <3>1, FileRewritten DEF RenewClaim
  <2>5. CASE RunTool(s) \/ KeepClaimed(s) \/ SubmitValidate(s) \/ SubmitWriteback(s)
    <3>1. ~lapsed => Owns(s)
      BY <2>5 DEF RunTool, KeepClaimed, SubmitValidate, SubmitWriteback,
                  FileIsHolders, Using, Inside
    <3>2. QuietFile(s)
      BY <1>0, <2>5, <3>1
      DEF RunTool, KeepClaimed, SubmitValidate, SubmitWriteback, ReadClaim,
          WriteTask, QuietFile, Using, Inside, Unlinking, TypeOK
    <3> QED BY <3>2, QuietFileKeeps
  <2>6. CASE ToolUnlink(s)
    BY <2>6, FileUnlinked DEF ToolUnlink, Unlinking
  <2>7. CASE SubmitUnclaim(s) \/ ReleaseUnlink(s)
    <3>1. ~lapsed => Owns(s)
      BY <2>7 DEF SubmitUnclaim, ReleaseUnlink, FileIsHolders, Using, Inside
    <3>2. CASE lapsed
      BY <2>7, <3>2 DEF SubmitUnclaim, ReleaseUnlink, UnlinkClaim, FileIsHolders
    <3> QED BY <2>7, <3>1, <3>2, FileUnlinked DEF SubmitUnclaim, ReleaseUnlink
  <2>8. CASE SubmitFinish(s) \/ ReleaseMark(s)
    <3>1. QuietFile(s)
      BY <2>8 DEF SubmitFinish, ReleaseMark, WriteTask, QuietFile, Using, Inside,
                  Unlinking, TypeOK
    <3> QED BY <3>1, QuietFileKeeps
  <2> QED BY <1>2, <2>1, <2>2, <2>3, <2>4, <2>5, <2>6, <2>7, <2>8 DEF UseStep
<1>3. ASSUME NEW s \in Sessions, ListStep(s) PROVE FileIsHolders'
  <2>1. CASE ListUnlink(s)
    BY <2>1, FileUnlinked DEF ListUnlink, Unlinking
  <2>2. CASE ListLoad(s) \/ ListRead(s) \/ ListHeal(s)
    <3>1. QuietFile(s)
      BY <1>0, <2>2 DEF ListLoad, ListRead, ListHeal, ReadClaim, WriteTask,
                        QuietFile, Using, Inside, Unlinking, TypeOK
    <3> QED BY <3>1, QuietFileKeeps
  <2> QED BY <1>3, <2>1, <2>2 DEF ListStep
<1>4. ASSUME NEW s \in Sessions, Crash(s) PROVE FileIsHolders'
  <2>1. QuietFile(s)
    BY <1>4 DEF Crash, QuietFile, Using, Inside, Unlinking, TypeOK
  <2> QED BY <2>1, QuietFileKeeps
<1>5. CASE Expire
  BY <1>5 DEF Expire, FileIsHolders
<1>6. CASE UNCHANGED claimVars
  BY <1>6 DEF claimVars, FileIsHolders, Using, Inside, Unlinking, Owns
<1> QED BY <1>1, <1>2, <1>3, <1>4, <1>5, <1>6 DEF ClaimNext

LEMMA IInvariant == ClaimSpec => []IInv
<1>1. ClaimInit => IInv
  BY TypeInit, InvInit DEF IInv
<1>2. IInv /\ [ClaimNext]_claimVars => IInv'
  BY TypeNext, DistinctNext, FileNext DEF IInv
<1> QED BY <1>1, <1>2, PTL DEF ClaimSpec

\* No two sessions are past the check of the claim together while none has
\* lapsed: the file holds one id, and no two sessions hold the same.
THEOREM Excluded == ClaimSpec => []Exclusion
<1>1. IInv => Exclusion
  BY DEF IInv, DistinctIds, FileIsHolders, Using, Owns, Exclusion
<1> QED BY <1>1, IInvariant, PTL

-----------------------------------------------------------------------------
LEMMA CreateOwners ==
  ASSUME TypeOK, NEW s \in Sessions, NEW point \in {"reread", "idle"},
         Create(s, point), NEW t \in Sessions, Owns(t)
  PROVE  Owns(t)'
  BY DEF Create, Owns, NoClaim, history

\* A claim step of one session leaves every owner its claim.
LEMMA ClaimStepOwners ==
  ASSUME IInv, ~lapsed, NEW s \in Sessions, ClaimStep(s), NEW t \in Sessions, Owns(t)
  PROVE  Owns(t)'
<1>1. CASE ClaimCreate(s) \/ ClaimCreateAgain(s)
  BY <1>1, CreateOwners DEF ClaimCreate, ClaimCreateAgain, IInv
<1>2. CASE ClaimUnlink(s) \/ ClaimUnlinkAgain(s)
  BY <1>2 DEF ClaimUnlink, ClaimUnlinkAgain, IInv, FileIsHolders, Unlinking
<1>3. CASE ClaimWrite(s) \/ ClaimMark(s)
  BY <1>3, NoneBesideWriter DEF ClaimWrite, ClaimMark, IInv
<1>4. CASE ClaimStart(s) \/ ClaimRead(s) \/ ClaimReread(s)
  BY <1>4 DEF ClaimStart, ClaimRead, ClaimReread, ReadClaim, Owns
<1> QED BY <1>1, <1>2, <1>3, <1>4 DEF ClaimStep

\* A session past its check takes the claim from no other session, and gives up
\* its own where it says so.
LEMMA UseStepOwners ==
  ASSUME IInv, ~lapsed, NEW s \in Sessions, UseStep(s), NEW t \in Sessions, Owns(t)
  PROVE  Owns(t)' \/ doing[t] \in {"release", "unclaim"}
<1>1. CASE RenewTruncate(s) \/ RenewClaim(s)
  <2>1. Owns(s) /\ t = s
    BY <1>1, NoneBesideUser
    DEF RenewTruncate, RenewClaim, IInv, FileIsHolders, Using, Inside
  <2> QED BY <1>1, <2>1 DEF RenewTruncate, RenewClaim, Owns, Created, Written
<1>2. CASE SubmitUnclaim(s) \/ ReleaseUnlink(s)
  <2>1. Owns(s) /\ doing[s] \in {"release", "unclaim"}
    BY <1>2 DEF SubmitUnclaim, ReleaseUnlink, IInv, FileIsHolders, Using, Inside
  <2> QED BY <2>1, NoneBesideUser DEF IInv
<1>3. CASE DropExpired(s) \/ ToolUnlink(s)
  BY <1>3 DEF DropExpired, ToolUnlink, IInv, FileIsHolders, Unlinking
<1>4. CASE \/ RequireClaim(s) \/ RunTool(s) \/ KeepClaimed(s)
           \/ SubmitValidate(s) \/ SubmitWriteback(s) \/ SubmitFinish(s)
           \/ ReleaseMark(s)
  BY <1>4 DEF RequireClaim, RunTool, KeepClaimed, SubmitValidate,
              SubmitWriteback, SubmitFinish, ReleaseMark, ReadClaim, WriteTask,
              Owns
<1> QED BY <1>1, <1>2, <1>3, <1>4 DEF UseStep

LEMMA OwnersNext ==
  ASSUME IInv, [ClaimNext]_claimVars, ~lapsed, NEW t \in Sessions, Owns(t)
  PROVE  Owns(t)' \/ doing[t] \in {"release", "unclaim"}
<1>1. ASSUME NEW s \in Sessions, ListStep(s) PROVE Owns(t)'
  <2>1. CASE ListUnlink(s)
    BY <2>1 DEF ListUnlink, IInv, FileIsHolders, Unlinking
  <2> QED
    BY <1>1, <2>1 DEF ListStep, ListLoad, ListRead, ListHeal, ReadClaim,
                      WriteTask, Owns
<1>2. ASSUME NEW s \in Sessions, Crash(s) PROVE Owns(t)'
  BY <1>2 DEF Crash, Owns
<1>3. CASE Expire
  BY <1>3 DEF Expire, Owns
<1>4. CASE UNCHANGED claimVars
  BY <1>4 DEF claimVars, Owns
<1> QED
  BY <1>1, <1>2, <1>3, <1>4, ClaimStepOwners, UseStepOwners DEF ClaimNext

\* While no claim has lapsed, the claim of a session ends only where the session
\* itself releases it or submits a result that passes.
THEOREM Owned == ClaimSpec => OwnerLetsGo
<1>1. IInv /\ [ClaimNext]_claimVars =>
        [~lapsed => \A s \in Sessions :
           Owns(s) /\ ~Owns(s)' => doing[s] \in {"release", "unclaim"}]_claimVars
  BY OwnersNext
<1> QED BY <1>1, IInvariant, PTL DEF ClaimSpec, OwnerLetsGo
=============================================================================
