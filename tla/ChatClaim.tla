------------------------------- MODULE ChatClaim -------------------------------
(***************************************************************************)
(* One chat task of runtime/ai_runtime/chat_bridge.py and the sessions that *)
(* list, claim, work on, submit and release it.                             *)
(*                                                                          *)
(* A session runs one command at a time, and a command is a process of its  *)
(* own: every read and write of claim.json and chat_task.json is a step.    *)
(* claim.json is the lock; it is created with O_EXCL and carries an expiry. *)
(* A claim id stands for the claim's payload, and for the inode it is       *)
(* written to. chat_task.json is taken to be written in one step. A command *)
(* that raises half-way ends as one that is killed.                         *)
(***************************************************************************)
EXTENDS Naturals

CONSTANTS
    Sessions,
    Expires,      \* does a claim ever pass its expiry?
    Crashes,      \* may a command be killed?
    MaxClaims     \* bound: a claim command starts while fewer ids are drawn

ASSUME ExpiresAssumption == Expires \in BOOLEAN
ASSUME CrashesAssumption == Crashes \in BOOLEAN
ASSUME MaxClaimsAssumption == MaxClaims \in Nat

VARIABLES
    claim,    \* claim.json
    task,     \* status in chat_task.json
    verdict,  \* status in the validation file of the work directory
    ids,      \* claim ids drawn so far
    doing, cmd,  \* a session's next step, and the command that needs the claim
    mine,     \* the claim id a running claim command has drawn
    holds,    \* the last claim id a session was given
    passed,   \* history: chat_task.json has said PASS
    lapsed    \* history: a claim has passed its expiry

history == <<passed, lapsed>>

claimVars == <<claim, task, verdict, ids, doing, cmd, mine, holds, history>>

NoClaim == [id |-> 0, blank |-> FALSE, live |-> FALSE]

\* claim.json right after os.open; the payload is not written yet.
Created(n) == [id |-> n, blank |-> TRUE, live |-> TRUE]

\* Faulty: the payload has no expiry.
WrittenPlain(n) == [id |-> n, blank |-> FALSE]

Written(n) == [id |-> n, blank |-> FALSE, live |-> TRUE]

Readable == claim # NoClaim /\ ~claim.blank
Active   == Readable /\ claim.live
Expired  == Readable /\ ~claim.live

Goto(s, point) == doing' = [doing EXCEPT ![s] = point]

ClaimInit ==
    /\ claim = NoClaim /\ task = "WAITING_FOR_CHAT" /\ verdict = "NONE"
    /\ ids = 0
    /\ doing = [s \in Sessions |-> "idle"] /\ cmd = [s \in Sessions |-> "none"]
    /\ mine = [s \in Sessions |-> 0] /\ holds = [s \in Sessions |-> 0]
    /\ passed = FALSE /\ lapsed = FALSE

-----------------------------------------------------------------------------
(* claim_task.                                                              *)

ClaimStart(s) ==
    /\ doing[s] = "idle" /\ ids < MaxClaims
    /\ task \in {"WAITING_FOR_CHAT", "CLAIMED_BY_CHAT"}
    /\ Goto(s, "claim_read")
    /\ UNCHANGED <<claim, task, verdict, ids, cmd, mine, holds, history>>

\* read_active_claim: a file that cannot be parsed counts as no claim, and an
\* expired one is unlinked in a step of its own.
ReadClaim(s, active, none, expired) ==
    /\ \/ Active /\ Goto(s, active)
       \/ Expired /\ Goto(s, expired)
       \/ ~Readable /\ Goto(s, none)
    /\ UNCHANGED <<claim, task, verdict, ids, cmd, mine, holds, history>>

UnlinkClaim(s, next) ==
    /\ claim' = NoClaim
    /\ Goto(s, next)
    /\ UNCHANGED <<task, verdict, ids, cmd, mine, holds, history>>

ClaimRead(s) ==
    doing[s] = "claim_read" /\ ReadClaim(s, "idle", "create", "claim_unlink")

ClaimUnlink(s) == doing[s] = "claim_unlink" /\ UnlinkClaim(s, "create")

\* Faulty: os.open without O_EXCL.
CreateAnyway(s, present) ==
    /\ ids' = ids + 1
    /\ claim' = Created(ids + 1)
    /\ mine' = [mine EXCEPT ![s] = ids + 1]
    /\ Goto(s, "write")
    /\ UNCHANGED <<task, verdict, cmd, holds, history>>

\* os.open with O_CREAT | O_EXCL.
Create(s, present) ==
    \/ /\ claim = NoClaim
       /\ ids' = ids + 1
       /\ claim' = Created(ids + 1)
       /\ mine' = [mine EXCEPT ![s] = ids + 1]
       /\ Goto(s, "write")
       /\ UNCHANGED <<task, verdict, cmd, holds, history>>
    \/ /\ claim # NoClaim
       /\ Goto(s, present)
       /\ UNCHANGED <<claim, task, verdict, ids, cmd, mine, holds, history>>

ClaimCreate(s) == doing[s] = "create" /\ Create(s, "reread")

\* The file exists: read it again, and try once more if it is not active.
ClaimReread(s) ==
    doing[s] = "reread" /\ ReadClaim(s, "idle", "create_again", "unlink_again")

ClaimUnlinkAgain(s) == doing[s] = "unlink_again" /\ UnlinkClaim(s, "create_again")
ClaimCreateAgain(s) == doing[s] = "create_again" /\ Create(s, "idle")

\* The payload goes to the file that was created, linked or not by now.
ClaimWrite(s) ==
    /\ doing[s] = "write"
    /\ claim' = IF claim.id = mine[s] THEN Written(mine[s]) ELSE claim
    /\ Goto(s, "mark")
    /\ UNCHANGED <<task, verdict, ids, cmd, mine, holds, history>>

\* chat_task.json is rewritten from the copy read first; the id is returned.
ClaimMark(s) ==
    /\ doing[s] = "mark"
    /\ task' = "CLAIMED_BY_CHAT"
    /\ holds' = [holds EXCEPT ![s] = mine[s]]
    /\ mine' = [mine EXCEPT ![s] = 0]
    /\ Goto(s, "idle")
    /\ UNCHANGED <<claim, verdict, ids, cmd, history>>

-----------------------------------------------------------------------------
(* require_claim, the first step of every command of a claimant.            *)

Commands == {"tool", "submit", "release"}

\* Faulty: the claim id is not compared.
MayUseAny(s) == Active

MayUse(s) == Active /\ claim.id = holds[s]

RequireClaim(s) ==
    /\ doing[s] = "idle" /\ holds[s] # 0
    /\ \E c \in Commands : cmd' = [cmd EXCEPT ![s] = c]
    /\ Goto(s, IF MayUse(s) THEN "renew"
               ELSE IF Expired THEN "drop" ELSE "idle")
    /\ UNCHANGED <<claim, task, verdict, ids, mine, holds, history>>

DropExpired(s) == doing[s] = "drop" /\ UnlinkClaim(s, "idle")

\* The claim that was read is written back with a later expiry, whatever the
\* file holds by now: write_text truncates the file, then writes it.
RenewTruncate(s) ==
    /\ doing[s] = "renew"
    /\ claim' = Created(holds[s])
    /\ Goto(s, "rewrite")
    /\ UNCHANGED <<task, verdict, ids, cmd, mine, holds, history>>

RenewClaim(s) ==
    /\ doing[s] = "rewrite"
    /\ claim' = IF claim.id = holds[s] THEN Written(holds[s]) ELSE claim
    /\ Goto(s, cmd[s])
    /\ UNCHANGED <<task, verdict, ids, cmd, mine, holds, history>>

(* run_tool, submit_resolution and release_claim.                           *)

WriteTask(s, status) ==
    /\ task' = status
    /\ Goto(s, "idle")
    /\ UNCHANGED <<claim, verdict, ids, cmd, mine, holds, lapsed>>

\* A tool call, and a submission that is not accepted, read the claim once more
\* before they write the task.
RunTool(s)    == doing[s] = "tool" /\ ReadClaim(s, "keep", "keep", "tool_unlink")
ToolUnlink(s) == doing[s] = "tool_unlink" /\ UnlinkClaim(s, "keep")

KeepClaimed(s) ==
    /\ doing[s] = "keep"
    /\ WriteTask(s, "CLAIMED_BY_CHAT") /\ UNCHANGED passed

SubmitValidate(s) ==
    /\ doing[s] = "submit"
    /\ \/ verdict' = "PASS" /\ Goto(s, "writeback")
       \/ verdict' = "FAIL" /\ Goto(s, "tool")
    /\ UNCHANGED <<claim, task, ids, cmd, mine, holds, history>>

\* The formal writeback succeeds or raises.
SubmitWriteback(s) ==
    /\ doing[s] = "writeback"
    /\ \E next \in {"unclaim", "tool"} : Goto(s, next)
    /\ UNCHANGED <<claim, task, verdict, ids, cmd, mine, holds, history>>

SubmitUnclaim(s) == doing[s] = "unclaim" /\ UnlinkClaim(s, "finish")

SubmitFinish(s) ==
    /\ doing[s] = "finish"
    /\ WriteTask(s, "PASS") /\ passed' = TRUE

ReleaseUnlink(s) == doing[s] = "release" /\ UnlinkClaim(s, "released")

ReleaseMark(s) ==
    /\ doing[s] = "released"
    /\ WriteTask(s, IF task = "CLAIMED_BY_CHAT"
                    THEN "WAITING_FOR_CHAT" ELSE task)
    /\ UNCHANGED passed

-----------------------------------------------------------------------------
(* list_tasks, for this task; a verdict PASS hides the status it loaded.    *)

ListLoad(s) ==
    /\ doing[s] = "idle"
    /\ Goto(s, IF task = "CLAIMED_BY_CHAT" /\ verdict # "PASS"
               THEN "list_claimed" ELSE "list_other")
    /\ UNCHANGED <<claim, task, verdict, ids, cmd, mine, holds, history>>

ListRead(s) ==
    \/ doing[s] = "list_claimed" /\ ReadClaim(s, "idle", "heal", "list_unlink")
    \/ doing[s] = "list_other" /\ ReadClaim(s, "idle", "idle", "drop")

ListUnlink(s) == doing[s] = "list_unlink" /\ UnlinkClaim(s, "heal")

\* The loaded task is written back as waiting.
ListHeal(s) ==
    /\ doing[s] = "heal"
    /\ WriteTask(s, "WAITING_FOR_CHAT") /\ UNCHANGED passed

-----------------------------------------------------------------------------
Expire ==
    /\ Expires /\ Active
    /\ claim' = [claim EXCEPT !.live = FALSE]
    /\ lapsed' = TRUE
    /\ UNCHANGED <<task, verdict, ids, doing, cmd, mine, holds, passed>>

Crash(s) ==
    /\ Crashes /\ doing[s] # "idle"
    /\ Goto(s, "idle")
    /\ mine' = [mine EXCEPT ![s] = 0]
    /\ UNCHANGED <<claim, task, verdict, ids, cmd, holds, history>>

ClaimStep(s) == \/ ClaimStart(s) \/ ClaimRead(s) \/ ClaimUnlink(s)
                \/ ClaimCreate(s) \/ ClaimReread(s) \/ ClaimUnlinkAgain(s)
                \/ ClaimCreateAgain(s) \/ ClaimWrite(s) \/ ClaimMark(s)

UseStep(s) == \/ RequireClaim(s) \/ DropExpired(s)
              \/ RenewTruncate(s) \/ RenewClaim(s)
              \/ RunTool(s) \/ ToolUnlink(s) \/ KeepClaimed(s)
              \/ SubmitValidate(s) \/ SubmitWriteback(s)
              \/ SubmitUnclaim(s) \/ SubmitFinish(s)
              \/ ReleaseUnlink(s) \/ ReleaseMark(s)

ListStep(s) == ListLoad(s) \/ ListRead(s) \/ ListUnlink(s) \/ ListHeal(s)

ClaimNext ==
    \/ \E s \in Sessions : ClaimStep(s) \/ UseStep(s) \/ ListStep(s) \/ Crash(s)
    \/ Expire

ClaimSpec == ClaimInit /\ [][ClaimNext]_claimVars

-----------------------------------------------------------------------------
(* Types.                                                                   *)

Points == {"idle", "claim_read", "claim_unlink", "create", "reread",
           "unlink_again", "create_again", "write", "mark", "drop", "renew",
           "rewrite", "tool_unlink", "keep", "writeback", "unclaim", "finish",
           "released", "list_claimed", "list_other", "list_unlink", "heal"}
          \cup Commands

TypeOK ==
    /\ claim \in [id : Nat, blank : BOOLEAN, live : BOOLEAN]
    /\ task \in {"WAITING_FOR_CHAT", "CLAIMED_BY_CHAT", "PASS"}
    /\ verdict \in {"NONE", "FAIL", "PASS"}
    /\ ids \in Nat
    /\ doing \in [Sessions -> Points]
    /\ cmd \in [Sessions -> Commands \cup {"none"}]
    /\ \A s \in Sessions : doing[s] \in {"renew", "rewrite"} => cmd[s] \in Commands
    /\ mine \in [Sessions -> Nat] /\ holds \in [Sessions -> Nat]
    /\ passed \in BOOLEAN /\ lapsed \in BOOLEAN

-----------------------------------------------------------------------------
(* Safety, while no claim expires.                                          *)

Inside(s) == doing[s] \in {"rewrite", "tool", "keep", "submit", "writeback",
                        "unclaim", "release"}

\* Two sessions never work on the task at the same time, whatever commands
\* were killed before (chat_bridge.py:184-193, 216-232).
Exclusion ==
    ~lapsed => \A s, t \in Sessions : Inside(s) /\ Inside(t) => s = t

Owns(s) == holds[s] # 0 /\ claim.id = holds[s]

\* A session that was given the claim keeps it until it gives it back
\* (chat_bridge.py:184-193, 240-243, 573-575).
OwnerLetsGo ==
    [][~lapsed => \A s \in Sessions :
         Owns(s) /\ ~Owns(s)' => doing[s] \in {"release", "unclaim"}]_claimVars

-----------------------------------------------------------------------------
(* What the code asserts and does not keep.                                 *)

\* "task is not claimable" (chat_bridge.py:159-162): a task that has passed is
\* never given to a session.
PassedIsNotClaimed ==
    [][\A s \in Sessions : holds'[s] # holds[s] => ~passed]_claimVars

\* "release all claims in an abandoned bundle" (CHAT_EXECUTION_PROFILE.md:45),
\* and every claim runs out (chat_bridge.py:114): no claim file stays that has
\* neither a payload, so that none can release or outlive it, nor a writer.
BlankIsBeingWritten ==
    claim.blank => \E s \in Sessions :
                      /\ claim.id \in {mine[s], holds[s]}
                      /\ doing[s] \in {"write", "rewrite"}
=============================================================================
