------------------------------- MODULE Engine -------------------------------
(***************************************************************************)
(* The parts of an engine that share no state, side by side: a behaviour   *)
(* is one of a single part, the others stay as they are.  One run of TLC   *)
(* then checks them all.                                                   *)
(***************************************************************************)
EXTENDS Naturals

CONSTANTS
  Calls, LowRisk, MaxBlock, MaxIter, MaxSteered,                \* EngineTurn
  MaxMsgs, Trigger, KeepTokens, UsersMax, MaxCrashes,           \* Compaction
  Sessions, Proposals, NoArg, RepoCommands, AutoTools, Writable,
  MaxDecisions,                                                 \* Permissions
  Stores, Engines, Workers, Grants, MaxWrites, NoWorker,        \* ApprovalStore
  LogCalls, MaxLog, MaxCuts,                                    \* Transcript
  Ids, IdsRestart, MaxReply, MaxCalls, MaxSaid                  \* CallIds

VARIABLES
  part,  (* the part that moves *)
  phase, cancel, iter, block, todo, cleared, flying, returned, results,
  steering, steered, used, ran, ranLate,
  messages, state, disk, step, serial, covered, shifted, deaths,
  live, mode, tools, commands, rules, repo, prompt, saved, entries, forever,
  trusted, consents, decisions,
  file, mtime, lock, cache, stamp, job, ledger, crossed,
  open, turn, msgs, lines, cuts, kept, meddled,
  up, stage, thread, log, ahead, allowed, items, issued, said, crashes, decided

Turn == INSTANCE EngineTurn
Compact == INSTANCE Compaction
Permit == INSTANCE Permissions
Store == INSTANCE ApprovalStore
Log == INSTANCE Transcript
         WITH Calls <- LogCalls, MaxMsgs <- MaxLog, up <- open, disk <- lines, saved <- kept
Id == INSTANCE CallIds
        WITH Calls <- Ids, MaxBlock <- MaxReply, phase <- stage, todo <- ahead,
             cleared <- allowed, used <- decided

ASSUME PartsAssumption ==
  /\ Turn!EngineAssumption /\ Compact!CompactionAssumption
  /\ Permit!PermissionsAssumption /\ Store!StoreAssumption
  /\ Log!TranscriptAssumption /\ Id!CallIdsAssumption

turnVars == <<phase, cancel, iter, block, todo, cleared, flying, returned,
              results, steering, steered, used, ran, ranLate>>
compactVars == <<messages, state, disk, step, serial, covered, shifted, deaths>>
permitVars == <<live, mode, tools, commands, rules, repo, prompt, saved, entries,
                forever, trusted, consents, decisions>>
approvalVars == <<file, mtime, lock, cache, stamp, job, ledger, crossed>>
logVars == <<open, turn, msgs, lines, cuts, kept, meddled>>
idVars == <<up, stage, thread, log, ahead, allowed, items, issued, said, crashes,
            decided>>

Init ==
  /\ part \in {"turn", "compaction", "permissions", "approvals", "log", "ids"}
  /\ Turn!Init /\ Compact!Init /\ Permit!Init /\ Store!Init /\ Log!Init /\ Id!Init

TurnStep ==
  /\ part = "turn" /\ Turn!Next
  /\ UNCHANGED <<part, compactVars, permitVars, approvalVars, logVars, idVars>>
CompactStep ==
  /\ part = "compaction" /\ Compact!Next
  /\ UNCHANGED <<part, turnVars, permitVars, approvalVars, logVars, idVars>>
PermitStep ==
  /\ part = "permissions" /\ Permit!Next
  /\ UNCHANGED <<part, turnVars, compactVars, approvalVars, logVars, idVars>>
ApprovalStep ==
  /\ part = "approvals" /\ Store!Next
  /\ UNCHANGED <<part, turnVars, compactVars, permitVars, logVars, idVars>>
LogStep ==
  /\ part = "log" /\ Log!Next
  /\ UNCHANGED <<part, turnVars, compactVars, permitVars, approvalVars, idVars>>
IdStep ==
  /\ part = "ids" /\ Id!Next
  /\ UNCHANGED <<part, turnVars, compactVars, permitVars, approvalVars, logVars>>

Next == TurnStep \/ CompactStep \/ PermitStep \/ ApprovalStep \/ LogStep \/ IdStep

Spec ==
  Init /\ [][Next]_<<part, turnVars, compactVars, permitVars, approvalVars, logVars,
                     idVars>>

-----------------------------------------------------------------------------
(* The properties of the parts, each of the one that moves. *)

(* The values each variable ranges over. *)
TypeOK ==
  CASE part = "turn" -> Turn!TypeOK
    [] part = "compaction" -> Compact!TypeOK
    [] part = "permissions" -> Permit!TypeOK
    [] part = "approvals" -> Store!TypeOK
    [] part = "log" -> Log!TypeOK
    [] part = "ids" -> Id!TypeOK

(* _handle_tool_calls: whatever Stop, refusal or mangled call comes in     *)
(* between, the model is called next on a block each call of which has     *)
(* exactly one result, and a call that ran has its own.                    *)
BlockIsAnswered == part = "turn" => Turn!BlockIsAnswered

(* request_interrupt: after a Stop no call with effects starts any more.   *)
StopSparesEffects == part = "turn" => Turn!StopSparesEffects

(* _compact_now: the view sent to the provider never begins with a result  *)
(* whose call is gone, and no message leaves it that was not summarized or *)
(* trimmed, the user's own words apart, which are kept or counted.         *)
SummaryHolds == part = "compaction" => Compact!HeadIsLegal /\ Compact!NothingVanishes

(* The overflow retry: a boundary only moves forward, and moves each time  *)
(* the loop goes round for it.                                             *)
BoundaryAdvances == [][Compact!BoundaryAdvances]_compactVars

(* PermissionEngine.evaluate: a call with effects passes without a prompt  *)
(* only under an approval that the user gave and has not revoked, or the   *)
(* user's own mode, config or trusted workspace.                           *)
AllowedOnlyByConsent == part = "permissions" => Permit!AllowedOnlyByConsent

(* ApprovalStore: no writer of the shared file undoes another one's write, *)
(* and an engine's check sees a content the file had during the check.     *)
GrantsAreCurrent == part = "approvals" => Store!GrantsAreCurrent

(* ConversationStore.save counts lines: the log stays a prefix of the      *)
(* engine's list through cut writes and restarts.                          *)
LogFollowsEngine == part = "log" => Log!LogFollowsEngine

(* A save that returns has brought the engine's whole list to disk.        *)
SaveReachesDisk == [][Log!SaveReachesDisk]_logVars

(* ConversationStore.load: a restart finds a thread a provider takes, with *)
(* every message and every real result a save has confirmed.               *)
LoadsWhatWasSaved ==
  [][Log!LoadsWellFormed /\ Log!CheckpointsSurvive]_logVars

(* A prompt, a result and a resume find their call by its id: with ids of  *)
(* their own, no call takes another's answer or result, and a request is   *)
(* refused only for a call a crash left open.                              *)
CallsKeepTheirIds ==
  part = "ids" =>
    Id!AnswersAreOwn /\ Id!ResultsAreOwn /\ Id!RefusedOnlyWhenSpokenOver

=============================================================================
