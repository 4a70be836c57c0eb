------------------------------ MODULE Prompts ------------------------------
(***************************************************************************)
(* A turn that stops to ask: tool calls that need the user, the Inbox      *)
(* items that carry the question (inbox.py), the surfaces that answer it   *)
(* (server/app.py, server/manager.py), Stop, and the durable resume of a   *)
(* turn whose process died while it was waiting (engine.resume).           *)
(*                                                                         *)
(* One session.  The conversation is reduced to its last block of tool     *)
(* calls: which calls, which have a tool result, and whether a user        *)
(* message came after it.  There are two copies, the engine's and the one  *)
(* saved by ConversationStore.  An action is the code between two awaits.  *)
(***************************************************************************)
EXTENDS Naturals, Sequences, FiniteSets, SequencesExt, Functions, Kept

CONSTANTS
  Calls,       (* tool_call ids; every one of them needs the user          *)
  Asks,        (* those whose answer is their result: ask_user and the like*)
  MaxBlock,    (* bound: calls in one assistant message                    *)
  MaxRuns,     (* bound: engine runs                                       *)
  MaxCrashes,  (* bound: process deaths                                    *)
  None         (* no call                                                  *)

Runs == 1..MaxRuns

ASSUME PromptsAssumption ==
  /\ Asks \subseteq Calls
  /\ None \notin Calls
  /\ {MaxBlock, MaxRuns, MaxCrashes} \subseteq Nat

VARIABLES
  running,   (* session_id \in manager._running_sessions                   *)
  cancel,    (* engine._cancel                                             *)
  run,       (* engine runs: run, or resume                                *)
  thread,    (* the last block in engine.messages                          *)
  disk,      (* the last block in the saved conversation                   *)
  items,     (* InboxStore: the state of each call's item (saved at once)  *)
  raised,    (* InboxStore: the items in order of creation                 *)
  issued,    (* call ids the model has used                                *)
  executed,  (* history: how often each call's tool ran                    *)
  torn,      (* history: calls whose result a crash lost                   *)
  crashes    (* deaths so far                                              *)

storeVars == <<items, raised>>
histVars == <<issued, executed, torn, crashes>>
vars == <<running, cancel, run, thread, disk, storeVars, histVars>>

-----------------------------------------------------------------------------
(* Engine runs. *)

Kinds == {"socket", "scheduled", "resume"}
Phases == {"unused", "thinking", "authorizing", "waiting", "executing",
           "ending", "done", "dead"}

(* todo: calls still to authorize.  cleared: authorized, still to execute. *)
NewRun(k, p, todo) == [kind |-> k, phase |-> p, todo |-> todo, cleared |-> <<>>]
NoRun == NewRun("socket", "unused", <<>>)

Live(r) == run[r].phase \notin {"unused", "done", "dead"}
Waiting(r) == run[r].phase = "waiting"
Fresh(r) == \A u \in Runs : run[u].phase = "unused" <=> u >= r
ScheduledRan == \E r \in Runs : run[r].kind = "scheduled"

(* _run_scheduled_task never marks its session running. *)
Flagged(r) == run[r].kind # "scheduled"

Enter(r, p) == run' = [run EXCEPT ![r].phase = p]
(* The run is done with the first of its calls to authorize. *)
Next1(r, cleared) ==
  run' = [run EXCEPT ![r] = [@ EXCEPT !.phase = "authorizing", !.todo = Tail(run[r].todo),
                                      !.cleared = cleared]]

-----------------------------------------------------------------------------
(* The conversation. *)

Block(calls) == [calls |-> calls, answered |-> {}, past |-> FALSE]
InBlock(b) == Range(b.calls)
Open(b) == InBlock(b) \ b.answered

(* A tool result: a real one, a denial, or an "interrupted by user".       *)
Answered(c) == thread' = [thread EXCEPT !.answered = @ \cup {c}]

(* engine._unanswered_trailing_tool_calls *)
Unanswered(b) ==
  IF b.past THEN <<>> ELSE Kept(b.calls, Calls \ b.answered)

(* ConversationStore.load: placeholder results for open calls, unless the  *)
(* block is the very last message.                                         *)
Repair(b) ==
  IF b.past \/ b.answered # {} THEN [b EXCEPT !.answered = InBlock(b)] ELSE b

(* A provider rejects a conversation whose old calls have no result.       *)
Orphaned == thread.past /\ Open(thread) # {}

-----------------------------------------------------------------------------
(* Turns. *)

(* A user message starts a turn; the turn_start checkpoint saves it. *)
UserTurn(r) ==
  /\ ~running
  /\ Fresh(r)
  /\ running' = TRUE
  /\ run' = [run EXCEPT ![r] = NewRun("socket", "thinking", <<>>)]
  /\ cancel' = FALSE
  /\ thread' = [thread EXCEPT !.past = TRUE]
  /\ disk' = thread'
  /\ UNCHANGED <<storeVars, histVars>>

(* An automation fires: a new session, run without the running flag. *)
ScheduledTurn(r) ==
  /\ r = 1
  /\ Fresh(r)
  /\ run' = [run EXCEPT ![r] = NewRun("scheduled", "thinking", <<>>)]
  /\ cancel' = FALSE
  /\ thread' = [thread EXCEPT !.past = TRUE]
  /\ UNCHANGED <<running, disk, storeVars, histVars>>

Blocks == {b \in UNION {[1..n -> Calls] : n \in 1..MaxBlock} : IsInjective(b)}

(* The model replies with tool calls. *)
Issue(r, calls) ==
  /\ run[r].phase = "thinking"
  /\ ~Orphaned
  /\ Range(calls) \cap issued = {}
  /\ run' = [run EXCEPT ![r] = [@ EXCEPT !.phase = "authorizing", !.todo = calls]]
  /\ thread' = Block(calls)
  /\ issued' = issued \cup Range(calls)
  /\ UNCHANGED <<running, cancel, disk, storeVars, executed, torn, crashes>>

Authorizing(r, c) ==
  /\ run[r].phase = "authorizing"
  /\ run[r].todo # <<>>
  /\ c = Head(run[r].todo)

(* Mutants of RaisePrompt: the thread is not saved; a re-raised prompt     *)
(* gets a second item.                                                     *)
RaisePromptUnsaved(r, c) ==
  /\ Authorizing(r, c)
  /\ ~cancel
  /\ items[c] \in {"none", "pending"}
  /\ items' = [items EXCEPT ![c] = "pending"]
  /\ raised' = IF items[c] = "none" THEN Append(raised, c) ELSE raised
  /\ Enter(r, "waiting")
  /\ UNCHANGED <<running, cancel, thread, disk, histVars>>

RaisePromptAnew(r, c) ==
  /\ Authorizing(r, c)
  /\ ~cancel
  /\ items[c] \in {"none", "pending"}
  /\ items' = [items EXCEPT ![c] = "pending"]
  /\ raised' = Append(raised, c)
  /\ disk' = thread
  /\ Enter(r, "waiting")
  /\ UNCHANGED <<running, cancel, thread, histVars>>

(* The approver parks an item, idempotent by call id, saves the thread and *)
(* waits.                                                                  *)
RaisePrompt(r, c) ==
  /\ Authorizing(r, c)
  /\ ~cancel
  /\ items[c] \in {"none", "pending"}
  /\ items' = [items EXCEPT ![c] = "pending"]
  /\ raised' = IF items[c] = "none" THEN Append(raised, c) ELSE raised
  /\ disk' = thread
  /\ Enter(r, "waiting")
  /\ UNCHANGED <<running, cancel, thread, histVars>>

(* The answer reaches the run, or was there before it asked: an allowed    *)
(* call will execute, any other answer is the call's result.               *)
TakeAnswer(r, c) ==
  /\ \/ Waiting(r) /\ c = Head(run[r].todo)
     \/ Authorizing(r, c) /\ ~cancel
  /\ items[c] \in {"allow", "deny"}
  /\ IF items[c] = "allow" /\ c \notin Asks
     THEN Next1(r, Append(run[r].cleared, c)) /\ UNCHANGED thread
     ELSE Next1(r, run[r].cleared) /\ Answered(c)
  /\ UNCHANGED <<running, cancel, disk, storeVars, histVars>>

(* Mutant of Interrupted: Stop does not reach a waiting prompt. *)
InterruptedBetweenPrompts(r, c) ==
  /\ Authorizing(r, c)
  /\ cancel
  /\ Next1(r, run[r].cleared)
  /\ Answered(c)
  /\ UNCHANGED <<running, cancel, disk, storeVars, histVars>>

(* Stop: a waiting call and the calls after it are answered as            *)
(* interrupted.  The Inbox item stays as it is.                            *)
Interrupted(r, c) ==
  /\ \/ Waiting(r) /\ c = Head(run[r].todo)
     \/ Authorizing(r, c)
  /\ cancel
  /\ Next1(r, run[r].cleared)
  /\ Answered(c)
  /\ UNCHANGED <<running, cancel, disk, storeVars, histVars>>

(* All calls are authorized: run the first cleared one. *)
ToExecute(r, c) ==
  /\ run[r].phase = "authorizing"
  /\ run[r].todo = <<>>
  /\ run[r].cleared # <<>>
  /\ c = Head(run[r].cleared)

Execute(r, c) ==
  /\ ToExecute(r, c)
  /\ ~cancel
  /\ executed' = [executed EXCEPT ![c] = @ + 1]
  /\ Enter(r, "executing")
  /\ UNCHANGED <<running, cancel, thread, disk, storeVars, issued, torn, crashes>>

Dequeue(r) ==
  run' = [run EXCEPT ![r] = [@ EXCEPT !.phase = "authorizing", !.cleared = Tail(run[r].cleared)]]

ExecuteDone(r, c) ==
  /\ run[r].phase = "executing"
  /\ c = Head(run[r].cleared)
  /\ Dequeue(r)
  /\ Answered(c)
  /\ UNCHANGED <<running, cancel, disk, storeVars, histVars>>

(* Mutant of SkipExecute: the call that will not run gets no result. *)
DropExecute(r, c) ==
  /\ ToExecute(r, c)
  /\ cancel
  /\ Dequeue(r)
  /\ UNCHANGED <<running, cancel, thread, disk, storeVars, histVars>>

SkipExecute(r, c) ==
  /\ ToExecute(r, c)
  /\ cancel
  /\ Dequeue(r)
  /\ Answered(c)
  /\ UNCHANGED <<running, cancel, disk, storeVars, histVars>>

(* iteration_end: a checkpoint of socket turns only. *)
EndBlock(r) ==
  /\ run[r].phase = "authorizing"
  /\ run[r].todo = <<>>
  /\ run[r].cleared = <<>>
  /\ Enter(r, IF cancel THEN "ending" ELSE "thinking")
  /\ disk' = IF run[r].kind = "socket" THEN thread ELSE disk
  /\ UNCHANGED <<running, cancel, thread, storeVars, histVars>>

(* The run ends: the thread is saved and the flag, if it was claimed, freed.*)
Finish(r) ==
  /\ run[r].phase \in {"thinking", "ending"}
  /\ Enter(r, "done")
  /\ disk' = thread
  /\ running' = IF Flagged(r) THEN FALSE ELSE running
  /\ UNCHANGED <<cancel, thread, storeVars, histVars>>

(* request_interrupt, from a socket or the session's deletion. *)
Stop ==
  /\ \E r \in Runs : Live(r)
  /\ ~cancel
  /\ cancel' = TRUE
  /\ UNCHANGED <<running, run, thread, disk, storeVars, histVars>>

-----------------------------------------------------------------------------
(* Answers. *)

Answers == {"allow", "deny"}
Pending == {c \in Calls : items[c] = "pending"}

(* Mutant of Resolve: a later answer overwrites the first. *)
ResolveAgain(c, answer) ==
  /\ items[c] # "none"
  /\ items' = [items EXCEPT ![c] = answer]
  /\ UNCHANGED raised

(* InboxStore.resolve: once. *)
Resolve(c, answer) ==
  /\ items[c] = "pending"
  /\ items' = [items EXCEPT ![c] = answer]
  /\ UNCHANGED raised

OldestPending == Kept(raised, Pending)[1]

(* A frame from the card on screen, that of a waiting socket turn.  The    *)
(* frame carries no id: _resolve_pending takes the oldest pending item.    *)
AnswerLive(r, answer) ==
  /\ Waiting(r)
  /\ run[r].kind = "socket"
  /\ items[Head(run[r].todo)] = "pending"
  /\ Resolve(OldestPending, answer)
  /\ UNCHANGED <<running, cancel, run, thread, disk, histVars>>

(* A channel reply with the item's token: the item is resolved, no more.   *)
AnswerByReply(c, answer) ==
  /\ Resolve(c, answer)
  /\ UNCHANGED <<running, cancel, run, thread, disk, histVars>>

(* Mutant of Resumable: is_running is not asked. *)
ResumableThread == Unanswered(thread) # <<>>

(* resolve_inbox resumes an idle session; resume() returns at once when    *)
(* the conversation does not end in an unanswered call.                    *)
Resumable == ~running /\ Unanswered(thread) # <<>>

(* _durable_resume *)
DurableResume(r) ==
  /\ Fresh(r)
  /\ running' = TRUE
  /\ run' = [run EXCEPT ![r] = NewRun("resume", "authorizing", Unanswered(thread))]
  /\ cancel' = FALSE

(* resolve_inbox, by id: the Inbox page, a card after a reconnect, a chat  *)
(* button.                                                                 *)
AnswerById(c, answer) ==
  /\ Resolve(c, answer)
  /\ IF Resumable THEN \E r \in Runs : DurableResume(r)
                  ELSE UNCHANGED <<running, cancel, run>>
  /\ UNCHANGED <<thread, disk, histVars>>

-----------------------------------------------------------------------------

(* The process dies.  The next one loads the saved thread. *)
Crash ==
  /\ crashes < MaxCrashes
  /\ crashes' = crashes + 1
  /\ running' = FALSE
  /\ cancel' = FALSE
  /\ run' = [r \in Runs |-> IF Live(r) THEN [run[r] EXCEPT !.phase = "dead"]
                                       ELSE run[r]]
  /\ disk' = Repair(disk)
  /\ thread' = disk'
  /\ torn' = torn \cup {c \in Open(disk) : executed[c] > 0}
  /\ UNCHANGED <<storeVars, issued, executed>>

Init ==
  /\ running = FALSE
  /\ cancel = FALSE
  /\ run = [r \in Runs |-> NoRun]
  /\ thread = Block(<<>>)
  /\ disk = Block(<<>>)
  /\ items = [c \in Calls |-> "none"]
  /\ raised = <<>>
  /\ issued = {}
  /\ executed = [c \in Calls |-> 0]
  /\ torn = {}
  /\ crashes = 0

CallStep(r, c) ==
  \/ RaisePrompt(r, c) \/ TakeAnswer(r, c) \/ Interrupted(r, c)
  \/ Execute(r, c) \/ ExecuteDone(r, c) \/ SkipExecute(r, c)

RunStep(r) ==
  \/ \E c \in Calls : CallStep(r, c)
  \/ EndBlock(r)
  \/ Finish(r)

Next ==
  \/ \E r \in Runs : UserTurn(r) \/ ScheduledTurn(r) \/ RunStep(r)
  \/ \E r \in Runs, calls \in Blocks : Issue(r, calls)
  \/ Stop
  \/ \E r \in Runs, answer \in Answers : AnswerLive(r, answer)
  \/ \E c \in Calls, answer \in Answers :
       AnswerByReply(c, answer) \/ AnswerById(c, answer)
  \/ Crash

Spec == Init /\ [][Next]_vars

(* The loop runs what is ready, tools return and the model answers or errs.*)
(* Nobody has to answer a prompt.                                          *)
FairSpec == Spec /\ \A r \in Runs : WF_vars(RunStep(r))

-----------------------------------------------------------------------------
(* Properties. *)

CallSeqs == {s \in SeqOf(Calls, MaxBlock) : IsInjective(s)}
BlockRecord == [calls : CallSeqs, answered : SUBSET Calls, past : BOOLEAN]

(* The values each variable ranges over. *)
TypeOK ==
  /\ running \in BOOLEAN
  /\ cancel \in BOOLEAN
  /\ run \in [Runs -> [kind : Kinds, phase : Phases, todo : CallSeqs,
                       cleared : CallSeqs]]
  /\ thread \in BlockRecord
  /\ disk \in BlockRecord
  /\ items \in [Calls -> {"none", "pending"} \cup Answers]
  /\ Range(raised) = {c \in Calls : items[c] # "none"}
  /\ IsInjective(raised)
  /\ issued \subseteq Calls
  /\ executed \in [Calls -> Nat]
  /\ torn \subseteq Calls
  /\ crashes \in 0..MaxCrashes

(* "Nothing double-executes" (engine.resume), through stops, answers from  *)
(* every surface, restarts and resumes: a tool runs twice only when a      *)
(* crash lost the result of its first run, or beside an automation's run,  *)
(* which a resume does not know of.                                        *)
ExecutedOnce == \A c \in Calls : executed[c] > 1 => c \in torn \/ ScheduledRan

(* What ran is what the recorded answer allows: the first answer is final. *)
RanWithConsent ==
  \A c \in Calls : executed[c] > 0 => items[c] = "allow" /\ c \notin Asks

(* A prompt somebody is asked to answer is on disk with its turn, so that  *)
(* the next process can resume it (persist_session).                       *)
ParkedPromptIsSaved ==
  \A r \in Runs : Waiting(r) /\ ~ScheduledRan =>
     Head(run[r].todo) \in Range(Unanswered(disk))

(* request_interrupt: "the history never carries orphans".  The model is   *)
(* called on a conversation with an unanswered old call only after a crash.*)
NoOrphans ==
  (\E r \in Runs : run[r].phase = "thinking") =>
     ~Orphaned \/ crashes > 0 \/ ScheduledRan

(* Stop ends a turn from any state, a prompt nobody answers included.      *)
StopEndsTheTurn ==
  \A r \in Runs : cancel /\ Live(r) ~> ~Live(r) \/ ScheduledRan

(* What the documentation says and the code does not do. *)

(* _resolve_pending: "Live WS responses resolve THE session's single       *)
(* pending prompt (one at a time, since the agent blocks)".  A stopped     *)
(* turn leaves its item pending, and the next turn's answer goes to it.    *)
LiveAnswerReachesItsPrompt ==
  [][\A r \in Runs, answer \in Answers :
       AnswerLive(r, answer) /\ ~ScheduledRan =>
          items'[Head(run[r].todo)] # "pending"]_vars

(* _repair_tool_pairing: a call without a result at the end is one "the    *)
(* engine will resume; injecting a placeholder there would break durable   *)
(* resume".  It injects one when an earlier call of the block is answered. *)
ParkedPromptSurvivesRestart ==
  [][Crash /\ ~ScheduledRan =>
       \A r \in Runs : Waiting(r) =>
          Head(run[r].todo) \in Range(Unanswered(thread'))]_vars

=============================================================================
