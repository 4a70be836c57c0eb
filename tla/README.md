# Judith in TLA+

Judith is a local agent server with a desktop GUI: people and chat platforms
talk to *sessions*, each session is an LLM agent with tools, and automations
and timers start agents on their own. The server is one Python process: an
asyncio event loop, FastAPI routes (plain `def` routes run on a thread pool),
and stores on disk (JSON lines and sqlite). Paths below are under `src/coworker/`.

These modules model the part of it that decides *who runs an agent, what an
agent may do and to whom, what becomes of a message, an approval or a firing,
and what survives a restart*.

| module | models | run | proved in |
|---|---|---|---|
| `TurnLock` | what a session promises about its engine | through `SessionTurns` | |
| `SessionTurns` | the running flag, turn tasks, steering queue, release of a stuck flag | `SessionTurns` | `SessionTurns_proofs` |
| `Prompts` | tool calls that ask the user, Inbox items, answers, Stop, durable resume | `Prompts` | `Prompts_proofs` |
| `Automations` | scheduler, task record, its editors, manual runs, self-wakes | `Automations` | `Automations_proofs` |
| `EngineTurn` | the model loop and its batches of tool calls | `Engine` | `EngineTurn_proofs`, `Engine_proofs` |
| `Compaction` | summary and boundary over a history, persistence, overflow retry | `Engine` | `Engine_proofs` |
| `Permissions` | the decision order, approvals, revocation, trust | `Engine` | `Permissions_proofs`, `Engine_proofs` |
| `ApprovalStore` | the shared file of permanent approvals, its caches and threads | `Engine` | `Engine_proofs` |
| `Transcript` (on `Threads`) | the conversation log: append, cut writes, repair on load | `Engine` | `Engine_proofs` |
| `CallIds` (on `Threads`) | what goes by a tool call's id, over restarts | `Engine` | `Engine_proofs` |
| `Inbound` | relay, gateway, routing of chat messages, subscriptions, deletion | `Services` | `Services_proofs` |
| `ClaudeWatch` | hook files, watches, notices of the Claude bridge | `Services` | `Services_proofs` |
| `Shell` | the persistent shell, its reader threads, timeout, Stop and kill | `Services` | `Services_proofs` |
| `Accounts` | connector accounts, default, filters, token renewal, Slack modes | `Services` | `Services_proofs` |
| `Mcp` | MCP connections, sign-in, sign-out, reload | `Services` | `Services_proofs` |
| `IntegrationTools` (on `ToolDefs`, `ConnectorTools`) | every connector tool through engine, gate and account | `Services` | `Services_proofs` |

`Kept` is the list comprehension that filters a list, used wherever the code has one; `SeqLemmas`
holds the facts about it and about sequences that several proofs cite.

`Engine` and `Services` put side by side the parts that share no state: each
behaviour moves one part, chosen in the initial state, while the others stay as they are.
One run then checks all of them. Properties of a part are stated of the part that
moves. `MCEngine` gives the tool calls that `Permissions` tells apart. `PROJECT.json`
maps every definition to the lines it stands for, and lists runs, mutants, findings and
hazards. Where a property is a conjunction of several named ones (`CallsAreHonest`, say),
`PROJECT.json` names one mutant; the mutants beside other definitions, each with a
comment that says so, break other conjuncts.

## Inventory

What a component keeps, what changes it, who it talks to, and what must hold.

**Session manager** (`server/manager.py`, `server/app.py`). State: the cached
engines, `_running_sessions`, `_turn_tasks`, one `turn_task` dict per socket, the
dead-letter store. Operations: a user message or retry on a socket
(`claim_turn`), an out-of-band delivery (`deliver_to_session`), a durable resume
(`_durable_resume`), a release (`force_idle`), a disconnect. The engine has no
lock of its own: the running flag is the only thing that keeps two runs apart.
Hard: every `await` is a point where another driver may act; tasks that die
before their first step skip their `finally`; a queue nobody looks at. Must
hold: one run at a time, every claim is given back, no message is lost or doubled.
*`SessionTurns`, `TurnLock`.*

**Turn engine** (`engine.py`). State: the message list, the steering queue, the
cancel event, the compaction state. Operations: `run`, `retry`, `resume`,
`queue_steering`, `request_interrupt`, `switch_model`. Calls providers, tools
(on threads) and the prompt callbacks. Hard: Stop at any await, a block half
authorised or half executed, a provider error at any point. Must hold: every
tool call gets exactly one result, nothing runs twice, a turn ends.
*`EngineTurn`; its ends and queue in `SessionTurns`, its prompts in `Prompts`, its
message list in `Transcript`, the ids of its calls in `CallIds`.*

**Compaction** (`compaction.py`). State: a boundary into the message list, a summary,
the user's own words. Operations: a summary when the view is large, a trim when the
summary fails, a retry when the provider overflows, save and load. Hard: the saved
boundary is an index into a thread that a load may repair. Must hold: what is sent
begins legally, nothing vanishes unsummarized, a retry makes progress. *`Compaction`.*

**Permissions** (`permissions.py`, `workspace_trust.py`, `approval_store.py`). State:
mode and grants per engine, saved grants per session, standing rules per task, one file
of permanent approvals. Operations: `evaluate`, the outcomes of a prompt, revocations,
trust, the building of an engine. Hard: a grant has copies in engines, rows and caches.
Must hold: nothing with effects runs unasked but by consent that stands.
*`Permissions`, `ApprovalStore`.*

**Inbox and prompts** (`inbox.py`, the approvers in `manager.py` and `app.py`).
State: items (pending or resolved, saved at once) and waiters. Operations: `add`
(idempotent by call id), `wait`, `resolve`, from a socket frame, the Inbox page,
a chat button or a chat reply. Hard: several surfaces answer, a Stop leaves an
item behind, the process dies while a turn waits. Must hold: the first answer
is final, it reaches the prompt it was given to, and a parked prompt survives.
*`Prompts`, `CallIds`.*

**Conversation store** (`conversations.py`). State: a JSONL log per session and a
sqlite row. Operations: `save` (count lines, append the rest), `load` (parse,
repair tool pairing, write back), used for display too. Hard: writes cut short,
a count that lies, a load under a live engine. Must hold: a confirmed save survives
a restart, and what is loaded is a thread that providers accept. *`Transcript`.*

**Automations and self-wakes** (`automation/`, `selfwake.py`). State: task rows and run
rows in sqlite, the in-memory overlap guard, the wakes. Operations: the tick, `run_task`,
edits from pages and from agents' tools, standing rules minted on a card, manual runs,
the resumption of due wakes. Hard: records are read, edited and written back by several
threads; a run may block on an approval for days. Must hold: no overlap, a firing runs
once, counts and decisions are right, a wake arrives. *`Automations`.*

**Chat routing** (`connectors/gateway.py`, `relay_client.py`, the routing methods of
`manager.py`). State: allow-list, subscriptions, mutes, the sessions of threads and of
contacts, parked and unrouted messages. Operations: an inbound message or click, the
fan-out, a spawn, settings, deletion of a session, refresh and restart. Hard: the fan-out
awaits whole turns; frames are handled one by one. Must hold: a message owed to a session
reaches it; a chat has one session. *`Inbound`.*

**Claude bridge** (`claude_bridge/`). State: a file per terminal session, the watches, what
was notified. Operations: the hook, the poll, watch and unwatch, the answer to a
terminal's prompt. Hard: a state read before an await and used after; sends that fail.
Must hold: a watch ends by a true notice that was sent. *`ClaudeWatch`.*

**Shell tool** (`tools/shell.py`). State: a process, its reader thread, a queue. Operations:
a command, its deadline, Stop, kill, respawn. Hard: processes that hold the output open.
Must hold: a command gets its own output. *`Shell`.*

**Connectors** (`connectors/`, `cloud.py`). State: profiles per account, the default, the
filters, cached tokens. Operations: connect, default, filters, disconnect, renewal, and about
160 tools. Hard: read-modify-write of a profile over network calls. Must hold: what
is removed stays removed, filters stay, no change without asking or twice, the right account.
*`Accounts`, `IntegrationTools`.*

**MCP client** (`mcp/`). State: connections, their tasks, one lock, one pending sign-in.
Operations: `ensure`, `_serve`, the redirect, sign-out, reload. Hard: a lock held over a
sign-in; cancelled tasks. Must hold: nobody waits for a task that is gone. *`Mcp`.*

Components meet as follows. A message reaches a session through a socket, the chat
routing, a wake or the Claude watcher; each claims the flag and runs the engine, or steers
the message into the run that holds it. The engine asks `Permissions` for each call, asks
the user through the Inbox, and saves through the conversation store at checkpoints. An
answer wakes the waiting run or, after a restart, resumes the turn from the log. The tick
starts automations as sessions of their own (without the flag) and delivers wakes by
`deliver_to_session`. Where a module needs a neighbour it keeps the part of the neighbour's
state it reads (a thread as its last block in `Prompts`, a turn that only waits and
ends in `Inbound`) and its header says so.

## SessionTurns and TurnLock

One session; everything in it is keyed by the session id. An action is the code
between two awaits, so interleavings are those of the event loop.

| code | model |
|---|---|
| `_running_sessions`, `_turn_tasks` | `running`, `bound` |
| asyncio tasks that drive a turn | `turn`: kind, phase, message, socket |
| `engine._steering`, user messages, `_cancel` | `queue`, `history`, `cancel` |
| how the thread ends (what `retry` and `resume` look at) | `tail` |
| `turn_task` dict of a socket, disconnect callbacks | `sock`, `hooks` |
| `manager.unrouted` | `parked` |

`owner`, `usurped` and `arrivals` are history: whose claim set the flag, whether
somebody else cleared the claim of a live turn, and the order of arrival. A turn
goes created, streaming, ending (its last event is being broadcast and the flag
is still held), closing (the `turn_done` broadcast), done. The engine's run is
three actions, `OpenRun`, `InjectSteering`, `FinishStream`; the last one has one
disjunct for each way `_loop` ends, and whether that way looks at the queue.

The run `SessionTurns` has two messages, a socket, three turns and one killed task. Three
turns are the least for a closing turn, a driver that claims in its gap, and a third one
that a wrong clear would let in; two messages are the least that have an order.
`OneRunAtATime`, `StuckFlagIsReleasable`, `OnlyKnownUsurpers`, `MessageInOnePlace`,
`QueuedKeepOrder`. `ClaimsAreReturned` names the one exception: a socket turn cancelled
before its first step while its socket is open keeps the flag until a release, which frees
it. Fairness: the loop runs each ready task and callback, and an engine run ends, since
iterations are capped, model calls end or err, and a prompt is answered or stopped.
People's actions are not fair.

`ImplementsLock` is the refinement: with `holder` the turn on the engine, `broken` the
history `usurped` and `thread` the user's messages, every step of every driver is a step of
`TurnLock` or none. Until a live claim is cleared from outside, the engine passes from free
to one run and back, and only its holder adds to the thread, which never shrinks or
changes. After that, only the last part is promised.

The last branch of the disconnect handler (`server/app.py:2274`, a claim without
a task) cannot be taken: `claim_turn` sets `claimed` and `task` with no await between.

## Prompts and CallIds

One session, with its conversation reduced to the last block of tool calls:
which, which have a result, whether a user message came after it. `thread` is the
engine's copy and `disk` the saved one. Every call needs the user (which ones do is
`Permissions`'); `Asks` are those whose answer is the result.

A run authorises the calls of a block in order (`RaisePrompt`, `TakeAnswer`), then
executes the cleared ones (`Execute`, `ExecuteDone`); Stop answers what is left
(`Interrupted`, `SkipExecute`). Answers come from the card on screen (`AnswerLive`,
which carries no id), by id (`AnswerById`, which resumes an idle session), and from
a chat reply (`AnswerByReply`, which does not). `Crash` kills the process and loads
the log. `ScheduledTurn` is an automation's run, which never takes the running flag.

The run `Prompts` has two calls, one of them a question, blocks of up to two, three runs and
two crashes: `ExecutedOnce`, `RanWithConsent`, `ParkedPromptIsSaved`, `NoOrphans`, and, under
fairness of the runs' own steps, `StopEndsTheTurn`. Nobody has to answer. Three runs are a
turn, its resume and one more. Histories with a scheduled run are excused where the code
has no protection: an answer by id then starts a second run beside it.

`CallIds` looks at the same items, results and resumes by the ids they go by, with whole
threads of up to three calls. Its property `CallsKeepTheirIds` assumes ids of their own;
`CallIds_restart` shows what becomes of providers that count from zero.

## Automations

One task. Loop actions (`Tick`, `JobStart`, `RunnerDone`, `EndWake`) exclude each
other; requests and the store calls of a finished run are on threads, so a get and a
save are two actions (`Get` and `SaveEdit`, `JobFetch` and `JobSave`). A standing
rule is minted on the loop: while it is (`LoopFree`) nothing else there moves. Time is a
counter, the schedule a set of `Slots`; past the last one there is no next run, the
bound on time. `lost` is history: a save overwrote one it had not seen.

The run `Automations` has two slots, two scheduled runs at a time, a manual run, one edit,
a timer wake, a job wake and a crash. `NoOverlap` has no excuse. `CountIsRuns`,
`DecisionsStick` and `FiringStartsOnce` hold *but for lost updates*, which the code
permits, so each names its excuse: `lost`, a crash, or (for `FiringStartsOnce`) a tick
between the end of a run and the saving of its record, when the guard is already down.
`DueRuns`, `WakesFire` and `WakesFireOnce` use this fairness: the loop ticks, thread hops
return, and a wake's turn ends. A run need not end.

## The parts of Engine

Each block of calls has up to three calls, three iterations; twelve messages for the
compaction with a trigger of four, so that summaries follow each other; two crashes; two
sessions, seven kinds of call and three decisions of the user; three writes to the
approvals by two workers through the server's store and an engine's; logs of two calls,
seven messages and two cut writes; three ids. No fairness.

- `EngineTurn`: `BlockIsAnswered`, `StopSparesEffects`. Low-risk calls fly together
  and land in any order; a reply may name a call the model mangled.
- `Compaction`: `SummaryHolds` (the view begins legally and nothing leaves it unaccounted)
  and `BoundaryAdvances`. A message weighs one token. Histories in which a repair
  inserted a result below a saved boundary are excused from both parts of the first.
- `Permissions`: `AllowedOnlyByConsent`. `consents` is history: what the user approved and
  has not revoked. What an engine, a row or a task holds must be covered by it.
- `ApprovalStore`: `GrantsAreCurrent`. One step per line that another thread can come
  before. Excused is a load that puts an old content over the cache of a store that threads
  share.
- `Transcript`: the engine's list, and the file as lines with an open or closed end. A write
  may be cut after any whole line, inside one, or before its newline; the process then dies
  or raises. `LogFollowsEngine`, `SaveReachesDisk`, `LoadsWhatWasSaved` hold for histories in
  which no load changed the log under a running engine (`meddled`). Seven messages are a turn
  with a block of two, its results, a cut and a second turn.
- `CallIds`: above.

## The parts of Services

Two messages of two people, of whom one is on the relay, four sessions (two of the user's
and two to spawn), a setting, a prompt; two terminals and four events, one failed send, two
watches; two commands of four kinds and two shells; two mailboxes, two Slack teams, two
threads and three edits; two MCP servers, two calls and a reload; two account holders and two
changes by the user. No fairness.

- `Inbound`: `ChatsHold`. `due` is history: the messages owed to a session.
- `ClaudeWatch`: `WatcherKeepsFaith`. A poll reads all files, then awaits a send per notice.
- `Shell`: `OutputIsOwn`. Readers write to the executor's current queue, as in the code.
  Excused are queues that a stale reader has poisoned, and commands given to a shell that was
  closed and had not yet ended.
- `Accounts`: `AccountsHold`. An endpoint or a tool is the steps between its reads and writes
  of one profile. Gmail stands for the connectors with several accounts.
- `Mcp`: `ConnectionsHold`. The part on live connections excuses histories with a reload.
- `IntegrationTools`: `CallsAreHonest`. `ConnectorTools` states, for every tool, whose
  credentials it takes and the kinds of requests it sends, in order; `ToolDefs` whether the
  registry calls it a read or a write. The tool is chosen in the initial state.

## Findings

1. **Steered messages are stranded** (`SessionTurns_stranded`, `server/manager.py:3188`) when
   the turn ends by an error, the iteration cap, a Stop or a raise: the session is idle and
   its queue is not.
2. **A restart loses a parked prompt** (`Prompts_restart`, `conversations.py:215`): when an
   earlier call of the block has its result, the open one gets a placeholder and nothing
   resumes.
3. **Job and event wakes never fire** (`Automations_jobwake`, `selfwake.py:116`): nothing calls
   `complete_job` or `fire_event`.
4. **Reading the Inbox loses a result** (`Transcript_poll`, `conversations.py:462`): the load
   writes a placeholder for the call a live turn is waiting on; the save of the real result
   finds as many lines as messages and appends nothing.
5. **A call takes an older call's answer** (`CallIds_restart`, `providers/gemini_provider.py:476`): ids
   that restart with each reply meet the Inbox items of earlier replies.
6. **A killed shell answers for its successor** (`Shell_desync`, `tools/shell.py:215`): its
   reader thread writes to the queue of the new shell.
7. **A reload strands a connecting session** (`Mcp_reload`, `mcp/client.py:83`): the cancelled
   task tells nobody, and the call that waits for it holds the lock.

### Weaknesses the models excuse or leave out

Stated as a property that no run checks, next to the others of its module:

- `LiveAnswerReachesItsPrompt` (`Prompts`, `server/app.py:1964`): a stopped turn leaves its
  item pending; the next answer frame has no id and resolves that one.
- `NothingStartsAfterStop` (`EngineTurn`): low-risk calls cleared before a Stop start after it.
- `HeadIsAlwaysLegal` (`Compaction`), `NoWriteIsLost` (`ApprovalStore`): the two excuses above.
- `DeletedHearsNothing`, `ClickIsHeard`, `ReleasedTagIsRouted` (`Inbound`): the fan-out goes on
  with the list it took; a click waits behind the frame whose turn waits for the click; a
  parked message loses its mention (`server/manager.py:2674`).
- `ConfirmedIsPressed` (`ClaudeWatch`): a terminal's prompt may change between check and key.
- `LocalDeletionProceeds` (`Accounts`, `cloud.py:522`).
- `ReadsHaveNoEffect` (`IntegrationTools`): `browser_open_url`, `browser_screenshot`,
  `github_clone`, `github_pull` and `canva_export_design` are reads in the registry, and have
  effects.

Seen while modelling: a plain release clears the flag under a live durable resume, which is
never bound (`server/manager.py:3078`); a refresh of the gateway cancels the turn of the frame
it handles (`server/manager.py:2491`); a relay that fails to start is not tried again
(`connectors/relay_client.py:118`); a renewal brings a removed profile back (`cloud.py:483`,
`connectors/integration_tools.py:4656`); a manual connect wipes the filters
(`connectors/setup.py:410`); a mail filter by label lets mail through when the lookup of the
labels fails; the default account may move between approval and execution; engines that live
keep the tools the user switches off (`agent.py:199`); all sessions share one browser page
(`connectors/browser_automation.py:225`); the tick awaits each wake's whole turn, so one that
waits at a prompt stalls every automation (`automation/scheduler.py:88`), which is why the
fairness of `Automations` is stated for `EndWake`; wakes are listed without the lock
(`selfwake.py:103`); a save of a due cron task, even marking it seen, skips the firing
(`automation/store.py:109`), which `DueRuns` allows.

## What is proved

For every value of the constants that their assumptions allow. A theorem and the property it
states are named together in `PROJECT.json`.

None of the properties is inductive: each says what may never be seen, and nothing of the states
that lead there. So each proof has an inductive invariant (`IInv`, or `...Inv` of a part), which
TLC checks on small instances first, and one lemma per action that keeps it.

**`SessionTurns_proofs`** (from `TurnsAssumption`): `TypeCorrect`, `MutualExclusion`
(`OneRunAtATime`), `StuckFlagsAreFreed` (`StuckFlagIsReleasable`), `UsurpersAreKnown`
(`OnlyKnownUsurpers`), `LockIsImplemented` (`ImplementsLock`), `OnePlace`
(`MessageInOnePlace`), `QueueKeepsOrder` (`QueuedKeepOrder`). `IInv`: every live turn owns the
flag while it was not usurped (`FlagIsOwned`), the owner is the bound task, unless it is a
durable resume (`OwnerIsBound`), no binding outlives its turn's `mark_idle`
(`BoundHasNotReleased`), a socket and its callback know a task of theirs (`SocketsTrack`).
The refinement uses it twice: a turn that opens its run finds the engine free, and one that is
the only one on the engine is the holder. A step in which nobody is usurped is one of the lock's
first four, the one that usurps is `Break`, and after that the thread only grows.
`MailInv` says that the thread and the queue share no message, that what a turn carries is
nowhere else, and that what was sent is somewhere. `OrderInv` adds that a message typed on a
socket is never among the queued ones; that at most one drain has a message in hand follows
from `IInv`.

**`Prompts_proofs`** (from `PromptsAssumption`): `TypeCorrect`, `ToolsRunWithConsent`
(`RanWithConsent`), `NothingRunsTwice` (`ExecutedOnce`), `PromptsAreSaved`
(`ParkedPromptIsSaved`), `NoneOrphaned` (`NoOrphans`). `IInv` has a part that holds always: a
call that waits to be executed was allowed at its own prompt (`ClearedIsAllowed`), and is in one
list once. The other part holds until an automation's run is on the session (`Undisturbed`):
one turn at a time, what a run holds is open in the thread, what is on disk at a prompt is the
block with that prompt open, and a call that has run has its result or was cut by a crash.

**`Automations_proofs`** (from `AutomationsAssumption`): `TypeCorrect`, `RunsDoNotOverlap`
(`NoOverlap`), `DecisionsHold` (`DecisionsStick`), `RunsAreCounted` (`CountIsRuns`),
`FiringsStartOnce` (`FiringStartsOnce`, of every step), `WakesOnce` (`WakesFireOnce`). A save
writes back a copy, so nothing about the row is inductive without the copies: who is about to
save holds a record, which is the row itself unless somebody has written since
(`CopiesAreCurrent`). A firing that has started is recorded or its run still goes (`FiringInv`);
a wake is delivered once for its firing and once for each crash that cut its turn (`WakeInv`).

**`EngineTurn_proofs`** (from `EngineAssumption`): `TypeCorrect`, `BlocksAreAnswered`
(`BlockIsAnswered`), `StopsSpareEffects` (`StopSparesEffects`). `IInv`: the calls of the block
are those with a result and those that wait for one, each once (`EachOnce`), where the second
ones are in each phase (`Placed`), and what ran has its result or is in hand (`RanIsRecorded`).

**`Permissions_proofs`** (from `PermissionsAssumption`): `TypeCorrect`, `ConsentHolds`
(`AllowedOnlyByConsent`). An engine is built from its row, the task's rules, the file and the
trust of the workspace, so the same must hold of them: `SavedStands`, `EnginesStand`,
`TaskStands`, `ForeverStands`, `RepoIsTrusted`.

**`Engine_proofs`** (from what `Engine` assumes of its parts). A behaviour of `Engine` is one of
each part, hence `EngineAsksForConsent` (`AllowedOnlyByConsent`), `EngineAnswersBlocks`
(`BlockIsAnswered`), `EngineSparesEffects` (`StopSparesEffects`). `EnginesGrantsAreCurrent`
(`GrantsAreCurrent`) is about the shared file. `StoreInv`: one mutation at a time holds the
lock (`LockIsHeld`), an engine's own store has one worker (`EnginesWorkAlone`), a stamp that is
the file's means a cache that is the file's (`StampsAreTrue`), what was read is what the file
held then, and file and ledger agree until a load crosses a write (`crossed`).

The other parts of `Engine` are proved about in place:

- `EngineSummaries` (`SummaryHolds`) and `EngineBoundaries` (`BoundaryAdvances`, of every step).
  `CompactInv`: until a load shifts the thread under a saved boundary, the engine's thread with its
  boundary and the saved pair are both `Sound`: the boundary is inside, what follows it begins
  legally, what precedes it was covered, and the user's words up to it are kept or counted. What
  the search for a boundary returns (`Least` above the target) is a lemma of its own.
- `EngineLog` (`LogFollowsEngine`), `EngineSaves` (`SaveReachesDisk`) and `EngineLoads`
  (`LoadsWhatWasSaved`). `FileOK`: a log with a closed end has whole messages only. `LogHolds`,
  until a load meddles: what parses has every word and real result that a save confirmed, and is a
  beginning (`Begins`) of the engine's list; in both, no call is asked for or answered twice, nor
  answered before it is asked for (`Matched`). What a load's repair makes of a thread is
  proved of any thread and any calls: no word and no real result is left out, and of a matched
  thread it makes a matched one with the results of a block right after it.
- `EngineKeepsIds` (`CallsKeepTheirIds`), for providers that give each call an id of its own, which
  the theorem assumes (`IdsRestart = FALSE`); `CallIds_restart` shows the others break it. `IdInv`:
  threads and log are such that each call was asked for once and is answered at most once, in
  the block that asked (`IdThread`); an item and an answer taken are of their own call; open calls
  are those of the block in work, exactly the ones in the run's two queues (`Flow`), or were spoken
  over. `SettledIsTaken`: of such a thread with no open call, the folded request pairs calls and
  results one to one, by induction on the messages folded so far.
- `EngineTypes` (`TypeOK`), of ids that restart too: for these, threads hold only messages of
  the kinds the engine writes (`IdTypes`).

**`Services_proofs`** (from what `Services` assumes of its parts), each of a part in its place:

- `OutputsAreOwn` (`OutputIsOwn`). Unless a queue was poisoned, `ShellInStep` holds: shells to
  come are untouched, a shell between calls has nothing left to say but the lines of what its
  commands left in the background, and during a call input, foreground and queue fit together
  as one of the stages of that command.
- `RemovedAccountsStayRemoved` (`AccountsHold`). `Known`: an account, a cached token or a copy in
  an endpoint's hands is of a mailbox that is wanted, or whose overlap is named.
- `WatchersKeepFaith` (`WatcherKeepsFaith`). A poll that waits for a send waits for the head of
  its list, an "idle" that it read was true of the session then, prompts are numbered.
- `ConnectionsAreHeld` (`ConnectionsHold`). One call at most has the lock and a task
  (`LockIsOne`), the attempts so far are those counted (`TriesAreCounted`), a sign-in belongs to
  the task that asks (`SignInsMatch`), and without a reload task and waiting call know of each
  other (`Undisturbed`).
- `ChatsAreHeld` (`ChatsHold`). `RouteInv`: sessions in the lists are made, the owner of a chat is
  its one session (`OwnersHold`), a message that is owed has a place (`Owed`). `Arrivals`: a
  message is on its way once, and is dispatched only when it is there.
- `KitsCallsAreHonest` (`CallsAreHonest`), for every tool of the table. Two lemmas go through the
  table: a tool's steps are one of sixteen sequences (`KitPlans`), of which one step at most
  has an effect and a change is the last (`KitShapesFit`), and the tools that change something
  are not among the reads of the registry (`KitAsks`). `KitHasDone`: a call has done nothing, or
  the one step with an effect that it has passed, or on which it ended with no answer.
- `PartsAreTyped` (`TypeOK`). `AllInv` is all of these invariants, and what they could do
  without (`ChatRest`, `ShellRest`, `McpRest`). A type may need more than types: that a turn which
  waits at a prompt, or whose engine was dropped, is running; that a caller is in line once.

Assumptions the proofs needed are stated where the constants are declared: the
stores of `ApprovalStore` and its grants are not empty, nor are the account holders of
`IntegrationTools`; there is a shell and a plain command; the word that stands for no account, no
session or no sender is not one; sets of sessions and terminals are finite.

**How data is reasoned about.** A record update that changes several fields is written
`[f EXCEPT ![x] = [@ EXCEPT !.a = .., !.b = ..]]`: the prover does not translate several nested
paths of one `EXCEPT` faithfully. What recurs over a list (`Kept`, the joining of lists in
`Transcript`, the folding of messages into requests in `CallIds`) is a recursive function inside
its operator. That such a function exists is one lemma (`Recursion` of `SeqLemmas`); then come its
two equations, for the empty list and for one more element; and what it does to every list
follows by induction on the length, as a set of numbers without a least one is empty
(`LeastNumber`, `AllSequences`): which elements a filter keeps and in which order, how many, and
that it distributes over `\o`. The encoding of sequences for the SMT solver takes every function to
have a domain `1..n`, so a step about a function on `0..n` that also mentions a sequence would
prove anything: `Recursion` is about no sequence, and the steps that apply it hide theirs. No
other function in the models has a domain that is known to begin elsewhere.

## What is only model-checked

Liveness (`ClaimsAreReturned`, `StopEndsTheTurn`, `DueRuns`, `WakesFire`): it needs fairness and
ENABLED, which are out of the prover's reach. Every other property of a passing run is a theorem,
`CallsKeepTheirIds` with the assumption of its run. The runs that expect a violation show
behaviours of the code, which a theorem would have to exclude.

## Not modelled

The reply rescue (`_deliver_unsent_reply`); cron arithmetic and time zones; concurrent additions
to the wakes; titles, pins and migration in the conversation store; what a provider streams
beyond how it ends; the parsing of shell commands and of plan mode (a command is its kind);
terminal drivers and hook installer of the Claude bridge; the platforms' protocols and
the splitting of messages; the cloud's own side; the MCP protocol; the Windows shell.

Files and web tools, memory, skills, agents, personas, secrets, config, overrides, audit,
attachments, catalogue and translations are sequential stores or I/O with no state that two
actors share in a way a model would tell apart. Connector descriptors are a table of forms. The
terminal UI is a second, single-user driver of one engine; the GUI renders, and its frames are
the inputs of `SessionTurns` and `Prompts`; the speech helper is a command line.

What would come next: a scheduled run and a session turn over one engine, composed from
`Automations` and `SessionTurns`.

## Running

`tlc -config X.cfg M` for a run of `PROJECT.json`, `tlapm M_proofs.tla` for the proofs. Runs that
let a system stop for good say `CHECK_DEADLOCK FALSE`: bounds on runs, messages, edits and
crashes end every behaviour.
