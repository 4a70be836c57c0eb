------------------------------ MODULE Services ------------------------------
(***************************************************************************)
(* The parts around the sessions that share no state with each other, side *)
(* by side: a behaviour is one of a single part, the others stay as they   *)
(* are.  One run of TLC then checks them all.                              *)
(***************************************************************************)
EXTENDS Naturals

CONSTANTS
  Msgs, Senders, Relayed, Owners, Sessions, UserSessions, MaxSettings,
  MaxPrompts,                                                   \* Inbound
  Terminals, Texts, MaxEvents, MaxFailures, MaxWatches,         \* ClaudeWatch
  MaxCommands, CommandKinds, MaxShells,                         \* Shell
  Mailboxes, Teams, Calls, MaxEdits,                            \* Accounts
  Servers, Callers, MaxCalls, MaxReloads,                       \* Mcp
  Holders, MaxSwitches                                          \* IntegrationTools

VARIABLES
  part,  (* the part that moves *)
  msg, frames, reading, linked, fan, turn, zombie, steer, thread, prompts, waits,
  rows, owner, subs, muted, dmSession, allowed, parked, unrouted, due, born,
  deleted, released, settings, asked, clicked,
  real, shown, file, watch, notified, poll, sending, answer, promised, stale,
  watched, false, pressed, events, failures, asks,
  shell, cur, input, fg, holds, signalled, printed, kind, done, queue, abort,
  command, result, poisoned,
  accounts, default, session, online, calls, teams, slack, removing, edits, wanted,
  policy, excused, armed,
  line, call, serve, ready, conns, tasks, shut, cancelled, pending, expected, pages,
  tokens, closing, reloads, tried, ended,
  tool, override, mode, holders, pointer, never, engine, stage, gated, at, served,
  named, reminted, effects, located, mail, filter, labels, listed, switches

Chat == INSTANCE Inbound WITH MaxEdits <- MaxSettings, edits <- settings
Bridge == INSTANCE ClaudeWatch WITH wanted <- watched
Tool == INSTANCE Shell WITH Kinds <- CommandKinds, call <- command
Store == INSTANCE Accounts
Client == INSTANCE Mcp WITH calls <- tried
Kit == INSTANCE IntegrationTools WITH shown <- listed

ASSUME PartsAssumption ==
  /\ Chat!InboundAssumption /\ Bridge!ClaudeWatchAssumption
  /\ Tool!ShellAssumption /\ Store!AccountsAssumption
  /\ Client!McpAssumption /\ Kit!IntegrationToolsAssumption

chatVars == <<msg, frames, reading, linked, fan, turn, zombie, steer, thread, prompts,
              waits, rows, owner, subs, muted, dmSession, allowed, parked, unrouted,
              due, born, deleted, released, settings, asked, clicked>>
bridgeVars == <<real, shown, file, watch, notified, poll, sending, answer, promised,
                stale, watched, false, pressed, events, failures, asks>>
shellVars == <<shell, cur, input, fg, holds, signalled, printed, kind, done, queue,
               abort, command, result, poisoned>>
storeVars == <<accounts, default, session, online, calls, teams, slack, removing,
               edits, wanted, policy, excused, armed>>
clientVars == <<line, call, serve, ready, conns, tasks, shut, cancelled, pending,
                expected, pages, tokens, closing, reloads, tried, ended>>
kitVars == <<tool, override, mode, holders, pointer, never, engine, stage, gated, at,
             served, named, reminted, effects, located, mail, filter, labels, listed,
             switches>>

Init ==
  /\ part \in {"chat", "bridge", "shell", "accounts", "mcp", "tools"}
  \* a part that does not move starts one way
  /\ part = "chat" \/ (subs = <<>> /\ allowed = Senders)
  /\ part = "bridge" \/ file = [t \in Terminals |-> Bridge!NoFile]
  /\ part = "mcp" \/ tokens = {}
  /\ part = "tools" \/ (tool = "browser_wait" /\ holders = {})
  /\ Chat!Init /\ Bridge!Init /\ Tool!Init /\ Store!Init /\ Client!Init /\ Kit!Init

ChatStep ==
  /\ part = "chat" /\ Chat!Next
  /\ UNCHANGED <<part, bridgeVars, shellVars, storeVars, clientVars, kitVars>>
BridgeStep ==
  /\ part = "bridge" /\ Bridge!Next
  /\ UNCHANGED <<part, chatVars, shellVars, storeVars, clientVars, kitVars>>
ShellStep ==
  /\ part = "shell" /\ Tool!Next
  /\ UNCHANGED <<part, chatVars, bridgeVars, storeVars, clientVars, kitVars>>
AccountStep ==
  /\ part = "accounts" /\ Store!Next
  /\ UNCHANGED <<part, chatVars, bridgeVars, shellVars, clientVars, kitVars>>
McpStep ==
  /\ part = "mcp" /\ Client!Next
  /\ UNCHANGED <<part, chatVars, bridgeVars, shellVars, storeVars, kitVars>>
KitStep ==
  /\ part = "tools" /\ Kit!Next
  /\ UNCHANGED <<part, chatVars, bridgeVars, shellVars, storeVars, clientVars>>

Next == ChatStep \/ BridgeStep \/ ShellStep \/ AccountStep \/ McpStep \/ KitStep

Spec ==
  Init /\ [][Next]_<<part, chatVars, bridgeVars, shellVars, storeVars, clientVars,
                    kitVars>>

-----------------------------------------------------------------------------
(* The properties of the parts, each of the one that moves. *)

(* The values each variable ranges over. *)
TypeOK ==
  CASE part = "chat" -> Chat!TypeOK
    [] part = "bridge" -> Bridge!TypeOK
    [] part = "shell" -> Tool!TypeOK
    [] part = "accounts" -> Store!TypeOK
    [] part = "mcp" -> Client!TypeOK
    [] part = "tools" -> Kit!TypeOK

(* _dispatch_inbound and deliver_to_session: a message owed to a session   *)
(* is in its thread, in its queue, still to come in the fan-out or a dead  *)
(* letter; and a thread or a contact has one session at a time.            *)
ChatsHold == part = "chat" => Chat!NothingIsDropped /\ Chat!OneSessionPerChat

(* BridgeWatcher._poll and respond_to_claude_prompt: a watch ends by the   *)
(* user's word or by a notice that was sent, the notice is true, and the   *)
(* prompt answered is the one the user confirmed, but for late changes.    *)
WatcherKeepsFaith == part = "bridge" => Bridge!WatcherKeepsFaith

(* LocalExecutor.run: a command ends on its own marker and shows its own   *)
(* lines, through timeouts, Stops and kills, but for stale readers.        *)
OutputIsOwn == part = "shell" => Tool!OutputIsOwn

(* connect, disconnect and migration of profiles: a removed account stays  *)
(* removed, filters outlive accounts, and old tokens never listen again.   *)
AccountsHold == part = "accounts" => Store!AccountsHold

(* MCPManager.ensure and the sign-in: the browser opens only when the user *)
(* connects, a redirect ends its own sign-in, and while nothing is reloaded*)
(* no call is stranded and no closed connection handed out.                *)
ConnectionsHold ==
  part = "mcp" => Client!SignInsAreAsked /\ Client!ConnectionsAreKept

(* Every connector tool: nothing changes in a call the user was not asked  *)
(* about, or twice, or in a refused one; the account named is the one that *)
(* served; and mail under a filter is not shown.                           *)
CallsAreHonest == part = "tools" => Kit!CallsAreHonest

=============================================================================
