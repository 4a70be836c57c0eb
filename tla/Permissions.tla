----------------------------- MODULE Permissions -----------------------------
(***************************************************************************)
(* Who decides that a tool call may run: PermissionEngine.evaluate over    *)
(* the session's mode, the user's standing approvals and the workspace's   *)
(* trust (permissions.py, workspace_trust.py), the prompt's outcomes       *)
(* (engine._authorize, manager.approval_outcome), and what becomes of an   *)
(* approval when it is revoked or the session's engine is built again.     *)
(*                                                                         *)
(* The sessions are runs of one automation, whose task carries standing    *)
(* rules.  The file of permanent approvals is read as it is at each check: *)
(* ApprovalStore shows why.                                                *)
(***************************************************************************)
EXTENDS Naturals, FiniteSets

CONSTANTS
  Sessions,      (* sessions of one task's runs, all of one workspace      *)
  Proposals,     (* calls: [tool, risk, connector, pinnable, arg], where   *)
                 (* pinnable says that the tool declares a target argument *)
                 (* and arg is the target, the command or the path; NoArg  *)
                 (* for an empty one                                       *)
  NoArg,
  RepoCommands,  (* commands that match the workspace config's allowlist   *)
  AutoTools,     (* config.auto_allow                                      *)
  Writable,      (* paths under a writable root                            *)
  MaxDecisions   (* bound: what the user decides                           *)

(* What the constants are; Engine assumes it. *)
PermissionsAssumption ==
  /\ MaxDecisions \in Nat
  /\ Sessions \cap {"task", "everywhere"} = {}
  /\ Proposals \subseteq [tool : STRING, risk : {"read", "write", "exec", "external"},
                          connector : BOOLEAN, pinnable : BOOLEAN, arg : STRING]
  /\ NoArg \in STRING
  \* run_shell is the one tool that runs commands
  /\ \A c, d \in Proposals : c.risk = "exec" /\ d.risk = "exec" => c.tool = d.tool

VARIABLES
  live,       (* sessions whose engine is in memory                        *)
  mode,       (* engine.permissions.mode                                   *)
  tools,      (* session_allow_tools                                       *)
  commands,   (* session_allow_commands                                    *)
  rules,      (* task_rules, as pairs <<tool, target>>                     *)
  repo,       (* allowed_commands has the workspace's entries              *)
  prompt,     (* the calls at a prompt                                     *)
  saved,      (* the session row's grants: tools and commands              *)
  entries,    (* the task's standing rules, as pairs                       *)
  forever,    (* the permanent approvals: consents                         *)
  trusted,    (* the workspace is trusted                                  *)
  consents,   (* history: what the user has approved and not revoked       *)
  decisions   (* decisions so far                                          *)

engineVars == <<live, mode, tools, commands, rules, repo, prompt>>
storedVars == <<saved, entries, forever, trusted>>
permissionVars == <<engineVars, storedVars, consents, decisions>>

Modes == {"discuss", "interactive", "auto", "custom"}

ToolNames == {c.tool : c \in Proposals}
Args == {c.arg : c \in Proposals} \cup {NoArg}

-----------------------------------------------------------------------------
(* evaluate. *)

Consequential(c) == c.risk # "read"
Shell(c) == c.risk = "exec"

(* standing_rule_candidate is not None *)
Candidate(c) == c.risk = "external" /\ c.pinnable /\ c.arg # NoArg

(* _blanket_ineligible *)
BlanketIneligible(c) == c.risk = "external" /\ c.pinnable

(* The scope of a permanent approval: an exact command, a target or a tool. *)
Scope(c) == IF Shell(c) THEN "command"
            ELSE IF c.connector \/ BlanketIneligible(c) THEN "target" ELSE "tool"
Consent(kind, where, c) ==
  [kind |-> kind, where |-> where,
   tool |-> c.tool, arg |-> IF kind = "tool" THEN NoArg ELSE c.arg]

SessionGrant(s, c) ==
  \/ Shell(c) /\ c.arg # NoArg /\ c.arg \in commands[s]
  \/ c.tool \in tools[s] /\ ~c.connector

PermanentGrant(c) ==
  \/ Shell(c) /\ Consent("command", "everywhere", c) \in forever
  \/ ~c.connector /\ ~BlanketIneligible(c) /\ Consent("tool", "everywhere", c) \in forever
  \/ Candidate(c) /\ Consent("target", "everywhere", c) \in forever

StandingRule(s, c) == Candidate(c) /\ <<c.tool, c.arg>> \in rules[s]

Configured(s, c) ==
  \/ Shell(c) /\ repo[s] /\ c.arg \in RepoCommands
  \/ mode[s] = "custom" /\ c.tool \in AutoTools

(* Mutant of Evaluate: a rule of the task is matched by its tool alone. *)
EvaluateTool(s, c) ==
  IF \/ mode[s] = "discuss" /\ Consequential(c)
     \/ c.risk = "write" /\ c.arg \notin Writable
  THEN "deny"
  ELSE IF \/ ~Consequential(c) \/ mode[s] = "auto"
          \/ SessionGrant(s, c) \/ PermanentGrant(c) \/ Configured(s, c)
          \/ \E a \in Args : <<c.tool, a>> \in rules[s]
       THEN "allow" ELSE "ask"

Evaluate(s, c) ==
  IF \/ mode[s] = "discuss" /\ Consequential(c)
     \/ c.risk = "write" /\ c.arg \notin Writable
  THEN "deny"
  ELSE IF \/ ~Consequential(c) \/ mode[s] = "auto"
          \/ SessionGrant(s, c) \/ PermanentGrant(c) \/ StandingRule(s, c)
          \/ Configured(s, c)
       THEN "allow" ELSE "ask"

-----------------------------------------------------------------------------
(* A prompt and its outcomes. *)

Decide == decisions < MaxDecisions /\ decisions' = decisions + 1

Ask(s, c) ==
  /\ s \in live
  /\ Evaluate(s, c) = "ask"
  /\ prompt[s] = {}
  /\ prompt' = [prompt EXCEPT ![s] = {c}]
  /\ saved' = [saved EXCEPT ![s] = [tools |-> tools[s], commands |-> commands[s]]]
  /\ UNCHANGED <<live, mode, tools, commands, rules, repo, entries, forever,
                 trusted, consents, decisions>>

Answered(s, c) ==
  /\ s \in live
  /\ prompt[s] = {c}
  /\ prompt' = [prompt EXCEPT ![s] = {}]
  /\ Decide
  /\ UNCHANGED <<live, mode, repo, saved, trusted>>

(* Denied, or approved for this call only. *)
Once(s, c) ==
  /\ Answered(s, c)
  /\ UNCHANGED <<tools, commands, rules, entries, forever, consents>>

(* always: the tool, for this session *)
AlwaysTool(s, c) ==
  /\ Answered(s, c)
  /\ tools' = [tools EXCEPT ![s] = @ \cup {c.tool}]
  /\ consents' = consents \cup {Consent("tool", s, c)}
  /\ UNCHANGED <<commands, rules, entries, forever>>

(* always_command *)
AlwaysCommand(s, c) ==
  /\ Answered(s, c)
  /\ Shell(c) /\ c.arg # NoArg
  /\ commands' = [commands EXCEPT ![s] = @ \cup {c.arg}]
  /\ consents' = consents \cup {Consent("command", s, c)}
  /\ UNCHANGED <<tools, rules, entries, forever>>

(* always_persistent: grant_persistent gives it its scope, or refuses it.  *)
AlwaysPersistent(s, c) ==
  LET grant   == Consent(Scope(c), "everywhere", c)
      refused == \/ Shell(c) /\ c.arg = NoArg
                 \/ Scope(c) = "target" /\ ~Candidate(c)
      new     == IF refused THEN {} ELSE {grant} IN
  /\ Answered(s, c)
  /\ forever' = forever \cup new
  /\ consents' = consents \cup new
  /\ UNCHANGED <<tools, commands, rules, entries>>

(* always_task: mint_task_rule.  A rule the task has already is not minted,*)
(* and then the live engine is not told.                                   *)
AlwaysTask(s, c) ==
  LET rule == <<c.tool, c.arg>> IN
  /\ Answered(s, c)
  /\ Candidate(c)
  /\ entries' = entries \cup {rule}
  /\ rules' = IF rule \in entries THEN rules ELSE [rules EXCEPT ![s] = @ \cup {rule}]
  /\ consents' = consents \cup {Consent("target", "task", c)}
  /\ UNCHANGED <<tools, commands, forever>>

-----------------------------------------------------------------------------
(* Revocation. *)

RevokePermanent(k) ==
  /\ k \in forever
  /\ Decide
  /\ forever' = forever \ {k}
  /\ consents' = consents \ {k}
  /\ UNCHANGED <<engineVars, saved, entries, trusted>>

(* Mutant of RevokeRule: the live engines keep the rule. *)
RevokeRecordOnly(rule) ==
  /\ rule \in entries
  /\ Decide
  /\ entries' = entries \ {rule}
  /\ consents' = {k \in consents : ~(k.where = "task" /\ <<k.tool, k.arg>> = rule)}
  /\ UNCHANGED <<engineVars, saved, forever, trusted>>

(* update_automation with a rule to revoke: the task's live engines are    *)
(* seeded again from its record.                                           *)
RevokeRule(rule) ==
  /\ rule \in entries
  /\ Decide
  /\ entries' = entries \ {rule}
  /\ rules' = [s \in Sessions |-> IF s \in live THEN entries' ELSE rules[s]]
  /\ consents' = {k \in consents : ~(k.where = "task" /\ <<k.tool, k.arg>> = rule)}
  /\ UNCHANGED <<live, mode, tools, commands, repo, prompt, saved, forever, trusted>>

(* set_workspace_trust: applied to the live sessions of the workspace. *)
SetTrust(value) ==
  /\ trusted # value
  /\ Decide
  /\ trusted' = value
  /\ repo' = [s \in Sessions |-> IF s \in live THEN value ELSE repo[s]]
  /\ UNCHANGED <<live, mode, tools, commands, rules, prompt, saved, entries,
                 forever, consents>>

(* set_mode from the client, or the mode that comes with a plan's approval. *)
SetMode(s, m) ==
  /\ s \in live
  /\ mode[s] # m
  /\ Decide
  /\ mode' = [mode EXCEPT ![s] = m]
  /\ UNCHANGED <<live, tools, commands, rules, repo, prompt, storedVars, consents>>

-----------------------------------------------------------------------------
(* Engines come and go. *)

(* A checkpoint of a turn saves the session's approvals. *)
Checkpoint(s) ==
  /\ s \in live
  /\ prompt[s] = {}
  /\ saved' = [saved EXCEPT ![s] = [tools |-> tools[s], commands |-> commands[s]]]
  /\ UNCHANGED <<engineVars, entries, forever, trusted, consents, decisions>>

(* get_or_create: rules from the task, approvals from the session's row,   *)
(* the workspace's commands if it is trusted.                              *)
Build(s) ==
  /\ s \notin live
  /\ live' = live \cup {s}
  /\ mode' = [mode EXCEPT ![s] = "interactive"]
  /\ tools' = [tools EXCEPT ![s] = saved[s].tools]
  /\ commands' = [commands EXCEPT ![s] = saved[s].commands]
  /\ rules' = [rules EXCEPT ![s] = entries]
  /\ repo' = [repo EXCEPT ![s] = trusted]
  /\ UNCHANGED <<prompt, storedVars, consents, decisions>>

(* The process dies: unsaved approvals of sessions are gone.  A prompt is  *)
(* asked again (Prompts).                                                  *)
Crash ==
  /\ live # {}
  /\ Decide
  /\ live' = {}
  /\ prompt' = [s \in Sessions |-> {}]
  /\ UNCHANGED <<mode, tools, commands, rules, repo, storedVars, consents>>

-----------------------------------------------------------------------------

Nothing == [tools |-> {}, commands |-> {}]

Init ==
  /\ live = Sessions
  /\ mode = [s \in Sessions |-> "interactive"]
  /\ tools = [s \in Sessions |-> {}]
  /\ commands = [s \in Sessions |-> {}]
  /\ rules = [s \in Sessions |-> {}]
  /\ repo = [s \in Sessions |-> FALSE]
  /\ prompt = [s \in Sessions |-> {}]
  /\ saved = [s \in Sessions |-> Nothing]
  /\ entries = {} /\ forever = {} /\ consents = {}
  /\ trusted = FALSE
  /\ decisions = 0

Answer(s, c) ==
  \/ Once(s, c) \/ AlwaysTool(s, c) \/ AlwaysCommand(s, c)
  \/ AlwaysPersistent(s, c) \/ AlwaysTask(s, c)

Next ==
  \/ \E s \in Sessions :
       \/ \E c \in Proposals : Ask(s, c) \/ Answer(s, c)
       \/ \E m \in Modes : SetMode(s, m)
       \/ Checkpoint(s) \/ Build(s)
  \/ \E k \in forever : RevokePermanent(k)
  \/ \E rule \in entries : RevokeRule(rule)
  \/ \E value \in BOOLEAN : SetTrust(value)
  \/ Crash

Spec == Init /\ [][Next]_permissionVars

-----------------------------------------------------------------------------
(* Properties. *)

Rules == ToolNames \X Args
Consents == [kind : {"tool", "command", "target"},
             where : Sessions \cup {"task", "everywhere"},
             tool : ToolNames, arg : Args]

(* The values each variable ranges over. *)
TypeOK ==
  /\ live \subseteq Sessions
  /\ mode \in [Sessions -> Modes]
  /\ tools \in [Sessions -> SUBSET ToolNames]
  /\ commands \in [Sessions -> SUBSET Args]
  /\ rules \in [Sessions -> SUBSET Rules]
  /\ repo \in [Sessions -> BOOLEAN]
  /\ prompt \in [Sessions -> SUBSET Proposals]
  /\ saved \in [Sessions -> [tools : SUBSET ToolNames, commands : SUBSET Args]]
  /\ entries \subseteq Rules
  /\ {forever, consents} \subseteq SUBSET Consents
  /\ trusted \in BOOLEAN
  /\ decisions \in 0..MaxDecisions

(* What the user approved covers a call: the same command, the same target *)
(* of the same tool, or a tool that is no connector's; a permanent approval*)
(* of a tool never covers one that sends to a target.                      *)
Covers(k, s, c) ==
  /\ k.where \in {s, "task", "everywhere"}
  /\ c.tool = k.tool
  /\ CASE k.kind = "command" -> Shell(c) /\ c.arg = k.arg
       [] k.kind = "target"  -> c.risk = "external" /\ c.arg = k.arg
       [] OTHER -> ~c.connector /\ (k.where = s \/ ~(c.risk = "external" /\ c.pinnable))

Approved(s, c) == \E k \in consents : Covers(k, s, c)

(* A call with effects is allowed without asking only under what the user  *)
(* has approved and not revoked since, in the mode "auto", by the user's   *)
(* own config, or by the config of a workspace the user trusts: whatever   *)
(* order of approvals, revocations, switches and restarts went before.     *)
AllowedOnlyByConsent ==
  \A s \in live, c \in Proposals :
    Evaluate(s, c) = "allow" /\ Consequential(c) =>
      \/ Approved(s, c)
      \/ mode[s] = "auto"
      \/ mode[s] = "custom" /\ c.tool \in AutoTools
      \/ trusted /\ Shell(c) /\ c.arg \in RepoCommands

=============================================================================
