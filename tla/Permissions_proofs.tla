------------------------- MODULE Permissions_proofs -------------------------
(***************************************************************************)
(* Consent, for any sessions, calls, allowlists and bounds: what may run   *)
(* without a prompt was approved, and not revoked since, by the user.      *)
(***************************************************************************)
EXTENDS Permissions, TLAPS

(* What engines and records hold on the user's behalf stands for consents  *)
(* that have not been revoked.  A session without an engine keeps values   *)
(* that no check reads; when it is built it gets those of the records, so  *)
(* the records need the same.                                              *)
ToolsStand(s, ts) ==
  \A t \in ts : [kind |-> "tool", where |-> s, tool |-> t, arg |-> NoArg] \in consents

(* A command counts for whatever tool runs commands.                       *)
CommandsStand(s, as) ==
  \A a \in as, c \in Proposals :
    Shell(c) =>
      [kind |-> "command", where |-> s, tool |-> c.tool, arg |-> a] \in consents

RulesStand(rs) ==
  \A r \in rs :
    [kind |-> "target", where |-> "task", tool |-> r[1], arg |-> r[2]] \in consents

SavedStands ==
  \A s \in Sessions : ToolsStand(s, saved[s].tools) /\ CommandsStand(s, saved[s].commands)

EnginesStand ==
  \A s \in live :
    ToolsStand(s, tools[s]) /\ CommandsStand(s, commands[s]) /\ RulesStand(rules[s])

TaskStands == RulesStand(entries)

ForeverStands == \A k \in forever : k.where = "everywhere" /\ k \in consents

RepoIsTrusted == \A s \in live : repo[s] => trusted

Stands == SavedStands /\ EnginesStand /\ TaskStands /\ ForeverStands /\ RepoIsTrusted

IInv == TypeOK /\ Stands

-----------------------------------------------------------------------------
(* Types. *)

(* A consent is made of a call's own tool and argument.                    *)
LEMMA ConsentType ==
  ASSUME NEW c \in Proposals, NEW kind \in {"tool", "command", "target"},
         NEW where \in Sessions \cup {"task", "everywhere"}
  PROVE  Consent(kind, where, c) \in Consents
  BY DEF Consent, Consents, ToolNames, Args

(* Every action keeps the types.                                           *)
LEMMA TypeStep ==
  ASSUME PermissionsAssumption, TypeOK, [Next]_permissionVars
  PROVE  TypeOK'
<1> USE DEF TypeOK, engineVars, storedVars, PermissionsAssumption
<1>1. ASSUME NEW s \in Sessions, NEW c \in Proposals, Ask(s, c) PROVE TypeOK'
  BY <1>1 DEF Ask
<1>2. ASSUME NEW s \in Sessions, NEW c \in Proposals, Answer(s, c) PROVE TypeOK'
  <2>1. c.tool \in ToolNames /\ c.arg \in Args /\ <<c.tool, c.arg>> \in Rules
    BY DEF ToolNames, Args, Rules
  <2>2. CASE Once(s, c)
    BY <2>2 DEF Once, Answered, Decide
  <2>3. CASE AlwaysTool(s, c)
    <3>1. Consent("tool", s, c) \in Consents
      BY ConsentType
    <3> QED
      BY <2>1, <2>3, <3>1 DEF AlwaysTool, Answered, Decide
  <2>4. CASE AlwaysCommand(s, c)
    <3>1. Consent("command", s, c) \in Consents
      BY ConsentType
    <3> QED
      BY <2>1, <2>4, <3>1 DEF AlwaysCommand, Answered, Decide
  <2>5. CASE AlwaysPersistent(s, c)
    <3>1. Consent(Scope(c), "everywhere", c) \in Consents
      BY ConsentType DEF Scope
    <3> QED
      BY <2>5, <3>1 DEF AlwaysPersistent, Answered, Decide
  <2>6. CASE AlwaysTask(s, c)
    <3>1. Consent("target", "task", c) \in Consents
      BY ConsentType
    <3>2. rules' \in [Sessions -> SUBSET Rules]
      BY <2>1, <2>6 DEF AlwaysTask
    <3>3. entries' \subseteq Rules /\ consents' \subseteq Consents
      BY <2>1, <2>6, <3>1 DEF AlwaysTask
    <3> QED
      BY <2>6, <3>2, <3>3 DEF AlwaysTask, Answered, Decide
  <2> QED
    BY <1>2, <2>2, <2>3, <2>4, <2>5, <2>6 DEF Answer
<1>3. ASSUME NEW s \in Sessions, NEW m \in Modes, SetMode(s, m) PROVE TypeOK'
  BY <1>3 DEF SetMode, Decide
<1>4. ASSUME NEW s \in Sessions, Checkpoint(s) PROVE TypeOK'
  BY <1>4 DEF Checkpoint
<1>5. ASSUME NEW s \in Sessions, Build(s) PROVE TypeOK'
  BY <1>5 DEF Build, Modes
<1>6. ASSUME NEW k \in forever, RevokePermanent(k) PROVE TypeOK'
  BY <1>6 DEF RevokePermanent, Decide
<1>7. ASSUME NEW rule \in entries, RevokeRule(rule) PROVE TypeOK'
  BY <1>7 DEF RevokeRule, Decide
<1>8. ASSUME NEW value \in BOOLEAN, SetTrust(value) PROVE TypeOK'
  BY <1>8 DEF SetTrust, Decide
<1>9. CASE Crash
  BY <1>9 DEF Crash, Decide
<1>10. CASE UNCHANGED permissionVars
  BY <1>10 DEF permissionVars
<1> QED
  BY <1>1, <1>2, <1>3, <1>4, <1>5, <1>6, <1>7, <1>8, <1>9, <1>10 DEF Next

LEMMA TypeInit == PermissionsAssumption /\ Init => TypeOK
<1> SUFFICES ASSUME PermissionsAssumption, Init PROVE TypeOK
  OBVIOUS
<1>1. mode \in [Sessions -> Modes] /\ decisions \in 0..MaxDecisions
  BY DEF Init, Modes, PermissionsAssumption
<1>2. saved \in [Sessions -> [tools : SUBSET ToolNames, commands : SUBSET Args]]
  BY DEF Init, Nothing
<1>3. forever = {} /\ consents = {} /\ entries = {}
  BY DEF Init
<1>4. {forever, consents} \subseteq SUBSET Consents
  BY <1>3
<1>5. /\ tools \in [Sessions -> SUBSET ToolNames]
      /\ commands \in [Sessions -> SUBSET Args]
      /\ rules \in [Sessions -> SUBSET Rules]
      /\ prompt \in [Sessions -> SUBSET Proposals]
  BY DEF Init
<1>6. live \subseteq Sessions /\ repo \in [Sessions -> BOOLEAN] /\ trusted \in BOOLEAN
  BY DEF Init
<1> QED
  BY <1>1, <1>2, <1>3, <1>4, <1>5, <1>6 DEF TypeOK

(* Every variable keeps its type.                                          *)
THEOREM TypeCorrect == PermissionsAssumption /\ Spec => []TypeOK
<1>1. PermissionsAssumption /\ Init => TypeOK
  BY TypeInit
<1>2. PermissionsAssumption /\ TypeOK /\ [Next]_permissionVars => TypeOK'
  BY TypeStep
<1>3. PermissionsAssumption => PermissionsAssumption'
  BY DEF PermissionsAssumption
<1> QED
  BY <1>1, <1>2, <1>3, PTL DEF Spec

-----------------------------------------------------------------------------
(* Consent. *)

(* Every action keeps what stands.                                         *)
LEMMA StandsStep ==
  ASSUME PermissionsAssumption, IInv, [Next]_permissionVars
  PROVE  Stands'
<1> USE DEF IInv, TypeOK, Stands, SavedStands, EnginesStand, TaskStands, ForeverStands,
            RepoIsTrusted, ToolsStand, CommandsStand, RulesStand, engineVars, storedVars
<1>1. ASSUME NEW s \in Sessions, NEW c \in Proposals, Ask(s, c) PROVE Stands'
  BY <1>1 DEF Ask
<1>2. ASSUME NEW s \in Sessions, NEW c \in Proposals, Answer(s, c) PROVE Stands'
  <2>1. CASE Once(s, c)
    BY <1>2, <2>1 DEF Once, Answered
  <2>2. CASE AlwaysTool(s, c)
    <3>1. \A u \in Sessions : \A t \in tools'[u] : t \in tools[u] \/ (u = s /\ t = c.tool)
      BY <2>2 DEF AlwaysTool
    <3>2. consents \subseteq consents'
          /\ [kind |-> "tool", where |-> s, tool |-> c.tool, arg |-> NoArg] \in consents'
      BY <2>2 DEF AlwaysTool, Consent
    <3> QED
      BY <2>2, <3>1, <3>2 DEF AlwaysTool, Answered
  <2>3. CASE AlwaysCommand(s, c)
    <3>1. \A u \in Sessions : \A a \in commands'[u] :
            a \in commands[u] \/ (u = s /\ a = c.arg)
      BY <2>3 DEF AlwaysCommand
    <3>2. consents \subseteq consents'
      BY <2>3 DEF AlwaysCommand
    <3>3. \A d \in Proposals : Shell(d) =>
            [kind |-> "command", where |-> s, tool |-> d.tool, arg |-> c.arg] \in consents'
      BY <2>3 DEF AlwaysCommand, Consent, Shell, PermissionsAssumption
    <3> QED
      BY <2>3, <3>1, <3>2, <3>3 DEF AlwaysCommand, Answered
  <2>4. CASE AlwaysPersistent(s, c)
    <3>1. \A k \in forever' : k \in forever \/ (k = Consent(Scope(c), "everywhere", c)
                                                /\ k \in consents')
      BY <2>4 DEF AlwaysPersistent
    <3>2. consents \subseteq consents'
      BY <2>4 DEF AlwaysPersistent
    <3>3. Consent(Scope(c), "everywhere", c).where = "everywhere"
      BY DEF Consent
    <3> QED
      BY <2>4, <3>1, <3>2, <3>3 DEF AlwaysPersistent, Answered
  <2>5. CASE AlwaysTask(s, c)
    <3>1. /\ \A u \in Sessions : \A r \in rules'[u] : r \in rules[u] \/ r = <<c.tool, c.arg>>
          /\ \A r \in entries' : r \in entries \/ r = <<c.tool, c.arg>>
      BY <2>5 DEF AlwaysTask
    <3>2. /\ consents \subseteq consents'
          /\ [kind |-> "target", where |-> "task", tool |-> c.tool, arg |-> c.arg]
               \in consents'
      BY <2>5 DEF AlwaysTask, Consent
    <3>3. <<c.tool, c.arg>>[1] = c.tool /\ <<c.tool, c.arg>>[2] = c.arg
      OBVIOUS
    <3> QED
      BY <2>5, <3>1, <3>2, <3>3 DEF AlwaysTask, Answered
  <2> QED
    BY <1>2, <2>1, <2>2, <2>3, <2>4, <2>5 DEF Answer
<1>3. ASSUME NEW s \in Sessions, NEW m \in Modes, SetMode(s, m) PROVE Stands'
  BY <1>3 DEF SetMode
<1>4. ASSUME NEW s \in Sessions, Checkpoint(s) PROVE Stands'
  BY <1>4 DEF Checkpoint
<1>5. ASSUME NEW s \in Sessions, Build(s) PROVE Stands'
  BY <1>5 DEF Build
<1>6. ASSUME NEW k \in forever, RevokePermanent(k) PROVE Stands'
  \* a permanent approval stands for no session and for no task
  <2>1. k.where = "everywhere" /\ consents' = consents \ {k}
    BY <1>6 DEF RevokePermanent
  <2>2. /\ \A s \in Sessions : s # "everywhere"
        /\ \A a, b, t, w : w # "everywhere" =>
             [kind |-> a, where |-> w, tool |-> t, arg |-> b] # k
    BY <2>1 DEF PermissionsAssumption
  <2> QED
    BY <1>6, <2>1, <2>2 DEF RevokePermanent
<1>7. ASSUME NEW rule \in entries, RevokeRule(rule) PROVE Stands'
  <2>1. \A k \in consents : k.where # "task" => k \in consents'
    BY <1>7 DEF RevokeRule
  <2>2. /\ \A s \in Sessions : s # "task"
        /\ \A a, b, t, s : [kind |-> a, where |-> s, tool |-> t, arg |-> b].where = s
    BY DEF PermissionsAssumption
  <2>3. TaskStands'
    <3>1. \A r \in entries : <<r[1], r[2]>> = r
      BY DEF Rules
    <3> QED
      BY <1>7, <3>1 DEF RevokeRule
  <2>4. (SavedStands /\ ForeverStands /\ RepoIsTrusted)'
    BY <1>7, <2>1, <2>2 DEF RevokeRule
  <2>5. EnginesStand'
    BY <1>7, <2>1, <2>2, <2>3 DEF RevokeRule
  <2> QED
    BY <2>3, <2>4, <2>5
<1>8. ASSUME NEW value \in BOOLEAN, SetTrust(value) PROVE Stands'
  BY <1>8 DEF SetTrust
<1>9. CASE Crash
  BY <1>9 DEF Crash
<1>10. CASE UNCHANGED permissionVars
  BY <1>10 DEF permissionVars
<1> QED
  BY <1>1, <1>2, <1>3, <1>4, <1>5, <1>6, <1>7, <1>8, <1>9, <1>10 DEF Next

(* Evaluate lets a call with effects run only on what stands.              *)
LEMMA StandsIsEnough ==
  ASSUME PermissionsAssumption, IInv PROVE AllowedOnlyByConsent
<1> SUFFICES ASSUME NEW s \in live, NEW c \in Proposals,
                    Evaluate(s, c) = "allow", Consequential(c)
             PROVE  \/ Approved(s, c)
                    \/ mode[s] = "auto"
                    \/ mode[s] = "custom" /\ c.tool \in AutoTools
                    \/ trusted /\ Shell(c) /\ c.arg \in RepoCommands
  BY DEF AllowedOnlyByConsent
<1>1. \/ mode[s] = "auto" \/ SessionGrant(s, c) \/ PermanentGrant(c)
      \/ StandingRule(s, c) \/ Configured(s, c)
  BY DEF Evaluate
<1>2. s \in Sessions
  BY DEF IInv, TypeOK
<1>3. CASE SessionGrant(s, c)
  <2>1. CASE Shell(c) /\ c.arg \in commands[s]
    <3> DEFINE k == [kind |-> "command", where |-> s, tool |-> c.tool, arg |-> c.arg]
    <3>1. k \in consents
      BY <2>1 DEF IInv, Stands, EnginesStand, CommandsStand
    <3>2. Covers(k, s, c)
      BY <2>1 DEF Covers
    <3> QED
      BY <3>1, <3>2 DEF Approved
  <2>2. CASE c.tool \in tools[s] /\ ~c.connector
    <3> DEFINE k == [kind |-> "tool", where |-> s, tool |-> c.tool, arg |-> NoArg]
    <3>1. k \in consents
      BY <2>2 DEF IInv, Stands, EnginesStand, ToolsStand
    <3>2. Covers(k, s, c)
      BY <2>2 DEF Covers
    <3> QED
      BY <3>1, <3>2 DEF Approved
  <2> QED
    BY <1>3, <2>1, <2>2 DEF SessionGrant
<1>4. CASE PermanentGrant(c)
  <2>1. CASE Shell(c) /\ Consent("command", "everywhere", c) \in forever
    <3>1. Consent("command", "everywhere", c) \in consents
      BY <2>1 DEF IInv, Stands, ForeverStands
    <3>2. Covers(Consent("command", "everywhere", c), s, c)
      BY <2>1 DEF Covers, Consent
    <3> QED
      BY <3>1, <3>2 DEF Approved
  <2>2. CASE /\ ~c.connector /\ ~BlanketIneligible(c)
             /\ Consent("tool", "everywhere", c) \in forever
    <3>1. Consent("tool", "everywhere", c) \in consents
      BY <2>2 DEF IInv, Stands, ForeverStands
    <3>2. Covers(Consent("tool", "everywhere", c), s, c)
      BY <2>2 DEF Covers, Consent, BlanketIneligible
    <3> QED
      BY <3>1, <3>2 DEF Approved
  <2>3. CASE Candidate(c) /\ Consent("target", "everywhere", c) \in forever
    <3>1. Consent("target", "everywhere", c) \in consents
      BY <2>3 DEF IInv, Stands, ForeverStands
    <3>2. Covers(Consent("target", "everywhere", c), s, c)
      BY <2>3 DEF Covers, Consent, Candidate
    <3> QED
      BY <3>1, <3>2 DEF Approved
  <2> QED
    BY <1>4, <2>1, <2>2, <2>3 DEF PermanentGrant
<1>5. CASE StandingRule(s, c)
  <2> DEFINE k == [kind |-> "target", where |-> "task", tool |-> c.tool, arg |-> c.arg]
  <2>1. <<c.tool, c.arg>> \in rules[s]
    BY <1>5 DEF StandingRule
  <2>2. <<c.tool, c.arg>>[1] = c.tool /\ <<c.tool, c.arg>>[2] = c.arg
    OBVIOUS
  <2>3. k \in consents
    BY <2>1, <2>2 DEF IInv, Stands, EnginesStand, RulesStand
  <2>4. Covers(k, s, c)
    BY <1>5 DEF Covers, StandingRule, Candidate
  <2> QED
    BY <2>3, <2>4 DEF Approved
<1>6. CASE Configured(s, c)
  BY <1>6 DEF Configured, IInv, Stands, RepoIsTrusted
<1> QED
  BY <1>1, <1>3, <1>4, <1>5, <1>6

(* In no order of approvals, revocations, switches of mode or trust, saves *)
(* and restarts does a call with effects run without asking on what the    *)
(* user has not approved, or has revoked.                                  *)
THEOREM ConsentHolds == PermissionsAssumption /\ Spec => []AllowedOnlyByConsent
<1>1. PermissionsAssumption /\ Init => IInv
  <2>1. Init => Stands
    BY DEF Init, Nothing, Stands, SavedStands, EnginesStand, TaskStands, ForeverStands,
           RepoIsTrusted, ToolsStand, CommandsStand, RulesStand
  <2> QED
    BY <2>1, TypeInit DEF IInv
<1>2. PermissionsAssumption /\ IInv /\ [Next]_permissionVars => IInv'
  BY TypeStep, StandsStep DEF IInv
<1>3. PermissionsAssumption /\ IInv => AllowedOnlyByConsent
  BY StandsIsEnough
<1>4. PermissionsAssumption => PermissionsAssumption'
  BY DEF PermissionsAssumption
<1> QED
  BY <1>1, <1>2, <1>3, <1>4, PTL DEF Spec

=============================================================================
