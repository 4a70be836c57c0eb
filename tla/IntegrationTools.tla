-------------------------- MODULE IntegrationTools --------------------------
(***************************************************************************)
(* One connector tool through a session: its engine is built with or       *)
(* without it, the model calls it, the permission gate asks the user when  *)
(* the registry says it writes, and the tool takes an account and sends    *)
(* its requests, while the user switches tools, accounts and filters.      *)
(* Every tool of ConnectorTools is one choice of the initial state.        *)
(***************************************************************************)
EXTENDS ToolDefs, ConnectorTools, Integers

CONSTANTS
  Holders,    (* accounts a connector may have                             *)
  MaxSwitches (* bound: what the user changes                              *)

(* What the constants are; Services assumes it. *)
IntegrationToolsAssumption == Holders # {} /\ MaxSwitches \in Nat

NobodyYet == "nobody"

VARIABLES
  tool,      (* the tool                                                   *)
  override,  (* the user's switch of the tool: "default", "on", "off"      *)
  mode,      (* the profile's kind of access: "api" or "mcp"               *)
  holders,   (* the accounts the connector has                             *)
  pointer,   (* the default account, as stored                             *)
  never,     (* what mail the user never shows: "none", "sender", "label"  *)
  engine,    (* the session's engine: "none", "with" or "without" the tool *)
  stage,     (* "idle", "prompted", "running", "ok", "refused", "failed",  *)
             (* "denied"                                                   *)
  gated,     (* whether the call was asked about                           *)
  at,        (* the tool's next step                                       *)
  served,    (* the account whose credentials the call took                *)
  named,     (* the account its result names                               *)
  reminted,  (* a managed GitHub token was minted anew for this call       *)
  effects,   (* what the call did, in order                                *)
  located,   (* DocuSign's account was found and saved                     *)
  mail,      (* what the message read is: "plain", "sender" or "label"     *)
  filter,    (* the filter in force since the call started, or "moved"     *)
  labels,    (* lookups the filters needed: "unread", "known", "failed"    *)
  shown,     (* the message went into the result                           *)
  switches

userVars == <<override, mode, holders, pointer, never, switches>>
callVars == <<stage, gated, at, served, named, reminted, effects, located, labels,
              shown>>
mailVars == <<mail, filter>>
vars == <<tool, engine, userVars, callVars, mailVars>>

plan == Plan[tool]
ByAccount == {"account", "gmail", "calendar", "hubspot"}
HasAccounts == plan.profile \in ByAccount
Single == CHOOSE h \in Holders : TRUE

(* The account a call takes that names none: the pointer's while it is     *)
(* connected, the first one otherwise.                                     *)
DefaultAccount ==
  IF pointer \in holders THEN pointer
  ELSE IF holders = {} THEN NobodyYet ELSE CHOOSE h \in holders : TRUE

Connected == plan.profile = "none" \/ holders # {}

(* Whether a new engine gets the tool.                                     *)
ToolEnabled ==
  /\ Connected
  /\ override # "off"
  /\ ApiToolsActive(ConnectorOf(tool), mode)

Init ==
  /\ tool \in Tools
  /\ override = "default"
  /\ mode \in IF ConnectorOf(tool) \in TwoSets THEN {"api", "mcp"} ELSE {"api"}
  /\ holders \in IF HasAccounts THEN SUBSET Holders ELSE {{}, {Single}}
  /\ pointer \in holders \union {NobodyYet}
  /\ never = "none"
  /\ engine = "none"
  /\ stage = "idle" /\ gated = FALSE /\ at = 1
  /\ served = NobodyYet /\ named = NobodyYet
  /\ reminted = FALSE /\ effects = <<>>
  /\ located \in IF plan.steps[1] = "discover" THEN BOOLEAN ELSE {FALSE}
  /\ mail \in IF plan.profile = "gmail" THEN {"plain", "sender", "label"} ELSE {"plain"}
  /\ filter = "none" /\ labels = "unread" /\ shown = FALSE
  /\ switches = 0

-----------------------------------------------------------------------------
(* The user.                                                               *)

(* Only what is changed up to the end of the call can matter to it.        *)
Switched ==
  /\ switches < MaxSwitches /\ stage \in {"idle", "prompted", "running"}
  /\ switches' = switches + 1
  /\ UNCHANGED <<tool, engine, callVars, mail>>

PatchToolSettings(v) ==
  /\ Switched
  /\ override' = v
  /\ UNCHANGED <<mode, holders, pointer, never, filter>>

(* Connecting keeps a default already there.                               *)
Connect(h) ==
  /\ h \notin holders
  /\ plan.profile # "none" /\ (HasAccounts \/ h = Single)
  /\ Switched
  /\ holders' = holders \union {h}
  /\ pointer' = IF pointer = NobodyYet THEN h ELSE pointer
  /\ UNCHANGED <<override, mode, never, filter>>

SetDefault(h) ==
  /\ HasAccounts /\ h \in holders
  /\ Switched
  /\ pointer' = h
  /\ UNCHANGED <<override, mode, holders, never, filter>>

Disconnect(h) ==
  /\ h \in holders
  /\ Switched
  /\ holders' = holders \ {h}
  /\ pointer' = IF pointer # h THEN pointer
                ELSE IF holders' = {} THEN NobodyYet ELSE CHOOSE g \in holders' : TRUE
  /\ UNCHANGED <<override, mode, never, filter>>

SetFilters(f) ==
  /\ plan.profile = "gmail"
  /\ Switched
  /\ never' = f
  /\ filter' = IF stage = "idle" THEN filter ELSE "moved"
  /\ UNCHANGED <<override, mode, holders, pointer>>

-----------------------------------------------------------------------------
(* The session.                                                            *)

(* A session's engine takes its tools once, when it is built.              *)
BuildEngine ==
  /\ stage = "idle"
  /\ engine' = IF ToolEnabled THEN "with" ELSE "without"
  /\ UNCHANGED <<tool, userVars, callVars, mailVars>>

(* The model calls the tool: a write waits for the user, a read does not.  *)
Call ==
  /\ engine = "with" /\ stage = "idle"
  /\ gated' = ApprovalForTool(tool)
  /\ stage' = IF gated' THEN "prompted" ELSE "running"
  /\ filter' = never
  /\ UNCHANGED <<tool, engine, userVars, at, served, named, reminted, effects, located,
                 labels, shown, mail>>

Decide(answer) ==
  /\ stage = "prompted"
  /\ stage' = answer
  /\ UNCHANGED <<tool, engine, userVars, gated, at, served, named, reminted, effects,
                 located, labels, shown, mailVars>>

(* An argument the tool refuses, or one that names no account.             *)
Refuse ==
  /\ stage = "running" /\ at = 1 /\ served = NobodyYet
  /\ plan.refuses \/ HasAccounts \/ ~Connected
  /\ stage' = "refused"
  /\ UNCHANGED <<tool, engine, userVars, gated, at, served, named, reminted, effects,
                 located, labels, shown, mailVars>>

(* The credentials are read when the tool runs: of the account the call    *)
(* names, or else of the default one.  What is named later is this one.    *)
TakeAccount(h) ==
  /\ stage = "running" /\ served = NobodyYet
  /\ Connected
  /\ IF HasAccounts THEN h \in holders ELSE h = Single
  /\ served' = h
  /\ UNCHANGED <<tool, engine, userVars, stage, gated, at, named, reminted, effects,
                 located, labels, shown, mailVars>>

-----------------------------------------------------------------------------
(* The tool's requests.                                                    *)

Running(kinds) ==
  /\ stage = "running" /\ served # NobodyYet
  /\ at <= Len(plan.steps)
  /\ plan.steps[at] \in kinds

Doing == {"change", "job", "page", "disk"}
Did == IF plan.steps[at] \in Doing THEN Append(effects, plan.steps[at]) ELSE effects

(* A mutant: the account is looked up again for the answer.                *)
StampAgain == IF HasAccounts THEN DefaultAccount ELSE NobodyYet

(* Only a tool of several accounts says which served.                      *)
Stamp == IF HasAccounts THEN served ELSE NobodyYet

(* The last step's answer is the tool's.                                   *)
Advance ==
  IF at = Len(plan.steps)
    THEN stage' = "ok" /\ named' = Stamp /\ at' = at
    ELSE at' = at + 1 /\ UNCHANGED <<stage, named>>

Answered ==
  /\ Running({"read", "glance"} \union Doing)
  /\ effects' = Did
  /\ Advance
  /\ UNCHANGED <<tool, engine, userVars, gated, served, reminted, located, labels,
                 shown, mailVars>>

(* An account's error carries its account too, Gmail's, the calendar's and *)
(* HubSpot's do not.                                                       *)
Fail(how) ==
  /\ stage' = how
  /\ named' = IF plan.profile = "account" THEN Stamp ELSE NobodyYet
  /\ at' = at

(* The service refuses the request and has not acted on it.                *)
Rejected ==
  /\ Running({"read", "discover"} \union Doing)
  /\ Fail("refused")
  /\ UNCHANGED <<tool, engine, userVars, gated, served, reminted, effects, located,
                 labels, shown, mailVars>>

(* No answer came: the service may have acted.                             *)
Lost ==
  /\ Running({"read", "discover"} \union Doing)
  /\ effects' \in {effects, Did}
  /\ Fail("failed")
  /\ UNCHANGED <<tool, engine, userVars, gated, served, reminted, located, labels,
                 shown, mailVars>>

(* A read that is only a help goes on without its answer.                  *)
Shrug ==
  /\ Running({"glance"})
  /\ Advance
  /\ UNCHANGED <<tool, engine, userVars, gated, served, reminted, effects, located,
                 labels, shown, mailVars>>

(* A mutant: any failed call of GitHub's is sent again.                    *)
RetriedAny(done) == done \in {effects, Did}

(* A token the service no longer takes is minted anew, once, and the       *)
(* request sent again: a refused request has done nothing.                 *)
Retried(done) == done = effects

RemintGithub ==
  /\ plan.profile = "github" /\ ~reminted
  /\ Running({"read", "change"})
  /\ reminted' = TRUE
  /\ Retried(effects')
  /\ UNCHANGED <<tool, engine, userVars, stage, gated, at, served, named, located,
                 labels, shown, mailVars>>

(* DocuSign: what was found is written over the profile, whatever became   *)
(* of it meanwhile; a disconnected profile is back.                        *)
Discover ==
  /\ Running({"discover"})
  /\ IF located THEN UNCHANGED <<located, holders>>
     ELSE located' = TRUE /\ holders' = holders \union {served}
  /\ Advance
  /\ UNCHANGED <<tool, engine, override, mode, pointer, never, switches, gated, served,
                 reminted, effects, labels, shown, mailVars>>

(* A search looks up the sender and labels of each hit, a label needs its   *)
(* name in the mailbox's list.                                             *)
Lookups == never = "label" \/ (never = "sender" /\ tool = "gmail_search_messages")

(* A mutant: only senders are hidden.                                      *)
HiddenBySender(found) == never = "sender" /\ mail = "sender"

(* What a filter names is hidden, unless a lookup it needs has failed.     *)
IsHidden(found) ==
  never # "none" /\ mail = never /\ (Lookups => found = "known")

(* The filters are read after the message came.  A hidden hit is left out  *)
(* of a search; a hidden message is answered as one that does not exist.   *)
FilterMail ==
  /\ Running({"filters"})
  /\ labels' \in IF Lookups THEN {"known", "failed"} ELSE {"unread"}
  /\ shown' = ~IsHidden(labels')
  /\ IF shown' \/ tool = "gmail_search_messages"
       THEN Advance
       ELSE Fail("refused")
  /\ UNCHANGED <<tool, engine, userVars, gated, served, reminted, effects, located,
                 mailVars>>

-----------------------------------------------------------------------------
User ==
  \/ \E v \in {"on", "off"} : PatchToolSettings(v)
  \/ \E h \in Holders : Connect(h) \/ SetDefault(h) \/ Disconnect(h)
  \/ \E f \in {"none", "sender", "label"} : SetFilters(f)

Session ==
  \/ BuildEngine
  \/ Call
  \/ \E answer \in {"running", "denied"} : Decide(answer)
  \/ Refuse
  \/ \E h \in Holders : TakeAccount(h)

Requests ==
  \/ Answered
  \/ Rejected
  \/ Lost
  \/ Shrug
  \/ RemintGithub
  \/ Discover
  \/ FilterMail

Next == User \/ Session \/ Requests

Spec == Init /\ [][Next]_vars

-----------------------------------------------------------------------------
TypeOK ==
  /\ tool \in Tools /\ override \in {"default", "on", "off"} /\ mode \in {"api", "mcp"}
  /\ holders \subseteq Holders /\ pointer \in Holders \union {NobodyYet}
  /\ engine \in {"none", "with", "without"}
  /\ stage \in {"idle", "prompted", "running", "ok", "refused", "failed", "denied"}
  /\ gated \in BOOLEAN
  /\ at \in 1 .. Len(plan.steps)
  /\ {served, named} \subseteq Holders \union {NobodyYet}
  /\ effects \in Seq(Doing) /\ Len(effects) <= Len(plan.steps)
  /\ {reminted, located, shown} \subseteq BOOLEAN
  /\ mail \in {"plain", "sender", "label"} /\ labels \in {"unread", "known", "failed"}
  /\ never \in {"none", "sender", "label"} /\ switches \in 0 .. MaxSwitches

Changes == {i \in DOMAIN effects : effects[i] = "change"}

(* Nothing at a service changes in a call the user was not asked about.    *)
UnaskedChangesNothing == Changes # {} => gated

(* A call changes the service once at most, for all its retries; one that  *)
(* is refused has changed nothing, and one that succeeds has done its work.  *)
ChangesOnce ==
  /\ Cardinality(Changes) <= 1
  /\ stage \in {"refused", "denied"} => Changes = {}
  /\ stage = "ok" =>
       \A i \in DOMAIN plan.steps :
         plan.steps[i] \in Doing => \E j \in DOMAIN effects : effects[j] = plan.steps[i]

(* The account a result names is the one whose credentials were used, even *)
(* when the default moved or the account went while the call ran.          *)
NamesItsAccount == named \in {NobodyYet, served}

(* A message under a filter that held all through the call is not shown,   *)
(* unless a lookup it needs has failed.                                    *)
HiddenStaysHidden ==
  stage = "ok" /\ shown /\ filter = mail /\ mail # "plain" => labels = "failed"

CallsAreHonest ==
  UnaskedChangesNothing /\ ChangesOnce /\ NamesItsAccount /\ HiddenStaysHidden

(* risk.py on the class these tools get, READ: "no side effects -- always  *)
(* allowed".                                                               *)
ReadsHaveNoEffect == ~gated => effects = <<>>

=============================================================================
