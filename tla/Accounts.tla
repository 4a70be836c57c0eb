------------------------------ MODULE Accounts ------------------------------
(***************************************************************************)
(* The connected accounts in the secret store.  A mailbox connector (Gmail; *)
(* Calendar, HubSpot and the generic accounts have the same shape) keeps   *)
(* one profile per account and a token-free default profile with the       *)
(* pointer to the default account and the privacy filters; a default       *)
(* profile that bears a token, as a manual connect writes it, is migrated  *)
(* into an account by the next look at the list.  Slack keeps one profile  *)
(* per workspace and a default profile with the relay mode and the tokens  *)
(* of a manual connect.                                                    *)
(*                                                                         *)
(* Endpoints and tools run on several threads.  The store replaces one     *)
(* profile atomically; a call reads a profile, and writes it back later.   *)
(***************************************************************************)
EXTENDS Naturals, FiniteSets

CONSTANTS
  Mailboxes,  \* accounts, by address
  Teams,      \* Slack workspaces
  Calls,      \* threads that serve endpoints and tools
  MaxEdits    \* bound: connects, disconnects and edits by the user

None == "none"

(* What the constants are; Services assumes it. *)
AccountsAssumption == MaxEdits \in Nat /\ {None, "policy"} \cap Mailboxes = {}

VARIABLES
  accounts,  (* the account profiles: None, "pasted" or "managed" tokens *)
  default,   (* the connector's default profile *)
  session,   (* the cloud sign-in: "out", "fresh" or "stale" *)
  online,    (* the cloud can be reached *)
  calls,     (* calls under way *)
  teams,     (* workspaces with a profile *)
  slack,     (* Slack's default profile *)
  removing,  (* workspaces whose removal waits for the cloud *)
  edits,     (* used of MaxEdits *)
  wanted,    (* history: accounts the user has connected and not removed *)
  policy,    (* history: the user has filters *)
  excused,   (* history: writes that used what they had read before another *)
  armed      (* history: the user has asked for the manual tokens *)

mail == <<accounts, default, session, online, calls, wanted, policy, excused>>
relay == <<teams, slack, removing, armed>>
vars == <<accounts, default, session, online, calls, teams, slack, removing, edits,
          wanted, policy, excused, armed>>

Maybe(S) == S \cup {None}
NoProfile == [here |-> FALSE, pointer |-> None, filters |-> FALSE, token |-> None]
NoCall == [op |-> None, of |-> None, phase |-> None, read |-> NoProfile]
NoSlack == [here |-> FALSE, relay |-> FALSE, enabled |-> FALSE, tokens |-> FALSE]

Profiles == [here : BOOLEAN, pointer : Maybe(Mailboxes), filters : BOOLEAN,
             token : Maybe(Mailboxes)]

TypeOK ==
  /\ accounts \in [Mailboxes -> {None, "pasted", "managed"}] /\ default \in Profiles
  /\ session \in {"out", "fresh", "stale"} /\ online \in BOOLEAN
  /\ \A c \in Calls :
       /\ calls[c].op \in {None, "connect", "filters", "default", "remove", "use"}
       /\ calls[c].of \in Maybe(Mailboxes) /\ calls[c].read \in Profiles
       /\ calls[c].phase \in {None, "cloud", "local", "write"}
  /\ teams \subseteq Teams /\ removing \subseteq Teams
  /\ slack \in [here : BOOLEAN, relay : BOOLEAN, enabled : BOOLEAN, tokens : BOOLEAN]
  /\ edits \in 0..MaxEdits /\ wanted \subseteq Mailboxes /\ policy \in BOOLEAN
  /\ excused \subseteq Mailboxes \cup {"policy"} /\ armed \in BOOLEAN

Init ==
  /\ accounts = [m \in Mailboxes |-> None] /\ default = NoProfile
  /\ session = "out" /\ online = TRUE /\ calls = [c \in Calls |-> NoCall]
  /\ teams = {} /\ slack = NoSlack /\ removing = {} /\ edits = 0
  /\ wanted = {} /\ policy = FALSE /\ excused = {} /\ armed = FALSE

-----------------------------------------------------------------------------
(* migrate_legacy_default: the token of a default profile becomes an       *)
(* account, and the profile keeps pointer and filters.                     *)
MigratedAccounts ==
  IF default.token = None THEN accounts ELSE [accounts EXCEPT ![default.token] = "pasted"]

MigratedDefault ==
  IF default.token = None THEN default
  ELSE [default EXCEPT !.token = None,
                       !.pointer = IF @ = None THEN default.token ELSE @]

Connected(accts) == {m \in Mailboxes : accts[m] # None}
InCall(c, op, phase) == calls[c].op = op /\ calls[c].phase = phase
Return(c) == calls' = [calls EXCEPT ![c] = NoCall]
Edit == edits < MaxEdits /\ edits' = edits + 1

(* A call starts its second half with the default profile as it is now.    *)
Hold(c, op, m, profile) ==
  calls' = [calls EXCEPT ![c] = [op |-> op, of |-> m, phase |-> "write", read |-> profile]]

(* What is written from an older reading may undo another call's filters.  *)
Overlap(c, m) ==
  (IF default = calls[c].read THEN {} ELSE {"policy"}) \cup m

(* managed_connect_account, from the browser's callback: the account, then *)
(* the pointer.                                                            *)
Connect(c, m) ==
  /\ calls[c] = NoCall /\ Edit
  /\ accounts' = [MigratedAccounts EXCEPT ![m] = "managed"]
  /\ default' = MigratedDefault
  /\ Hold(c, "connect", m, MigratedDefault)
  /\ wanted' = wanted \cup {m}
  /\ UNCHANGED <<session, online, policy, excused>>

ConnectEnds(c) ==
  /\ InCall(c, "connect", "write")
  /\ LET was == calls[c].read IN
     default' = [was EXCEPT !.here = TRUE,
                            !.pointer = IF @ = None THEN calls[c].of ELSE @]
  /\ excused' = excused \cup Overlap(c, {})
  /\ Return(c)
  /\ UNCHANGED <<accounts, session, online, wanted, policy, edits>>

(* connect_connector with a pasted token: a new default profile, whatever  *)
(* the old one held.                                                       *)
Paste(m) ==
  /\ Edit
  /\ default' = [here |-> TRUE, pointer |-> None, filters |-> FALSE, token |-> m]
  /\ wanted' = wanted \cup {m}
  /\ excused' = IF policy THEN excused \cup {"policy"} ELSE excused
  /\ UNCHANGED <<accounts, session, online, calls, policy>>

(* set_filters *)
Filters(c) ==
  /\ calls[c] = NoCall /\ Edit
  /\ Hold(c, "filters", None, default)
  /\ UNCHANGED <<accounts, default, session, online, wanted, policy, excused>>

FiltersEnds(c) ==
  /\ InCall(c, "filters", "write")
  /\ default' = [calls[c].read EXCEPT !.here = TRUE, !.filters = TRUE]
  /\ policy' = TRUE
  /\ excused' = excused \cup Overlap(c, {})
  /\ Return(c)
  /\ UNCHANGED <<accounts, session, online, wanted, edits>>

(* set_default *)
SetDefault(c, m) ==
  /\ calls[c] = NoCall /\ accounts[m] # None /\ Edit
  /\ Hold(c, "default", m, default)
  /\ UNCHANGED <<accounts, default, session, online, wanted, policy, excused>>

SetDefaultEnds(c) ==
  /\ InCall(c, "default", "write")
  /\ default' = [calls[c].read EXCEPT !.here = TRUE, !.pointer = calls[c].of]
  /\ excused' = excused \cup Overlap(c, {})
  /\ Return(c)
  /\ UNCHANGED <<accounts, session, online, wanted, policy, edits>>

-----------------------------------------------------------------------------
(* Removing one account *)

(* cloud_disconnect first: it needs a session for a managed account.       *)
Remove(c, m) ==
  /\ calls[c] = NoCall /\ Edit
  /\ calls' = [calls EXCEPT ![c] = [NoCall EXCEPT !.op = "remove", !.of = m,
                 !.phase = IF accounts[m] = "managed" /\ session # "out"
                           THEN "cloud" ELSE "local"]]
  /\ UNCHANGED <<accounts, default, session, online, wanted, policy, excused>>

(* A stale session is renewed; the renewal raises when the cloud cannot be *)
(* reached, and the endpoint with it.  A failure to post the news does not. *)
RemoveAsksCloud(c) ==
  /\ InCall(c, "remove", "cloud")
  /\ IF session = "stale" /\ ~online
     THEN Return(c) /\ UNCHANGED session
     ELSE /\ calls' = [calls EXCEPT ![c].phase = "local"]
          /\ session' = IF session = "stale" THEN "fresh" ELSE session
  /\ UNCHANGED <<accounts, default, online, wanted, policy, excused, edits>>

(* Calls that will write back what they read of an account that goes.      *)
Shadows(gone) ==
  {m \in gone : \/ default.token = m
                \/ \E d \in Calls : \/ calls[d].of = m /\ calls[d].op = "use"
                                    \/ calls[d].read.token = m}

RemoveLocally(c) ==
  /\ InCall(c, "remove", "local")
  /\ LET m == calls[c].of IN
     IF accounts[m] = None THEN Return(c) /\ UNCHANGED <<accounts, default, wanted, excused>>
     ELSE /\ accounts' = IF default.token = None THEN [accounts EXCEPT ![m] = None]
                         ELSE [accounts EXCEPT ![m] = None, ![default.token] = "pasted"]
          /\ default' = MigratedDefault
          /\ Hold(c, "remove", m, MigratedDefault)
          /\ wanted' = wanted \ {m}
          /\ excused' = excused \cup Shadows({m})
  /\ UNCHANGED <<session, online, policy, edits>>

(* Mutant of Unpointed: the last account takes the profile with it. *)
UnpointedAll(was, left) ==
  IF left # {} THEN [was EXCEPT !.pointer = CHOOSE m \in left : TRUE] ELSE NoProfile

(* The pointer moves on; with the last account the profile goes, unless    *)
(* there are filters to keep.                                              *)
Unpointed(was, left) ==
  IF left # {} THEN [was EXCEPT !.pointer = CHOOSE m \in left : TRUE]
  ELSE IF was.filters THEN [was EXCEPT !.pointer = None] ELSE NoProfile

RemoveEnds(c) ==
  /\ InCall(c, "remove", "write")
  /\ LET was == calls[c].read IN
     IF was.pointer = calls[c].of
     THEN /\ default' = Unpointed(was, Connected(accounts))
          /\ excused' = excused \cup Overlap(c, {})
     ELSE UNCHANGED <<default, excused>>
  /\ Return(c)
  /\ UNCHANGED <<accounts, session, online, wanted, policy, edits>>

(* Mutant of ResetAll: the accounts stay. *)
ResetDefaultOnly == accounts' = MigratedAccounts /\ default' = NoProfile

(* disconnect_connector: every account, then the default profile.  It runs *)
(* on the event loop, alone but for the threads.                           *)
ResetAll == accounts' = [m \in Mailboxes |-> None] /\ default' = NoProfile

Disconnect ==
  /\ Edit
  /\ ResetAll
  /\ wanted' = {} /\ policy' = FALSE
  /\ excused' = excused \cup Shadows(Mailboxes)
                        \cup (IF \E d \in Calls : calls[d].phase = "write" THEN {"policy"} ELSE {})
  /\ UNCHANGED <<session, online, calls>>

-----------------------------------------------------------------------------
(* A tool picks an account and renews a managed token that is about to     *)
(* expire: it reads the profile, asks the broker and writes the profile.   *)
Pick(c, m) ==
  /\ calls[c] = NoCall /\ MigratedAccounts[m] # None
  /\ accounts' = MigratedAccounts /\ default' = MigratedDefault
  /\ IF accounts[m] = "managed" /\ session # "out"
     THEN calls' = [calls EXCEPT ![c] = [NoCall EXCEPT !.op = "use", !.of = m,
                                                       !.phase = "cloud"]]
     ELSE UNCHANGED calls
  /\ UNCHANGED <<session, online, wanted, policy, excused, edits>>

Renewed(c) ==
  /\ InCall(c, "use", "cloud") /\ session # "out" /\ online
  /\ session' = "fresh"
  /\ accounts' = [accounts EXCEPT ![calls[c].of] = "managed"]
  /\ Return(c)
  /\ UNCHANGED <<default, online, wanted, policy, excused, edits>>

NotRenewed(c) ==
  /\ InCall(c, "use", "cloud") /\ (session = "out" \/ ~online)
  /\ Return(c)
  /\ UNCHANGED <<accounts, default, session, online, wanted, policy, excused, edits>>

(* Signing in and out, the session's expiry, and the network.              *)
SignIn == session = "out" /\ online /\ session' = "fresh" /\ UNCHANGED online
SignOut == session # "out" /\ session' = "out" /\ UNCHANGED online
Expire == session = "fresh" /\ session' = "stale" /\ UNCHANGED online
Network == online' = ~online /\ UNCHANGED session

Cloud ==
  /\ SignIn \/ SignOut \/ Expire \/ Network
  /\ UNCHANGED <<accounts, default, calls, wanted, policy, excused, edits>>

-----------------------------------------------------------------------------
(* Slack *)

(* managed_connect_slack_install: the workspace, and the relay mode.       *)
Install(t) ==
  /\ Edit
  /\ teams' = teams \cup {t}
  /\ slack' = [slack EXCEPT !.here = TRUE, !.relay = TRUE, !.enabled = TRUE]
  /\ armed' = FALSE
  /\ UNCHANGED removing

(* A manual connect writes the default profile anew: the relay mode goes.  *)
PasteTokens ==
  /\ Edit
  /\ slack' = [here |-> TRUE, relay |-> FALSE, enabled |-> TRUE, tokens |-> TRUE]
  /\ armed' = TRUE
  /\ UNCHANGED <<teams, removing>>

RemoveTeam(t) ==
  /\ t \in teams \ removing /\ Edit
  /\ removing' = removing \cup {t}
  /\ UNCHANGED <<teams, slack, armed>>

(* The last workspace takes the relay mode along, and leaves the tokens of *)
(* a manual connect disabled.                                              *)
WithoutRelayOn == [slack EXCEPT !.relay = FALSE]
WithoutRelay ==
  IF slack.tokens THEN [slack EXCEPT !.relay = FALSE, !.enabled = FALSE] ELSE NoSlack

TeamRemoved(t) ==
  /\ t \in removing
  /\ removing' = removing \ {t} /\ teams' = teams \ {t}
  /\ slack' = IF teams \subseteq {t} /\ slack.relay THEN WithoutRelay ELSE slack
  /\ UNCHANGED <<armed, edits>>

(* The whole connector: its default profile; the workspaces' stay.         *)
DisconnectSlack ==
  /\ slack.here /\ Edit
  /\ slack' = NoSlack /\ armed' = FALSE
  /\ UNCHANGED <<teams, removing>>

MailNext ==
  \/ \E c \in Calls :
       \/ \E m \in Mailboxes : Connect(c, m) \/ SetDefault(c, m) \/ Remove(c, m) \/ Pick(c, m)
       \/ ConnectEnds(c) \/ Filters(c) \/ FiltersEnds(c) \/ SetDefaultEnds(c)
       \/ RemoveAsksCloud(c) \/ RemoveLocally(c) \/ RemoveEnds(c)
       \/ Renewed(c) \/ NotRenewed(c)
  \/ \E m \in Mailboxes : Paste(m)
  \/ Disconnect \/ Cloud

SlackNext ==
  \/ \E t \in Teams : Install(t) \/ RemoveTeam(t) \/ TeamRemoved(t)
  \/ PasteTokens \/ DisconnectSlack

Next ==
  \/ MailNext /\ UNCHANGED <<teams, slack, removing, armed>>
  \/ SlackNext /\ UNCHANGED <<accounts, default, session, online, calls, wanted, policy, excused>>

Spec == Init /\ [][Next]_vars

-----------------------------------------------------------------------------
(* An account that the user has removed, alone or with the connector, does *)
(* not come back with the migration of a token, the writes of other calls  *)
(* or the next connect, unless a tool was renewing its token meanwhile or  *)
(* the same account was also in the default profile.                       *)
GoneStaysGone ==
  \A m \in Mailboxes : accounts[m] # None \/ default.token = m => m \in wanted \cup excused

(* The filters outlive every account they were set for ("they're policy,   *)
(* not credentials"): only the disconnect of the whole connector ends      *)
(* them.  Excused are a manual connect and two writes that overlap.        *)
PolicyIsKept == "policy" \in excused \/ default.filters = policy

(* Removing the last workspace never starts listening with the tokens of   *)
(* an earlier manual connect.                                              *)
OldTokensStaySilent == slack.enabled /\ ~slack.relay => armed

AccountsHold == GoneStaysGone /\ PolicyIsKept /\ OldTokensStaySilent

(* What cloud_disconnect says of the removal that calls it: "Local         *)
(* deletion always proceeds regardless" of the cloud.                      *)
LocalDeletionProceeds ==
  [][\A c \in Calls :
       calls[c].op = "remove" /\ calls'[c] = NoCall =>
         calls[c].phase = "write" \/ accounts[calls[c].of] = None]_vars

=============================================================================
