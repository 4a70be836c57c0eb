------------------------------ MODULE Inbound ------------------------------
(***************************************************************************)
(* What becomes of a message somebody writes to the assistant on a chat    *)
(* platform: the relay socket that brings it, the gateway's allow-list,    *)
(* the routing to subscribed sessions, to the session of a thread or of a  *)
(* contact, or to a newly spawned one, and the turn it starts there.       *)
(*                                                                         *)
(* There is one channel with one thread; a direct message's chat is its    *)
(* sender.  The relay keeps the frames it has not handed over (external).  *)
(* A turn is reduced to what routing sees of it: it reads the messages     *)
(* steered into it, may wait at a prompt that is mirrored to the platform, *)
(* and ends.  What a crash keeps of a transcript is Transcript's concern:  *)
(* here it keeps the turns that have ended.                                *)
(***************************************************************************)
EXTENDS Naturals, Sequences, SequencesExt, FiniteSets, Kept

CONSTANTS
  Msgs,          \* the messages people send
  Senders,       \* the people who send them
  Relayed,       \* those whose platform comes over the relay
  Owners,        \* the ones who may answer an approval from the platform
  Sessions,      \* session ids
  UserSessions,  \* those the user has made; the others are free ids
  MaxEdits,      \* bound: settings changed, deletions, reloads and crashes
  MaxPrompts     \* bound: prompts raised, and clicks on their buttons

None == "none"

(* What the constants are; Services assumes it. *)
InboundAssumption ==
  /\ Owners \subseteq Senders /\ Relayed \subseteq Senders
  /\ UserSessions \subseteq Sessions /\ IsFiniteSet(UserSessions)
  /\ None \notin Sessions \cup Senders
  /\ MaxEdits \in Nat /\ MaxPrompts \in Nat

Kinds == {"plain", "tag", "dm", "reply"}
Thread == "thread"
Chats == Senders \cup {Thread}
Idle == "idle"

VARIABLES
  msg,       (* each message: unsent, or its kind and its sender *)
  frames,    (* the frames the relay holds, oldest first: messages and clicks *)
  reading,   (* the frame the hub's task is handling, or the last one *)
  linked,    (* the hub's task runs *)
  fan,       (* the subscribers a message has yet to be delivered to *)
  turn,      (* what runs a session's turn: a message, an answer, or nothing *)
  zombie,    (* sessions whose turn runs on an engine that was dropped *)
  steer,     (* messages queued on a session's engine *)
  thread,    (* messages a session's agent has read *)
  prompts,   (* sessions with a pending Inbox item *)
  waits,     (* sessions whose turn waits for that item's answer *)
  rows,      (* sessions in the store *)
  owner,     (* the session of a thread or contact, durable *)
  subs,      (* sessions subscribed to the channel, oldest first *)
  muted,     (* sessions that mute the platform *)
  dmSession, (* the session designated for direct messages *)
  allowed,   (* the allow-list *)
  parked,    (* messages kept of senders who are not on it *)
  unrouted,  (* dead letters: a message and the session it was for *)
  due,       (* history: the deliveries that were owed and not cut off *)
  born,      (* history: the chat a session was spawned for *)
  deleted,   (* history: sessions the user deleted *)
  released,   (* history: tagged messages delivered by the owner's decision *)
  edits,     (* counts against MaxEdits *)
  asked,     (* prompts raised, *)
  clicked    (* and clicks, against MaxPrompts *)

turnVars == <<turn, zombie, steer, thread, prompts, waits, rows>>
routeVars == <<fan, owner, unrouted, due, born>>
settingVars == <<subs, muted, dmSession, allowed>>
linkVars == <<frames, reading, linked>>
pastVars == <<deleted, released, edits, asked, clicked>>
vars == <<msg, parked, turnVars, routeVars, settingVars, linkVars, pastVars>>

NoFrame == [what |-> "nothing"]
Message(m) == [what |-> "message", m |-> m]
Click(s, u) == [what |-> "click", s |-> s, by |-> u]
Frames == {NoFrame} \cup {Message(m) : m \in Msgs}
          \cup {Click(s, u) : s \in Sessions, u \in Senders}
Unsent == [kind |-> None, from |-> None]

TypeOK ==
  /\ msg \in [Msgs -> {Unsent} \cup [kind : Kinds, from : Senders]]
  /\ Range(frames) \subseteq Frames /\ reading \in Frames /\ linked \in BOOLEAN
  /\ \A m \in Msgs : Range(fan[m]) \subseteq Sessions
  /\ turn \in [Sessions -> Msgs \cup {Idle, "resumed", "clicked"}]
  /\ steer \in [Sessions -> SUBSET Msgs] /\ thread \in [Sessions -> SUBSET Msgs]
  /\ zombie \subseteq Sessions /\ prompts \subseteq Sessions
  /\ waits \subseteq prompts /\ rows \subseteq Sessions /\ muted \subseteq Sessions
  /\ \A s \in zombie \cup waits : turn[s] # Idle
  /\ owner \in [Chats -> Sessions \cup {None}]
  /\ Range(subs) \subseteq Sessions /\ dmSession \in Sessions \cup {None}
  /\ allowed \subseteq Senders /\ parked \subseteq Msgs /\ released \subseteq Msgs
  /\ unrouted \subseteq Msgs \X (Sessions \cup {None})
  /\ due \subseteq Msgs \X Sessions /\ deleted \subseteq Sessions
  /\ born \in [Sessions -> Chats \cup {None}] /\ edits \in 0..MaxEdits
  /\ asked \in 0..MaxPrompts /\ clicked \in 0..MaxPrompts

Init ==
  /\ msg = [m \in Msgs |-> Unsent] /\ frames = <<>> /\ reading = NoFrame
  /\ linked = TRUE /\ fan = [m \in Msgs |-> <<>>]
  /\ turn = [s \in Sessions |-> Idle] /\ zombie = {}
  /\ steer = [s \in Sessions |-> {}] /\ thread = [s \in Sessions |-> {}]
  /\ prompts = {} /\ waits = {} /\ rows = UserSessions
  /\ owner = [c \in Chats |-> None] /\ muted = {}
  /\ subs \in {<<>>, SetToSeq(UserSessions)}
  /\ dmSession = None /\ allowed \in {Owners, Senders} /\ parked = {}
  /\ unrouted = {} /\ due = {} /\ born = [s \in Sessions |-> None]
  /\ deleted = {} /\ released = {} /\ edits = 0
  /\ asked = 0 /\ clicked = 0

-----------------------------------------------------------------------------
(* Delivery and routing. *)

(* A mutant: a busy session's message is dropped.                          *)
DeliverIdleOnly(m, s) ==
  IF turn[s] # Idle THEN UNCHANGED <<turn, steer, thread, unrouted>>
  ELSE /\ turn' = [turn EXCEPT ![s] = m]
       /\ thread' = [thread EXCEPT ![s] = @ \cup {m}]
       /\ UNCHANGED <<steer, unrouted>>

(* deliver_to_session: a session whose engine cannot be built leaves a     *)
(* dead letter; a busy one gets the message as steering; an idle one       *)
(* starts a turn with it.  A turn on a dropped engine still holds the      *)
(* session's flag: the steering goes to the new engine.                    *)
Deliver(m, s) ==
  \/ /\ s \notin rows
     /\ unrouted' = unrouted \cup {<<m, s>>}
     /\ UNCHANGED <<turn, steer, thread>>
  \/ /\ turn[s] # Idle
     /\ steer' = [steer EXCEPT ![s] = @ \cup {m}]
     /\ UNCHANGED <<turn, thread, unrouted>>
  \/ /\ turn[s] = Idle
     /\ turn' = [turn EXCEPT ![s] = m]
     /\ thread' = [thread EXCEPT ![s] = @ \cup {m}]
     /\ UNCHANGED <<steer, unrouted>>

(* One subscriber of those left: skipped when it mutes the platform.       *)
NextSubscriber(m, left, owed) ==
  /\ fan' = [fan EXCEPT ![m] = Tail(left)]
  /\ IF Head(left) \in muted
     THEN /\ due' = owed \ {<<m, Head(left)>>}
          /\ UNCHANGED <<turn, steer, thread, unrouted>>
     ELSE due' = owed /\ Deliver(m, Head(left))
  /\ UNCHANGED <<owner, born, rows>>

(* Every subscriber of the channel, one after another: each delivery is    *)
(* awaited, and with it the turn it starts.                                *)
FanOut(m) ==
  NextSubscriber(m, subs, due \cup ({m} \X Range(subs)))

(* A free id; which one does not matter.                                   *)
Fresh(s) ==
  LET free == {t \in Sessions \ UserSessions : born[t] = None}
  IN  free # {} /\ s = CHOOSE t \in free : TRUE
(* A mutant: the session is looked for only among the idle ones.           *)
HasIdleSession(c) == owner[c] \in rows /\ turn[owner[c]] = Idle

HasSession(c) == owner[c] \in rows

(* The chat's session, spawned when there is none: the map first, so that  *)
(* a second message finds it, then the store's row, then the turn.         *)
ToOwner(m, c) ==
  \/ /\ HasSession(c)
     /\ Deliver(m, owner[c])
     /\ due' = due \cup {<<m, owner[c]>>}
     /\ UNCHANGED <<fan, owner, born, rows>>
  \/ /\ ~HasSession(c)
     /\ \E s \in Sessions :
          /\ Fresh(s)
          /\ owner' = [owner EXCEPT ![c] = s]
          /\ born' = [born EXCEPT ![s] = c]
          /\ rows' = rows \cup {s}
          /\ turn' = [turn EXCEPT ![s] = m]
          /\ thread' = [thread EXCEPT ![s] = {m}]
          /\ due' = due \cup {<<m, s>>}
     /\ UNCHANGED <<fan, steer, unrouted>>
  \/ /\ ~HasSession(c)          \* the default persona's engine cannot be built
     /\ unrouted' = unrouted \cup {<<m, None>>}
     /\ UNCHANGED <<fan, owner, born, rows, turn, steer, thread, due>>

(* _dispatch_inbound.                                                      *)
Dispatch(m, kind, from) ==
  \/ kind \in {"plain", "tag"} /\ subs # <<>> /\ FanOut(m)
  \/ /\ kind = "plain" /\ subs = <<>>      \* nobody is listening
     /\ UNCHANGED <<turn, steer, thread, rows, routeVars>>
  \/ kind = "tag" /\ subs = <<>> /\ ToOwner(m, Thread)
  \/ kind = "dm" /\ dmSession = None /\ ToOwner(m, from)
  \/ /\ kind = "dm" /\ dmSession \in muted
     /\ unrouted' = unrouted \cup {<<m, dmSession>>}
     /\ UNCHANGED <<turn, steer, thread, rows, fan, owner, due, born>>
  \/ /\ kind = "dm" /\ dmSession \in Sessions \ muted
     /\ Deliver(m, dmSession)
     /\ due' = due \cup {<<m, dmSession>>}
     /\ UNCHANGED <<rows, fan, owner, born>>

(* _resolve_inbox_reply: a message that carries an item's token answers    *)
(* the item, or nothing if it is answered already or its sender owns no    *)
(* approvals; it is consumed either way.                                   *)
AnswerByReply(from) ==
  \/ /\ from \in Owners
     /\ \E s \in prompts : prompts' = prompts \ {s} /\ waits' = waits \ {s}
  \/ UNCHANGED <<prompts, waits>>

(* The gateway's _on_inbound.                                              *)
OnInbound(m, kind, from) ==
  /\ \/ /\ from \notin allowed
        /\ parked' = parked \cup {m}
        /\ UNCHANGED <<turn, steer, thread, prompts, waits, rows, routeVars>>
     \/ /\ from \in allowed /\ kind = "reply"
        /\ AnswerByReply(from)
        /\ UNCHANGED <<parked, turn, steer, thread, rows, routeVars>>
     \/ /\ from \in allowed /\ kind # "reply"
        /\ Dispatch(m, kind, from)
        /\ UNCHANGED <<parked, prompts, waits>>
  /\ UNCHANGED <<zombie, settingVars, pastVars>>

-----------------------------------------------------------------------------
(* Transports. *)

(* Somebody writes.  The relay holds the message for its socket; a webhook *)
(* or a polling adapter handles it in a task of its own.                   *)
SendByRelay(m) ==
  /\ msg[m] = Unsent
  /\ \E k \in Kinds, u \in Relayed :
       msg' = [msg EXCEPT ![m] = [kind |-> k, from |-> u]]
  /\ frames' = Append(frames, Message(m))
  /\ UNCHANGED <<reading, linked, parked, turnVars, routeVars, settingVars, pastVars>>

SendDirectly(m) ==
  /\ msg[m] = Unsent
  /\ \E k \in Kinds, u \in Senders \ Relayed :
       /\ msg' = [msg EXCEPT ![m] = [kind |-> k, from |-> u]]
       /\ OnInbound(m, k, u)
  /\ UNCHANGED linkVars

(* A click on the buttons of a mirrored prompt.                            *)
ClickButton(s, u) ==
  /\ s \in prompts /\ clicked < MaxPrompts /\ clicked' = clicked + 1
  /\ frames' = Append(frames, Click(s, u))
  /\ UNCHANGED <<msg, reading, linked, parked, turnVars, routeVars, settingVars,
                 deleted, released, edits, asked>>

(* The hub's task awaits the handler of a frame, which awaits the turns    *)
(* the frame starts.                                                       *)
HubIsFree ==
  /\ linked
  /\ reading.what = "message" =>
       fan[reading.m] = <<>> /\ \A s \in Sessions : turn[s] # reading.m
  /\ reading.what = "click" => turn[reading.s] # "clicked"

ReadMessage ==
  /\ HubIsFree /\ frames # <<>> /\ Head(frames).what = "message"
  /\ reading' = Head(frames) /\ frames' = Tail(frames)
  /\ LET m == Head(frames).m IN OnInbound(m, msg[m].kind, msg[m].from)
  /\ UNCHANGED <<msg, linked>>

(* _on_interaction, for an owner on the allow-list; resolve_inbox resumes  *)
(* a session whose turn no longer waits, inside the handler.               *)
ReadClick ==
  /\ HubIsFree /\ frames # <<>> /\ Head(frames).what = "click"
  /\ reading' = Head(frames) /\ frames' = Tail(frames)
  /\ LET s == Head(frames).s IN
     IF Head(frames).by \in allowed \cap Owners /\ s \in prompts
     THEN /\ prompts' = prompts \ {s} /\ waits' = waits \ {s}
          /\ turn' = IF turn[s] = Idle THEN [turn EXCEPT ![s] = "clicked"] ELSE turn
     ELSE UNCHANGED <<prompts, waits, turn>>
  /\ UNCHANGED <<msg, linked, parked, zombie, steer, thread, rows, routeVars,
                 settingVars, pastVars>>

(* The answer from the app's window or its Inbox.                          *)
AnswerInApp(s) ==
  /\ s \in prompts
  /\ prompts' = prompts \ {s} /\ waits' = waits \ {s}
  /\ turn' = IF turn[s] = Idle THEN [turn EXCEPT ![s] = "resumed"] ELSE turn
  /\ UNCHANGED <<msg, parked, zombie, steer, thread, rows, routeVars, settingVars,
                 linkVars, pastVars>>

-----------------------------------------------------------------------------
(* Turns. *)

ReadSteering(s) ==
  /\ turn[s] # Idle /\ s \notin waits \cup zombie /\ steer[s] # {}
  /\ thread' = [thread EXCEPT ![s] = @ \cup steer[s]]
  /\ steer' = [steer EXCEPT ![s] = {}]
  /\ UNCHANGED <<msg, parked, turn, zombie, prompts, waits, rows, routeVars,
                 settingVars, linkVars, pastVars>>

(* The turn reaches a prompt: an Inbox item, the session saved, the item   *)
(* mirrored.  A turn told to stop asks nothing.                            *)
Ask(s) ==
  /\ turn[s] # Idle /\ s \notin prompts \cup zombie
  /\ asked < MaxPrompts /\ asked' = asked + 1
  /\ prompts' = prompts \cup {s} /\ waits' = waits \cup {s}
  /\ rows' = rows \cup {s}
  /\ UNCHANGED <<msg, parked, turn, zombie, steer, thread, routeVars, settingVars,
                 linkVars, deleted, released, edits, clicked>>

(* The turn ends and saves its session, or raises and does not (and leaves *)
(* a dead letter, of a message that is in the transcript: not counted).    *)
EndTurn(s) ==
  /\ turn[s] # Idle /\ s \notin waits
  /\ turn' = [turn EXCEPT ![s] = Idle] /\ zombie' = zombie \ {s}
  /\ rows' = rows \cup {s} \/ UNCHANGED rows
  /\ UNCHANGED <<msg, parked, steer, thread, prompts, waits, routeVars, settingVars,
                 linkVars, pastVars>>

(* The fan-out goes on when the turn it awaits has ended.                  *)
FanOn(m) ==
  /\ fan[m] # <<>> /\ \A s \in Sessions : turn[s] # m
  /\ NextSubscriber(m, fan[m], due)
  /\ UNCHANGED <<msg, parked, zombie, prompts, waits, settingVars, linkVars, pastVars>>

-----------------------------------------------------------------------------
(* The user. *)

Edit == edits < MaxEdits /\ edits' = edits + 1

(* resolve_unauthorized: the item is taken first.  "allow" and             *)
(* "allow_deliver" put the sender on the list; the latter routes the       *)
(* message again, with no mark that it named the assistant.                *)
Decide(m) ==
  /\ m \in parked /\ parked' = parked \ {m}
  /\ \/ UNCHANGED <<allowed, turn, steer, thread, rows, routeVars, released>>
     \/ /\ allowed' = allowed \cup {msg[m].from}
        /\ UNCHANGED <<turn, steer, thread, rows, routeVars, released>>
     \/ /\ allowed' = allowed \cup {msg[m].from}
        /\ Dispatch(m, IF msg[m].kind = "dm" THEN "dm" ELSE "plain", msg[m].from)
        /\ released' = released \cup ({m} \cap {n \in Msgs : msg[n].kind = "tag"})
  /\ UNCHANGED <<msg, zombie, prompts, waits, subs, muted, dmSession, linkVars,
                 deleted, edits, asked, clicked>>

(* The subscribe tools run in a turn, and one that is in flight when the   *)
(* session is deleted still ends.                                          *)
Subscribe(s) ==
  /\ Edit /\ turn[s] # Idle /\ s \notin Range(subs) \cup waits
  /\ subs' = Append(subs, s)
  /\ UNCHANGED <<msg, parked, turnVars, routeVars, muted, dmSession, allowed,
                 linkVars, deleted, released, asked, clicked>>

Unsubscribe(s) ==
  /\ Edit /\ s \in Range(subs) /\ subs' = Kept(subs, Sessions \ {s})
  /\ UNCHANGED <<msg, parked, turnVars, routeVars, muted, dmSession, allowed,
                 linkVars, deleted, released, asked, clicked>>

Configure ==
  /\ Edit
  /\ \/ \E s \in rows : muted' = {s} /\ UNCHANGED dmSession
     \/ \E s \in rows : dmSession' = s /\ UNCHANGED muted
  /\ UNCHANGED <<msg, parked, turnVars, routeVars, subs, allowed, linkVars,
                 deleted, released, asked, clicked>>

Owned(s) == {c \in Chats : owner[c] = s}

(* delete_session: the engine is dropped and told to stop, the row, the    *)
(* subscriptions and the chats go, and the pending item is closed.  The    *)
(* designation for direct messages stays.                                  *)
Delete(s) ==
  /\ Edit /\ s \in rows
  /\ rows' = rows \ {s} /\ zombie' = IF turn[s] = Idle THEN zombie ELSE zombie \cup {s}
  /\ subs' = Kept(subs, Sessions \ {s})
  /\ owner' = [c \in Chats |-> IF c \in Owned(s) THEN None ELSE owner[c]]
  /\ prompts' = prompts \ {s} /\ waits' = waits \ {s}
  /\ steer' = [steer EXCEPT ![s] = {}] /\ thread' = [thread EXCEPT ![s] = {}]
  /\ due' = {d \in due : d[2] # s} /\ deleted' = deleted \cup {s}
  /\ UNCHANGED <<msg, parked, turn, fan, unrouted, born, muted, dmSession, allowed,
                 linkVars, released, asked, clicked>>

(* refresh_gateway, after a connector is connected or disconnected: the    *)
(* hub's task is cancelled in the middle of its frame, and a socket that   *)
(* does not open the first time is not tried again.                        *)
InHub(s) ==
  \/ reading.what = "message" /\ turn[s] = reading.m
  \/ reading.what = "click" /\ reading.s = s /\ turn[s] = "clicked"

Refresh ==
  /\ Edit
  /\ linked' \in BOOLEAN /\ reading' = NoFrame
  /\ turn' = [s \in Sessions |-> IF InHub(s) THEN Idle ELSE turn[s]]
  /\ waits' = {s \in waits : ~InHub(s)} /\ zombie' = {s \in zombie : ~InHub(s)}
  /\ fan' = [m \in Msgs |-> IF reading = Message(m) THEN <<>> ELSE fan[m]]
  /\ due' = {d \in due : ~(reading = Message(d[1]) /\ d[2] \in Range(fan[d[1]]))}
  /\ UNCHANGED <<msg, parked, steer, thread, prompts, rows, owner, unrouted, born,
                 settingVars, frames, deleted, released, asked, clicked>>

(* The process dies and starts again; it may die in a spawn, between the   *)
(* map's file and the store's row.                                         *)
Crash ==
  /\ Edit
  /\ \/ UNCHANGED <<owner, born>>
     \/ \E c \in Chats, s \in Sessions :
          /\ ~HasSession(c) /\ Fresh(s)
          /\ owner' = [owner EXCEPT ![c] = s] /\ born' = [born EXCEPT ![s] = c]
  /\ turn' = [s \in Sessions |-> Idle] /\ waits' = {} /\ zombie' = {}
  /\ steer' = [s \in Sessions |-> {}] /\ fan' = [m \in Msgs |-> <<>>]
  /\ reading' = NoFrame /\ linked' \in BOOLEAN
  /\ due' = {d \in due : turn[d[2]] = Idle /\ d[1] \in thread[d[2]]}
  /\ UNCHANGED <<msg, parked, thread, prompts, rows, unrouted, settingVars,
                 frames, deleted, released, asked, clicked>>

Next ==
  \/ \E m \in Msgs : SendByRelay(m) \/ SendDirectly(m) \/ FanOn(m) \/ Decide(m)
  \/ ReadMessage \/ ReadClick \/ Configure \/ Refresh \/ Crash
  \/ \E s \in Sessions :
       \/ AnswerInApp(s) \/ ReadSteering(s) \/ Ask(s) \/ EndTurn(s)
       \/ Subscribe(s) \/ Unsubscribe(s) \/ Delete(s)
       \/ \E u \in Relayed : ClickButton(s, u)

Spec == Init /\ [][Next]_vars

(* The loop runs what is ready: the hub reads, and a turn that does not    *)
(* wait for an answer comes to an end.  People need not act.               *)
FairSpec ==
  /\ Spec /\ WF_vars(ReadMessage) /\ WF_vars(ReadClick)
  /\ \A m \in Msgs : WF_vars(FanOn(m))
  /\ \A s \in Sessions : WF_vars(EndTurn(s))

-----------------------------------------------------------------------------
(* Properties. *)

(* A message owed to a session (a subscriber when it came, the chat's own, *)
(* the designated one) is in its transcript, queued on its engine, still   *)
(* to come in the fan-out, or a dead letter: it vanishes by a mute, the    *)
(* session's deletion, a crash or a reload only, which end the debt.       *)
NothingIsDropped ==
  \A d \in due :
    \/ d[1] \in thread[d[2]] \cup steer[d[2]]
    \/ d[2] \in Range(fan[d[1]]) \/ d \in unrouted

(* A thread or a contact has one session: none was spawned while another   *)
(* one for the same chat was in the store, unless the user deleted it and  *)
(* its last turn brought it back.                                          *)
OneSessionPerChat ==
  \A s, t \in rows \ deleted :
    born[s] # None /\ born[s] = born[t] => s = t

(* What the comment in delete_session calls the one implicit unsubscribe:  *)
(* nothing is delivered to a deleted session.  The code breaks it: the     *)
(* fan-out goes on with the list it took before.                           *)
DeletedHearsNothing ==
  [][\A s \in deleted : thread'[s] \cup steer'[s] = thread[s] \cup steer[s]]_vars

(* A click by an owner on a mirrored prompt ends the wait.  The code       *)
(* breaks it when the prompt belongs to a turn that a frame started.       *)
ClickIsHeard ==
  \A s \in Sessions, u \in Owners :
    (Click(s, u) \in Range(frames) /\ u \in allowed /\ linked) ~> (s \notin waits)

(* A message released by "allow and deliver" is routed as if it had just   *)
(* arrived: a tag reaches a session.  The code breaks it.                  *)
ReleasedTagIsRouted ==
  \A m \in released : (\E s \in Sessions : <<m, s>> \in due) \/ deleted # {}

=============================================================================
