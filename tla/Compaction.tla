----------------------------- MODULE Compaction -----------------------------
(***************************************************************************)
(* Auto-compaction of a session's history (compaction.py) as the engine    *)
(* drives it (engine._compact_now): the messages before a boundary are     *)
(* represented by a summary and by the user's own words, the rest is sent  *)
(* verbatim.  The boundary is an index into the canonical messages; it is  *)
(* saved with the session, whose messages the store may repair on load.    *)
(*                                                                         *)
(* A message weighs one token.  A reply calls at most one tool, so a block *)
(* and its result are two messages.                                        *)
(***************************************************************************)
EXTENDS Integers, Sequences, FiniteSets, SequencesExt, FiniteSetsExt, Kept

CONSTANTS
  MaxMsgs,     (* bound: messages of the session                           *)
  Trigger,     (* trigger_tokens: the view that is due for compaction      *)
  KeepTokens,  (* the newest slice kept verbatim                           *)
  UsersMax,    (* _USER_MESSAGES_MAX                                       *)
  MaxCrashes   (* bound: process deaths                                    *)

(* What the constants are; Engine assumes it. *)
CompactionAssumption ==
  /\ {MaxMsgs, MaxCrashes} \subseteq Nat
  /\ {Trigger, KeepTokens, UsersMax} \subseteq Nat \ {0}

VARIABLES
  messages,  (* engine.messages                                            *)
  state,     (* engine.compaction_state                                    *)
  disk,      (* the session as saved: its messages and its state           *)
  step,      (* where the run is                                           *)
  serial,    (* messages made so far; names the next one                   *)
  covered,   (* history: messages some summary or trim accounted for       *)
  shifted,   (* history: a repair inserted messages below a saved boundary *)
  deaths     (* process deaths so far                                      *)

compactionVars == <<messages, state, disk, step, serial, covered, shifted, deaths>>

Steps == {"idle", "top", "streaming", "calling"}
Roles == {"system", "user", "text", "call", "tool", "notice"}

Msg(role, n) == [role |-> role, n |-> n]
IsReply(m) == m.role \in {"text", "call"}

(* CompactionState: None is a boundary of 0. *)
NoState == [boundary |-> 0, users |-> <<>>, dropped |-> 0]

-----------------------------------------------------------------------------
(* The boundary: a number of messages that come before it. *)

Prefix(ms, b) == SubSeq(ms, 1, b)
Suffix(ms, b) == SubSeq(ms, b + 1, Len(ms))

(* Boundaries just before a message of one of these roles, past the system *)
(* message.                                                                *)
Before(ms, roles) == {b \in 1..(Len(ms) - 1) : ms[b + 1].role \in roles}

Least(S) == CHOOSE x \in S : \A y \in S : x <= y
Greatest(S) == CHOOSE x \in S : \A y \in S : y <= x
Fitting(ms, S) == {b \in S : Len(ms) - b <= KeepTokens}

(* pick_boundary; 0 for None.  The earliest user message whose suffix fits,*)
(* else a cut inside the newest turn, else before the newest reply.        *)
PickBoundary(ms) ==
  LET users   == Before(ms, {"user"})
      replies == Before(ms, {"text", "call"})
      inside  == {b \in replies : users # {} /\ b > Greatest(users)}
      source  == IF users # {} THEN inside ELSE replies
      b       == IF Fitting(ms, users) # {} THEN Least(Fitting(ms, users))
                 ELSE IF Fitting(ms, source) # {} THEN Least(Fitting(ms, source))
                 ELSE IF source # {} THEN Greatest(source)
                 ELSE IF users # {} THEN Greatest(users) ELSE 0
  IN IF b <= 1 THEN 0 ELSE b

FromUser == [role : {"user"}, n : Nat]

(* extract_user_messages *)
Said(span) == [i \in DOMAIN Kept(span, FromUser) |-> Kept(span, FromUser)[i].n]

(* Mutant of UsersAfter: the list starts over at each compaction. *)
UsersAfresh(s, span) ==
  [boundary |-> s.boundary + Len(span), users |-> Said(span), dropped |-> 0]

(* _cap_user_messages *)
UsersAfter(s, span) ==
  LET all  == s.users \o Said(span)
      over == IF Len(all) > UsersMax THEN Len(all) - UsersMax ELSE 0
  IN [boundary |-> s.boundary + Len(span),
      users    |-> SubSeq(all, over + 1, Len(all)),
      dropped  |-> s.dropped + over]

(* build_state and trim_state end alike: the span from the prior boundary  *)
(* to the new one is accounted for.                                        *)
MoveTo(b) ==
  LET span == SubSeq(messages, state.boundary + 1, b)
  IN /\ state' = UsersAfter(state, span)
     /\ covered' = covered \cup ToSet(span)

(* Mutant of Buildable: a boundary at the prior one is taken. *)
BuildableAgain == PickBoundary(messages) # 0

(* build_state has something to summarize. *)
Buildable ==
  /\ PickBoundary(messages) # 0
  /\ PickBoundary(messages) > state.boundary

(* trim_state: past a tenth of the view, at the next user message or       *)
(* reply; 0 for None.                                                      *)
TrimBoundary ==
  LET remaining == Len(messages) - state.boundary
      target    == state.boundary + Max({1, remaining \div 10})
      heads     == {b \in Before(messages, {"user", "text", "call"}) : b >= target}
  IN IF remaining <= 2 \/ heads = {} THEN 0 ELSE Least(heads)

-----------------------------------------------------------------------------
(* What the provider is sent. *)

(* apply_to_outbound, notices dropped: the verbatim tail after the block,  *)
(* or everything when the state is absent or stale.                        *)
InView == state.boundary > 0 /\ state.boundary < Len(messages)
ViewTail == IF InView THEN Suffix(messages, state.boundary) ELSE messages
Outbound == SelectSeq(ViewTail, LAMBDA m : m.role # "notice")

Due == Len(Outbound) >= Trigger

-----------------------------------------------------------------------------
(* The session store. *)

(* _repair_tool_pairing: a call with no result gets one, unless it is the  *)
(* last message.                                                           *)
Lost(ms, i) ==
  /\ ms[i].role = "call"
  /\ i < Len(ms)
  /\ \A j \in DOMAIN ms : ~(ms[j].role = "tool" /\ ms[j].n = ms[i].n)

Repaired(ms) ==
  FlattenSeq([i \in DOMAIN ms |-> IF Lost(ms, i) THEN <<ms[i], Msg("tool", ms[i].n)>>
                                                 ELSE <<ms[i]>>])

Save(ms, s) == disk' = [messages |-> ms, state |-> s]

-----------------------------------------------------------------------------
(* A turn. *)

Room == Len(messages) + 2 <= MaxMsgs

(* A user message; the turn_start checkpoint saves it. *)
Send ==
  /\ step = "idle"
  /\ Room
  /\ messages' = Append(messages, Msg("user", serial))
  /\ serial' = serial + 1
  /\ Save(messages', state)
  /\ step' = "top"
  /\ UNCHANGED <<state, covered, shifted, deaths>>

(* The checkpoint of _loop: nothing due, or nothing to summarize. *)
NoCompaction ==
  /\ step = "top"
  /\ Due => ~Buildable
  /\ step' = "streaming"
  /\ UNCHANGED <<messages, state, disk, serial, covered, shifted, deaths>>

Notice == messages' = Append(messages, Msg("notice", serial)) /\ serial' = serial + 1

(* The summarizer answered, in one of its two attempts or after a Retry.   *)
Summarize ==
  /\ step = "top"
  /\ Due /\ Buildable /\ Room
  /\ MoveTo(PickBoundary(messages))
  /\ Notice
  /\ step' = "streaming"
  /\ UNCHANGED <<disk, shifted, deaths>>

(* It failed twice: trim, when that can be done. *)
TrimAfterFailure ==
  /\ step = "top"
  /\ Due /\ Buildable /\ Room
  /\ IF TrimBoundary = 0 THEN UNCHANGED <<state, covered, messages, serial>>
                         ELSE MoveTo(TrimBoundary) /\ Notice
  /\ step' = "streaming"
  /\ UNCHANGED <<disk, shifted, deaths>>

(* The provider rejects the view as too long: compact or trim by force and *)
(* go round again, or fail the turn when neither moves the boundary.       *)
Overflow ==
  /\ step = "streaming"
  /\ Room
  /\ \/ /\ Buildable
        /\ MoveTo(PickBoundary(messages))
        /\ Notice
        /\ step' = "top"
        /\ UNCHANGED disk
     \/ /\ TrimBoundary # 0
        /\ MoveTo(TrimBoundary)
        /\ Notice
        /\ step' = "top"
        /\ UNCHANGED disk
     \/ /\ TrimBoundary = 0
        /\ Notice
        /\ Save(messages', state)
        /\ step' = "idle"
        /\ UNCHANGED <<state, covered>>
  /\ UNCHANGED <<shifted, deaths>>

(* A reply of text ends the turn. *)
ReplyText ==
  /\ step = "streaming"
  /\ Room
  /\ messages' = Append(messages, Msg("text", serial))
  /\ serial' = serial + 1
  /\ Save(messages', state)
  /\ step' = "idle"
  /\ UNCHANGED <<state, covered, shifted, deaths>>

(* A tool call; a prompt for it saves the thread with the call open. *)
ReplyCall ==
  /\ step = "streaming"
  /\ Room
  /\ messages' = Append(messages, Msg("call", serial))
  /\ serial' = serial + 1
  /\ Save(messages', state)
  /\ step' = "calling"
  /\ UNCHANGED <<state, covered, shifted, deaths>>

(* Its result, and the iteration_end checkpoint. *)
ToolResult ==
  /\ step = "calling"
  /\ messages' = Append(messages, Msg("tool", messages[Len(messages)].n))
  /\ Save(messages', state)
  /\ step' = "top"
  /\ UNCHANGED <<state, serial, covered, shifted, deaths>>

(* The process dies; the next one loads the session.  The store repairs    *)
(* the messages, and the state is taken as it was saved.                   *)
Restart ==
  /\ deaths < MaxCrashes
  /\ deaths' = deaths + 1
  /\ messages' = Repaired(disk.messages)
  /\ state' = disk.state
  /\ Save(messages', disk.state)
  /\ step' = "idle"
  /\ shifted' = (shifted \/ \E i \in 1..disk.state.boundary : Lost(disk.messages, i))
  /\ UNCHANGED <<serial, covered>>

-----------------------------------------------------------------------------

Init ==
  /\ messages = <<Msg("system", 0)>>
  /\ state = NoState
  /\ disk = [messages |-> messages, state |-> NoState]
  /\ step = "idle"
  /\ serial = 1
  /\ covered = {}
  /\ shifted = FALSE
  /\ deaths = 0

Next ==
  \/ Send \/ NoCompaction \/ Summarize \/ TrimAfterFailure \/ Overflow
  \/ ReplyText \/ ReplyCall \/ ToolResult \/ Restart

Spec == Init /\ [][Next]_compactionVars

-----------------------------------------------------------------------------
(* Properties. *)

Message == [role : Roles, n : Nat]
StateRecord == [boundary : Nat, users : Seq(Nat), dropped : Nat]

(* The values each variable ranges over. *)
TypeOK ==
  /\ messages \in Seq(Message)
  /\ state \in StateRecord
  /\ disk \in [messages : Seq(Message), state : StateRecord]
  /\ step \in Steps
  /\ serial \in Nat
  /\ covered \subseteq Message
  /\ shifted \in BOOLEAN
  /\ deaths \in 0..MaxCrashes

(* _turn_starts: "a tool message must never head the outbound view".       *)
(* The boundary keeps that through summaries, trims, overflows and         *)
(* restarts, as long as no repair has moved the messages under it.         *)
HeadIsLegal == InView /\ ~shifted => messages[state.boundary + 1].role # "tool"

UsersIn(ms) == {i \in DOMAIN ms : ms[i].role = "user"}

(* No message leaves the view without being summarized or trimmed by name, *)
(* and the user's own words are all kept or counted.                       *)
NothingVanishes ==
  /\ \A i \in 1..Min({state.boundary, Len(messages)}) :
        messages[i] \in covered \/ shifted
  /\ ~shifted => Len(state.users) + state.dropped
                   = Cardinality(UsersIn(Prefix(messages, state.boundary)))

(* The boundary only moves forward, and an overflow that goes round again  *)
(* has moved it: a model that keeps overflowing ends in the error path.    *)
BoundaryAdvances ==
  /\ state' # state /\ deaths' = deaths => state'.boundary > state.boundary
  /\ step = "streaming" /\ step' = "top" => state'.boundary > state.boundary

(* What the documentation says and the code does not do. *)

(* The same without the exception: a repair that inserts a lost result     *)
(* below a saved boundary leaves the boundary on the message before.       *)
HeadIsAlwaysLegal == InView => messages[state.boundary + 1].role # "tool"

=============================================================================
