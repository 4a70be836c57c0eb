---------------------------- MODULE ClaudeWatch ----------------------------
(***************************************************************************)
(* The bridge to Claude Code sessions in the user's terminals: the hook    *)
(* that writes a state file per session, the watcher that polls the files  *)
(* and sends a notice for a watched session, the one-shot watches, and the *)
(* two calls by which the agent answers a session's permission prompt.     *)
(*                                                                         *)
(* The terminal sessions are external: their hook fires when a turn stops, *)
(* when a prompt is shown and when the session ends, and at no other time. *)
(***************************************************************************)
EXTENDS Naturals, Sequences, FiniteSets

CONSTANTS
  Terminals,    \* Claude Code sessions
  Texts,        \* texts of permission prompts
  MaxEvents,    \* bound: events of the terminals
  MaxFailures,  \* bound: sends that fail
  MaxWatches    \* bound: watches and answers the agent is asked for

(* What the constants are; Services assumes it. *)
ClaudeWatchAssumption ==
  /\ MaxEvents \in Nat /\ MaxFailures \in Nat /\ MaxWatches \in Nat
  /\ IsFiniteSet(Terminals)

None == "none"
NoFile == [status |-> "gone", text |-> None]
States == {NoFile} \cup [status : {"idle", "ended"}, text : {None}]
          \cup [status : {"waiting_approval"}, text : Texts]

VARIABLES
  real,      (* what the session is doing *)
  shown,     (* the prompt it shows: its text and its number *)
  file,      (* the session's state file, as the hook wrote it *)
  watch,     (* the watched sessions, durable *)
  notified,  (* the state a session's last notice was about, in memory *)
  poll,      (* what is left of the watcher's poll: states it has read *)
  sending,   (* the notice being sent *)
  answer,    (* the agent's answer to a prompt, from the check to the key *)
  promised,  (* history: turns that have to end before "finished" is true *)
  stale,     (* history: those watched while an old "idle" was to be read *)
  wanted,    (* history: watches neither cancelled nor fulfilled by a notice *)
  false,     (* history: sessions said to be finished that were not *)
  pressed,   (* history: the last key pressed: for which text, on which prompt *)
  events, failures, asks

vars == <<real, shown, file, watch, notified, poll, sending, answer, promised,
          stale, wanted, false, pressed, events, failures, asks>>
terminalVars == <<real, shown, file>>
watcherVars == <<notified, poll, sending>>
historyVars == <<promised, stale, wanted, false, pressed>>

Alive(s) == real[s] \in {"idle", "running", "asking"}
Nothing == [s |-> None, kind |-> None, state |-> NoFile]
NoAnswer == [phase |-> None, s |-> None, text |-> None, nr |-> 0]
NoKey == [confirmed |-> None, text |-> None, checked |-> 0, nr |-> 0]

TypeOK ==
  /\ real \in [Terminals -> {"idle", "running", "asking", "dead"}]
  /\ shown \in [Terminals -> [text : Texts \cup {None}, nr : 0..MaxEvents]]
  /\ file \in [Terminals -> States] /\ watch \subseteq Terminals
  /\ notified \in [Terminals -> States]
  /\ \A i \in DOMAIN poll : poll[i].s \in Terminals /\ poll[i].state \in States
  /\ sending.s \in Terminals \cup {None}
  /\ answer.phase \in {None, "token", "key"}
  /\ promised \subseteq Terminals /\ stale \subseteq Terminals
  /\ wanted \subseteq Terminals /\ false \subseteq Terminals
  /\ events \in 0..MaxEvents /\ failures \in 0..MaxFailures /\ asks \in 0..MaxWatches

Init ==
  /\ real = [s \in Terminals |-> "idle"]
  /\ shown = [s \in Terminals |-> [text |-> None, nr |-> 0]]
  /\ file \in [Terminals -> {NoFile, [status |-> "idle", text |-> None]}]
  /\ watch = {} /\ notified = [s \in Terminals |-> NoFile] /\ poll = <<>>
  /\ sending = Nothing /\ answer = NoAnswer /\ promised = {} /\ stale = {}
  /\ wanted = {} /\ false = {} /\ pressed = NoKey /\ events = 0 /\ failures = 0 /\ asks = 0

-----------------------------------------------------------------------------
(* The terminals and the hook. *)

Event(s) == events < MaxEvents /\ events' = events + 1 /\ Alive(s)

(* The hook replaces the session's file by one rename.                     *)
Hook(s, status, text) ==
  file' = [file EXCEPT ![s] = [status |-> status, text |-> text]]

(* The user types; no hook fires.                                          *)
StartTurn(s) ==
  /\ Event(s) /\ real[s] = "idle"
  /\ real' = [real EXCEPT ![s] = "running"]
  /\ UNCHANGED <<shown, file, promised>>

ShowPrompt(s) ==
  /\ Event(s) /\ real[s] = "running"
  /\ real' = [real EXCEPT ![s] = "asking"]
  /\ \E t \in Texts :
       /\ shown' = [shown EXCEPT ![s] = [text |-> t, nr |-> events']]
       /\ Hook(s, "waiting_approval", t)
  /\ UNCHANGED promised

(* The user answers in the terminal; no hook fires.                        *)
AnswerThere(s) ==
  /\ Event(s) /\ real[s] = "asking"
  /\ real' = [real EXCEPT ![s] = "running"]
  /\ UNCHANGED <<shown, file, promised>>

StopTurn(s) ==
  /\ Event(s) /\ real[s] = "running"
  /\ real' = [real EXCEPT ![s] = "idle"]
  /\ Hook(s, "idle", None) /\ promised' = promised \ {s}
  /\ UNCHANGED shown

(* The session ends, with its hook or, killed, without.                    *)
EndSession(s) ==
  /\ Event(s)
  /\ real' = [real EXCEPT ![s] = "dead"]
  /\ Hook(s, "ended", None) \/ UNCHANGED file
  /\ UNCHANGED <<shown, promised>>

Terminal ==
  /\ \E s \in Terminals :
       StartTurn(s) \/ ShowPrompt(s) \/ AnswerThere(s) \/ StopTurn(s) \/ EndSession(s)
  /\ UNCHANGED <<watch, watcherVars, answer, stale, wanted, false, pressed,
                 failures, asks>>

-----------------------------------------------------------------------------
(* The watcher's poll. *)

Entries(S) ==  (* the files of the sessions S, in the order of their names *)
  {q \in [1..Cardinality(S) -> {[s |-> s, state |-> file[s]] : s \in S}] :
     \A s \in S : \E i \in DOMAIN q : q[i].s = s}

HasFile == {s \in Terminals : file[s] # NoFile}

(* prune: the files of sessions that ended or whose process is gone are    *)
(* removed; then what it removed, and the files that are left, are read.   *)
Prune ==
  /\ poll = <<>> /\ sending = Nothing
  /\ LET gone == {s \in HasFile : ~Alive(s) \/ file[s].status = "ended"}
     IN  /\ gone # {}
         /\ file' = [s \in Terminals |-> IF s \in gone THEN NoFile ELSE file[s]]
         /\ \E q \in Entries(gone) :
              poll' = [i \in DOMAIN q |-> [s |-> q[i].s, state |-> NoFile]]
  /\ UNCHANGED <<real, shown, watch, notified, sending, answer, historyVars,
                 events, failures, asks>>

ReadFiles ==
  /\ poll = <<>> /\ sending = Nothing
  /\ \A s \in HasFile : Alive(s) /\ file[s].status # "ended"
  /\ HasFile # {} /\ \E q \in Entries(HasFile) : poll' = q
  /\ UNCHANGED <<terminalVars, watch, notified, sending, answer, historyVars,
                 events, failures, asks>>

(* A notice is due: of a removed session, of one that is idle, or of one   *)
(* that waits at a prompt, unless the last notice said the same.           *)
Due(s, state) ==
  s \in watch /\ (state = NoFile \/ notified[s] # state)

Look ==
  /\ poll # <<>> /\ sending = Nothing
  /\ LET e == Head(poll) IN
     IF Due(e.s, e.state)
     THEN /\ sending' = [s |-> e.s, kind |-> e.state.status, state |-> e.state]
          /\ UNCHANGED <<poll, notified>>
     ELSE /\ notified' = IF e.s \in watch THEN notified
                         ELSE [notified EXCEPT ![e.s] = NoFile]
          /\ poll' = Tail(poll) /\ UNCHANGED sending
  /\ UNCHANGED <<terminalVars, watch, answer, historyVars, events, failures, asks>>

(* A mutant: the watch is consumed whether or not the send went through.   *)
ConsumesAnyway(kind, ok) == kind # "waiting_approval"

(* The send returns.  A delivered "finished" or "closed" consumes the      *)
(* watch; a removed session is not looked at again, delivered or not.      *)
Consumes(kind, ok) == ok /\ kind # "waiting_approval"

Sent ==
  /\ sending # Nothing /\ sending' = Nothing /\ poll' = Tail(poll)
  /\ \E ok \in BOOLEAN :
       LET s == sending.s
           final == sending.kind # "waiting_approval"
       IN
       /\ failures' = IF ok THEN failures ELSE failures + 1
       /\ failures' <= MaxFailures
       /\ watch' = IF Consumes(sending.kind, ok) THEN watch \ {s} ELSE watch
       /\ notified' =
            IF sending.kind = "gone" THEN [notified EXCEPT ![s] = NoFile]
            ELSE IF ok THEN [notified EXCEPT ![s] = sending.state] ELSE notified
       /\ wanted' = IF ok /\ final THEN wanted \ {s} ELSE wanted
       /\ false' = IF ok /\ sending.kind = "idle" THEN false \cup ({s} \cap promised)
                   ELSE false
  /\ UNCHANGED <<terminalVars, answer, promised, stale, pressed, events, asks>>

(* The server stops and starts: what it had sent is forgotten, and a       *)
(* notice in flight may have gone out.                                     *)
Restart ==
  /\ failures < MaxFailures /\ failures' = failures + 1
  /\ notified' = [s \in Terminals |-> NoFile] /\ poll' = <<>> /\ sending' = Nothing
  /\ answer' = NoAnswer
  /\ UNCHANGED <<terminalVars, watch, historyVars, events, asks>>

-----------------------------------------------------------------------------
(* The agent's tools: they see the sessions whose process is alive and     *)
(* which have a file. *)

Known(s) == Alive(s) /\ file[s] # NoFile
AskedFor == asks < MaxWatches /\ asks' = asks + 1

OldIdle(s) == \E i \in DOMAIN poll : poll[i].s = s /\ poll[i].state.status = "idle"

(* watch_claude_session: from here on the user waits for the current work  *)
(* to finish.                                                              *)
Watch(s) ==
  /\ AskedFor /\ Known(s) /\ s \notin watch
  /\ watch' = watch \cup {s} /\ wanted' = wanted \cup {s}
  /\ promised' = IF real[s] = "idle" THEN promised \ {s} ELSE promised \cup {s}
  /\ stale' = IF file[s].status = "idle" \/ OldIdle(s)
              THEN stale \cup {s} ELSE stale \ {s}
  /\ false' = false \ {s}
  /\ UNCHANGED <<terminalVars, watcherVars, answer, pressed, events, failures>>

Unwatch(s) ==
  /\ AskedFor /\ Known(s) /\ s \in watch
  /\ watch' = watch \ {s} /\ wanted' = wanted \ {s}
  /\ UNCHANGED <<terminalVars, watcherVars, answer, promised, stale, false, pressed,
                 events, failures>>

(* respond_to_claude_prompt without a token: the prompt's text, shown to   *)
(* the user, and a token made of the session and that text.                *)
AskToken(s) ==
  /\ AskedFor /\ answer = NoAnswer /\ Known(s) /\ file[s].status = "waiting_approval"
  /\ answer' = [phase |-> "token", s |-> s, text |-> file[s].text, nr |-> 0]
  /\ UNCHANGED <<terminalVars, watch, watcherVars, historyVars, events, failures>>

(* A mutant: the token is not compared.                                    *)
MatchesAny(s, text) == Known(s) /\ file[s].status = "waiting_approval"

(* With the token: the file must still say that the session waits, with    *)
(* the same text.                                                          *)
Matches(s, text) == Known(s) /\ file[s].status = "waiting_approval" /\ file[s].text = text

Confirm ==
  /\ answer.phase = "token"
  /\ answer' = IF Matches(answer.s, answer.text)
               THEN [answer EXCEPT !.phase = "key", !.nr = shown[answer.s].nr]
               ELSE NoAnswer
  /\ UNCHANGED <<terminalVars, watch, watcherVars, historyVars, events, failures, asks>>

(* The key is typed into the terminal, whatever it shows by then.          *)
PressKey ==
  /\ answer.phase = "key" /\ answer' = NoAnswer
  /\ LET s == answer.s
         asking == real[s] = "asking"
     IN  /\ real' = IF asking THEN [real EXCEPT ![s] = "running"] ELSE real
         /\ pressed' = IF asking THEN [confirmed |-> answer.text, text |-> shown[s].text,
                                       checked |-> answer.nr, nr |-> shown[s].nr]
                       ELSE pressed
  /\ UNCHANGED <<shown, file, watch, watcherVars, promised, stale, wanted, false,
                 events, failures, asks>>

Agent ==
  \/ \E s \in Terminals : Watch(s) \/ Unwatch(s) \/ AskToken(s)
  \/ Confirm \/ PressKey

Next == Terminal \/ Prune \/ ReadFiles \/ Look \/ Sent \/ Restart \/ Agent

Spec == Init /\ [][Next]_vars

-----------------------------------------------------------------------------
(* Properties. *)

(* What the watcher promises, through failed sends, restarts and tool      *)
(* calls in the middle of a poll: a watch ends only by the user's word or  *)
(* by a notice that was delivered; "finished" is said of unfinished work   *)
(* only when an older "idle" was still to be read when the watch was set;  *)
(* and a prompt other than the one the user confirmed is answered only if  *)
(* it came up after the check.                                             *)
WatchIsKept == wanted \subseteq watch
FinishedOrStale == false \subseteq stale
WrongOnlyIfChanged ==
  pressed.text # pressed.confirmed => pressed.nr # pressed.checked
WatcherKeepsFaith == WatchIsKept /\ FinishedOrStale /\ WrongOnlyIfChanged

(* What the comment of _prompt_token says: the wrong command cannot be     *)
(* approved.  The code breaks it: the prompt may change between the check  *)
(* and the key.                                                            *)
ConfirmedIsPressed == pressed.text = pressed.confirmed

=============================================================================
