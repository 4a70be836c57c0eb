----------------------------- MODULE Transcript -----------------------------
(***************************************************************************)
(* The conversation log (conversations.py): a file of one message a line,  *)
(* saved by appending the lines the file is short of, and repaired when it *)
(* is loaded.  One session, with the messages its engine keeps in memory   *)
(* (engine.py), writes cut short by a crash or a full disk, restarts, and  *)
(* the Inbox page, which loads the log of a session that is running.       *)
(***************************************************************************)
EXTENDS Threads, FiniteSets, Kept

CONSTANTS
  MaxMsgs,    (* bound: messages in memory                                 *)
  MaxCuts     (* bound: writes cut short                                   *)

(* What the constants are; Engine assumes it. *)
TranscriptAssumption == {MaxMsgs, MaxCuts} \subseteq Nat

VARIABLES
  up,        (* the session's engine is in memory                          *)
  turn,      (* its turn: none, running, a last reply to look at, over     *)
  msgs,      (* engine.messages                                            *)
  disk,      (* the file: its lines, and whether the last one is closed    *)
  cuts,      (* writes cut so far                                          *)
  saved,     (* history: the messages at the last save that returned       *)
  meddled    (* history: a load changed the log under a running engine     *)

vars == <<up, turn, msgs, disk, cuts, saved, meddled>>

-----------------------------------------------------------------------------
(* The file. *)

(* A line that is no message: cut, or JSON of another kind.                *)
Torn == [role |-> "torn", calls |-> <<>>, real |-> FALSE]

File(lines) == [lines |-> lines, closed |-> TRUE]

Blocks == {<<>>} \cup {<<c>> : c \in Calls}
            \cup {<<p[1], p[2]>> : p \in {q \in Calls \X Calls : q[1] # q[2]}}

Spoken == {User, Notice} \cup {Assistant(cs) : cs \in Blocks}
Messages ==
  Spoken \cup {Result(c) : c \in Calls} \cup {Placeholder(c) : c \in Calls}

(* Mutant of Parsed: a line that is no message is handed out as one. *)
ParsedWhole(d) == d.lines

(* _read_jsonl_lines: what is no message is skipped. *)
Parsed(d) == Kept(d.lines, Messages)

(* Mutant of Stored: the torn line counts as a line. *)
StoredByCount(d, ms) ==
  LET n == Len(d.lines)
  IN IF Len(ms) > n THEN File(d.lines \o SubSeq(ms, n + 1, Len(ms)))
     ELSE IF Len(ms) < n THEN File(ms) ELSE d

(* ConversationStore.save: a file that ends in an open line is written     *)
(* anew; else the lines are counted, and the missing ones appended.        *)
Stored(d, ms) ==
  LET n == Len(d.lines)
  IN CASE ~d.closed \/ Len(ms) < n -> File(ms)
       [] d.closed /\ Len(ms) > n  -> File(d.lines \o SubSeq(ms, n + 1, Len(ms)))
       [] OTHER                    -> d

(* What an append cut short leaves: some whole lines, then part of one, or *)
(* a line without its end.  A rewrite goes to another file: it leaves d.   *)
Cut(d, ms) ==
  LET n == Len(d.lines)
      part(k) == d.lines \o SubSeq(ms, n + 1, n + k)
      more == 0 .. Len(ms) - n - 1
  IN IF ~d.closed \/ Len(ms) <= n THEN {d}
     ELSE {File(part(k)) : k \in more}
            \cup {[lines |-> part(k + 1), closed |-> FALSE] : k \in more}
            \cup {[lines |-> Append(part(k), Torn), closed |-> FALSE] : k \in more}

(* A save of the messages `ms` that returns, and one that does not. *)
Saves(ms) ==
  /\ disk' = Stored(disk, ms)
  /\ saved' = ms
  /\ UNCHANGED cuts

IsCut(ms) ==
  /\ cuts < MaxCuts
  /\ cuts' = cuts + 1
  /\ disk' \in Cut(disk, ms)
  /\ UNCHANGED saved

Save(ms) == Saves(ms) \/ IsCut(ms)

(* Mutant of Reread: the file keeps what was skipped or repaired. *)
RereadOnly(d) == d

(* ConversationStore.load writes back what it hands out when they differ. *)
Reread(d) == IF Repaired(Parsed(d)) = d.lines THEN d ELSE File(Repaired(Parsed(d)))

-----------------------------------------------------------------------------
(* The session. *)

(* get_engine: the engine starts from the loaded log. *)
Open ==
  /\ ~up
  /\ up' = TRUE
  /\ turn' = "none"
  /\ msgs' = Repaired(Parsed(disk))
  /\ saved' = msgs'
  /\ disk' = Reread(disk)
  /\ UNCHANGED <<cuts, meddled>>

Room == Len(msgs) < MaxMsgs

(* A user message; it joins the thread whatever was unanswered. *)
Send ==
  /\ up /\ turn = "none" /\ Room
  /\ turn' = "running"
  /\ msgs' = Append(msgs, User)
  /\ UNCHANGED <<up, disk, cuts, saved, meddled>>

(* resume() of a thread that ends in a prompt. *)
Resume ==
  /\ up /\ turn = "none"
  /\ Unanswered(msgs) # {}
  /\ turn' = "running"
  /\ UNCHANGED <<up, msgs, disk, cuts, saved, meddled>>

(* _apply_model on an idle session: the notice is saved at once. *)
SwitchModel ==
  /\ up /\ turn = "none" /\ Room /\ msgs # <<>>
  /\ msgs' = Append(msgs, Notice)
  /\ Save(msgs')
  /\ UNCHANGED <<up, turn, meddled>>

(* The model replies, with tool calls or with its last word.  It rejects a *)
(* thread with an unanswered call.                                         *)
Reply(cs) ==
  /\ up /\ turn = "running" /\ Room
  /\ IssuedIn(msgs) \subseteq AnsweredIn(msgs)
  /\ ToSet(cs) \cap (IssuedIn(msgs) \cup IssuedIn(Parsed(disk))) = {}
  /\ msgs' = Append(msgs, Assistant(cs))
  /\ turn' = IF cs = <<>> THEN "replied" ELSE "running"
  /\ UNCHANGED <<up, disk, cuts, saved, meddled>>

(* A call of the last block gets its result. *)
Answer(c) ==
  /\ up /\ turn = "running" /\ Room
  /\ c \in Unanswered(msgs)
  /\ msgs' = Append(msgs, Result(c))
  /\ UNCHANGED <<up, turn, disk, cuts, saved, meddled>>

(* A last word that is half a tool call is taken back, and a notice takes  *)
(* its place.                                                              *)
Unparsed ==
  /\ up /\ turn = "replied"
  /\ msgs' = Append(Front(msgs), Notice)
  /\ turn' = "over"
  /\ UNCHANGED <<up, disk, cuts, saved, meddled>>

(* The turn errs or is stopped between blocks. *)
Fail ==
  /\ up /\ turn = "running" /\ Room
  /\ Unanswered(msgs) = {}
  /\ msgs' = Append(msgs, Notice)
  /\ turn' = "over"
  /\ UNCHANGED <<up, disk, cuts, saved, meddled>>

(* A checkpoint: the turn's start, the end of a block, a prompt.  One that *)
(* is cut raises out of the turn.                                          *)
Checkpoint ==
  /\ up /\ turn = "running"
  /\ \/ Saves(msgs) /\ UNCHANGED turn
     \/ IsCut(msgs) /\ turn' = "over"
  /\ UNCHANGED <<up, msgs, meddled>>

(* The last save of a turn. *)
EndTurn ==
  /\ up /\ turn \in {"replied", "over"}
  /\ turn' = "none"
  /\ Save(msgs)
  /\ UNCHANGED <<up, msgs, meddled>>

(* A background turn, or a resumed one, that raises is not saved. *)
Raise ==
  /\ up /\ turn = "running"
  /\ turn' = "none"
  /\ UNCHANGED <<up, msgs, disk, cuts, saved, meddled>>

(* GET /v1/inbox loads the log of every session with an item. *)
Poll ==
  /\ disk' = Reread(disk)
  /\ meddled' = (meddled \/ (up /\ Repaired(Parsed(disk)) # Parsed(disk)))
  /\ UNCHANGED <<up, turn, msgs, cuts, saved>>

Crash ==
  /\ up
  /\ up' = FALSE
  /\ turn' = "none"
  /\ msgs' = <<>>
  /\ UNCHANGED <<disk, cuts, saved, meddled>>

(* The session's row exists, from a save before the first message.         *)
Init ==
  /\ up = FALSE
  /\ turn = "none"
  /\ msgs = <<>>
  /\ disk = File(<<>>)
  /\ cuts = 0
  /\ saved = <<>>
  /\ meddled = FALSE

Next ==
  \/ Open \/ Send \/ Resume \/ SwitchModel
  \/ \E cs \in Blocks : Reply(cs)
  \/ \E c \in Calls : Answer(c)
  \/ Unparsed \/ Fail \/ Checkpoint \/ EndTurn \/ Raise \/ Poll \/ Crash

Spec == Init /\ [][Next]_vars

-----------------------------------------------------------------------------
(* Properties. *)

(* The values each variable ranges over. *)
TypeOK ==
  /\ up \in BOOLEAN
  /\ turn \in {"none", "running", "replied", "over"}
  /\ msgs \in Seq(Messages)
  /\ disk \in [lines : Seq(Messages \cup {Torn}), closed : BOOLEAN]
  /\ cuts \in 0..MaxCuts
  /\ saved \in Seq(Messages)
  /\ meddled \in BOOLEAN

(* "The list we hand back must match the disk line for line, or the next   *)
(* save duplicates or loses messages": through cut writes and restarts the *)
(* log stays a prefix of the engine's list, unless a load changed it.      *)
LogFollowsEngine ==
  up /\ ~meddled => IsPrefix(Parsed(disk), msgs)

(* A save that returns leaves in the log what the engine has. *)
SaveReachesDisk == saved' # saved /\ ~meddled => disk'.lines = msgs'

Placed(ms, i, c) ==
  \E k \in DOMAIN ms[i].calls :
    ms[i].calls[k] = c /\ i + k \in DOMAIN ms /\ Gives(ms[i + k], c)

(* What a restart loads is a thread a provider takes: each call is         *)
(* followed by its results, only a block at the very end may be open, and  *)
(* no result is there twice or without its call.                           *)
LoadsWellFormed ==
  Open /\ ~meddled =>
    /\ \A i \in DOMAIN msgs' : \A c \in Calls :
         Asks(msgs'[i], c) => \/ Placed(msgs', i, c)
                              \/ i = Len(msgs') /\ c \notin AnsweredIn(msgs')
    /\ \A c \in AnsweredIn(msgs') :
         /\ c \in IssuedIn(msgs')
         /\ Cardinality({i \in DOMAIN msgs' : Gives(msgs'[i], c)}) = 1

(* What a save confirmed is there after a restart: every message but the   *)
(* results in the same order, and every real result.                       *)
RealIn(ms) == {m \in ToSet(ms) : m.role = "tool" /\ m.real}
CheckpointsSurvive ==
  Open /\ ~meddled =>
    /\ IsPrefix(Kept(saved, Spoken), Kept(msgs', Spoken))
    /\ RealIn(saved) \subseteq RealIn(msgs')

(* What the documentation says and the code does not do. *)

(* save: "The engine's list is the truth here."  After a poll put a        *)
(* placeholder in the log of a turn that waits at a prompt, the save of    *)
(* the real result finds as many lines as messages and writes nothing.     *)
SavedResultsReachDisk ==
  [][saved' # saved => RealIn(msgs') \subseteq RealIn(disk'.lines)]_vars

=============================================================================
