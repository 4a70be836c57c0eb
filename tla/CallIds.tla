------------------------------ MODULE CallIds -------------------------------
(***************************************************************************)
(* The ids of tool calls.  A provider gives each call an id; the prompt it *)
(* waits at, the result it gets, the resume of its turn, the repair of a   *)
(* loaded log and the next request to the provider all go by it.  Some     *)
(* providers number the calls of each reply from zero (gemini_provider.py, *)
(* the calls salvaged from text in openai_provider.py).  One session, its  *)
(* whole thread, its Inbox items and restarts.                             *)
(***************************************************************************)
EXTENDS Threads, FiniteSets, Kept

CONSTANTS
  IdsRestart,   (* the provider numbers the calls of each reply anew       *)
  MaxBlock,     (* bound: calls in a reply                                 *)
  MaxCalls,     (* bound: calls of a history                               *)
  MaxSaid,      (* bound: user messages                                    *)
  MaxCrashes    (* bound: process deaths                                   *)

(* What the constants are; Engine assumes it. *)
CallIdsAssumption ==
  /\ IdsRestart \in BOOLEAN
  /\ {MaxBlock, MaxCalls, MaxSaid, MaxCrashes} \subseteq Nat
  /\ 1..MaxCalls \subseteq Calls

VARIABLES
  up,        (* the session's engine is in memory                          *)
  phase,     (* idle, before a request, in a block, at a prompt            *)
  thread,    (* engine.messages                                            *)
  log,       (* the saved conversation                                     *)
  todo,      (* calls of the block to authorise or ask about               *)
  cleared,   (* those to execute                                           *)
  items,     (* InboxStore: the item of each id that has one               *)
  issued,    (* calls so far; the n-th call is n                           *)
  said, crashes,
  used       (* history: which call's prompt decided which call            *)

vars == <<up, phase, thread, log, todo, cleared, items, issued, said, crashes, used>>

Call == [id : Calls, of : 1..MaxCalls]
Item == [of : 1..MaxCalls, state : {"pending", "resolved"}]

-----------------------------------------------------------------------------
(* Ids and requests. *)

(* Mutant of IdOf: every provider numbers the calls of a reply anew. *)
IdRestarting(n, k) == k

(* The id of the n-th call, the k-th of its reply. *)
IdOf(n, k) == IF IdsRestart THEN k ELSE n

Block(first, size) ==
  [k \in 1..size |-> [id |-> IdOf(first + k - 1, k), of |-> first + k - 1]]

(* Messages with the calls they are about: a history of the thread.        *)
Asking(cs) ==
  [role |-> "assistant", calls |-> [k \in DOMAIN cs |-> cs[k].id], real |-> TRUE,
   about |-> [k \in DOMAIN cs |-> cs[k].of]]
Answering(c) ==
  [role |-> "tool", calls |-> <<c.id>>, real |-> TRUE, about |-> <<c.of>>]

CallsOf(m) == [k \in DOMAIN m.calls |-> [id |-> m.calls[k], of |-> m.about[k]]]

(* Mutant of Resumable: every call of the last block is taken up again. *)
ResumableAll(ms) ==
  IF LastBlock(ms) <= LastUser(ms) THEN <<>> ELSE CallsOf(ms[LastBlock(ms)])

(* _unanswered_trailing_tool_calls, in order. *)
Resumable(ms) ==
  IF LastBlock(ms) <= LastUser(ms) THEN <<>>
  ELSE Kept(CallsOf(ms[LastBlock(ms)]), {c \in Call : c.id \in Unanswered(ms)})

(* convert_messages: notices are left out, results are user content, and   *)
(* messages of one role in a row become one.                               *)
Entry(m) ==
  [role |-> IF m.role = "assistant" THEN "model" ELSE "user",
   asks |-> IF m.role = "assistant" THEN m.calls ELSE <<>>,
   gives |-> IF m.role = "tool" THEN m.calls ELSE <<>>]

Fold(es, e) ==
  IF es # <<>> /\ es[Len(es)].role = e.role
  THEN [es EXCEPT ![Len(es)] = [role |-> e.role, asks |-> @.asks \o e.asks,
                                gives |-> @.gives \o e.gives]]
  ELSE Append(es, e)

Converted(ms) ==
  LET upTo[i \in 0..Len(ms)] ==
        IF i = 0 THEN <<>>
        ELSE IF ms[i].role = "notice" THEN upTo[i - 1]
        ELSE Fold(upTo[i - 1], Entry(ms[i]))
  IN upTo[Len(ms)]

(* What a provider takes: the calls of each reply are answered in the next *)
(* message, once each, and nothing else is.                                *)
Times(s, x) == Cardinality({i \in DOMAIN s : s[i] = x})
Taken(ms) ==
  LET es == Converted(ms)
      asked(i) == IF i = 0 THEN <<>> ELSE es[i].asks
      given(i) == IF i > Len(es) THEN <<>> ELSE es[i].gives
  IN \A i \in 0..Len(es) : \A c \in Calls : Times(asked(i), c) = Times(given(i + 1), c)

-----------------------------------------------------------------------------
(* A turn. *)

(* run: the message joins the thread whatever was unanswered.              *)
Say ==
  /\ up /\ phase = "idle"
  /\ said < MaxSaid
  /\ said' = said + 1
  /\ thread' = Append(thread, User)
  /\ log' = thread'
  /\ phase' = "request"
  /\ UNCHANGED <<up, todo, cleared, items, issued, crashes, used>>

(* The reply is a block of calls. *)
Reply(size) ==
  /\ phase = "request"
  /\ Taken(thread)
  /\ issued + size <= MaxCalls
  /\ issued' = issued + size
  /\ todo' = Block(issued + 1, size)
  /\ thread' = Append(thread, Asking(todo'))
  /\ phase' = "block"
  /\ UNCHANGED <<up, log, cleared, items, said, crashes, used>>

(* The reply is the turn's last word. *)
Conclude ==
  /\ phase = "request"
  /\ Taken(thread)
  /\ thread' = Append(thread, Assistant(<<>>))
  /\ log' = thread'
  /\ phase' = "idle"
  /\ UNCHANGED <<up, todo, cleared, items, issued, said, crashes, used>>

(* The provider rejects the request: an error notice ends the turn.        *)
Refuse ==
  /\ phase = "request"
  /\ ~Taken(thread)
  /\ thread' = Append(thread, Notice)
  /\ log' = thread'
  /\ phase' = "idle"
  /\ UNCHANGED <<up, todo, cleared, items, issued, said, crashes, used>>

(* A call that is allowed without a prompt. *)
Clear ==
  /\ phase = "block" /\ todo # <<>>
  /\ cleared' = Append(cleared, Head(todo))
  /\ todo' = Tail(todo)
  /\ UNCHANGED <<up, phase, thread, log, items, issued, said, crashes, used>>

(* One that needs the user: InboxStore.add takes the item that this        *)
(* session has for the id, in whatever state; the thread is saved when it  *)
(* is pending.                                                             *)
Prompt ==
  /\ phase = "block" /\ todo # <<>>
  /\ LET id == Head(todo).id
     IN items' = [i \in DOMAIN items \cup {id} |->
                    IF i \in DOMAIN items THEN items[i]
                    ELSE [of |-> Head(todo).of, state |-> "pending"]]
  /\ log' = IF items'[Head(todo).id].state = "pending" THEN thread ELSE log
  /\ phase' = "prompt"
  /\ UNCHANGED <<up, thread, todo, cleared, issued, said, crashes, used>>

(* The item is resolved: a call allowed is to execute; a denied one and a  *)
(* question have their result.                                             *)
TakeAnswer ==
  /\ phase = "prompt"
  /\ items[Head(todo).id].state = "resolved"
  /\ used' = used \cup {<<items[Head(todo).id].of, Head(todo).of>>}
  /\ \/ cleared' = Append(cleared, Head(todo)) /\ UNCHANGED thread
     \/ thread' = Append(thread, Answering(Head(todo))) /\ UNCHANGED cleared
  /\ todo' = Tail(todo)
  /\ phase' = "block"
  /\ UNCHANGED <<up, log, items, issued, said, crashes>>

Execute ==
  /\ phase = "block" /\ todo = <<>> /\ cleared # <<>>
  /\ thread' = Append(thread, Answering(Head(cleared)))
  /\ cleared' = Tail(cleared)
  /\ UNCHANGED <<up, phase, log, todo, items, issued, said, crashes, used>>

EndBlock ==
  /\ phase = "block" /\ todo = <<>> /\ cleared = <<>>
  /\ log' = thread
  /\ phase' = "request"
  /\ UNCHANGED <<up, thread, todo, cleared, items, issued, said, crashes, used>>

-----------------------------------------------------------------------------
(* Answers, restarts. *)

(* resolve_inbox: an idle session, in memory or not, is resumed.           *)
Resolve(id) ==
  /\ id \in DOMAIN items /\ items[id].state = "pending"
  /\ items' = [items EXCEPT ![id].state = "resolved"]
  /\ IF phase # "idle" THEN UNCHANGED <<up, phase, thread, log, todo>>
     ELSE /\ up' = TRUE
          /\ thread' = IF up THEN thread ELSE Repaired(log)
          /\ log' = thread'
          /\ todo' = Resumable(thread')
          /\ phase' = IF todo' = <<>> THEN "idle" ELSE "block"
  /\ UNCHANGED <<cleared, issued, said, crashes, used>>

(* The user opens the session. *)
Open ==
  /\ ~up
  /\ up' = TRUE
  /\ thread' = Repaired(log)
  /\ log' = thread'
  /\ UNCHANGED <<phase, todo, cleared, items, issued, said, crashes, used>>

Crash ==
  /\ up /\ crashes < MaxCrashes
  /\ crashes' = crashes + 1
  /\ up' = FALSE
  /\ phase' = "idle"
  /\ thread' = <<>> /\ todo' = <<>> /\ cleared' = <<>>
  /\ UNCHANGED <<log, items, issued, said, used>>

Init ==
  /\ up = TRUE
  /\ phase = "idle"
  /\ thread = <<>> /\ log = <<>> /\ todo = <<>> /\ cleared = <<>>
  /\ items = <<>>
  /\ issued = 0 /\ said = 0 /\ crashes = 0
  /\ used = {}

Next ==
  \/ Say \/ Conclude \/ Refuse \/ Clear \/ Prompt \/ TakeAnswer \/ Execute \/ EndBlock
  \/ \E size \in 1..MaxBlock : Reply(size)
  \/ \E id \in Calls : Resolve(id)
  \/ Open \/ Crash

Spec == Init /\ [][Next]_vars

-----------------------------------------------------------------------------
(* Properties. *)

(* The values each variable ranges over. *)
TypeOK ==
  /\ up \in BOOLEAN
  /\ phase \in {"idle", "request", "block", "prompt"}
  /\ todo \in Seq(Call) /\ cleared \in Seq(Call)
  /\ DOMAIN items \subseteq Calls /\ \A id \in DOMAIN items : items[id] \in Item
  /\ issued \in 0..MaxCalls /\ said \in 0..MaxSaid /\ crashes \in 0..MaxCrashes
  /\ used \subseteq (1..MaxCalls) \X (1..MaxCalls)

(* An item is found again by its call's id, in this process or after a     *)
(* restart: the answer a call gets was given to that call's own prompt.    *)
AnswersAreOwn == \A pair \in used : pair[1] = pair[2]

(* Results are written, moved by the repair and skipped by a resume by id: *)
(* no call ever has two results, nor one that another call produced.       *)
ResultsAreOwn ==
  \A ms \in {thread, log, Repaired(log)} : \A i, j \in DOMAIN ms :
    ms[i].role = "tool" /\ ms[i].real =>
      /\ ms[j].role = "tool" /\ ms[j].real /\ i # j => ms[i].about # ms[j].about
      /\ \E k \in 1..(i - 1) :
           ms[k].role = "assistant" /\ ms[k].calls # <<>>
             /\ <<ms[i].calls[1], ms[i].about[1]>>
                  \in {<<ms[k].calls[n], ms[k].about[n]>> : n \in DOMAIN ms[k].calls}
             /\ \A n \in (k + 1)..(i - 1) : ms[n].role # "assistant"

(* Through prompts, restarts and resumes a request is rejected only when   *)
(* the user spoke over a call that a crash left open in the loaded thread. *)
RefusedOnlyWhenSpokenOver ==
  phase = "request" /\ ~Taken(thread) =>
    \E i, j \in DOMAIN thread :
      /\ i < j /\ thread[j] = User
      /\ thread[i].role = "assistant"
      /\ ToSet(thread[i].calls) \ AnsweredIn(thread) # {}

=============================================================================
