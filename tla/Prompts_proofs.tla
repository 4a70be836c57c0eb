--------------------------- MODULE Prompts_proofs ---------------------------
(***************************************************************************)
(* Prompts, for any calls, blocks, runs and crashes: what runs is what the *)
(* recorded answer of its own prompt allows, once, and a prompt is on disk *)
(* as long as somebody is asked to answer it.                              *)
(***************************************************************************)
EXTENDS Prompts, SeqLemmas

RunRecord == [kind : Kinds, phase : Phases, todo : Seq(Calls), cleared : Seq(Calls)]
Thread == [calls : Seq(Calls), answered : SUBSET Calls, past : BOOLEAN]

-----------------------------------------------------------------------------
(* What holds with an automation's run, too. *)

(* The values each variable ranges over, the bound on lengths apart.       *)
Types ==
  /\ running \in BOOLEAN /\ cancel \in BOOLEAN
  /\ run \in [Runs -> RunRecord]
  /\ thread \in Thread /\ disk \in Thread
  /\ items \in [Calls -> {"none", "pending"} \cup Answers]
  /\ raised \in Seq(Calls)
  /\ executed \in [Calls -> Nat]
  /\ issued \subseteq Calls /\ torn \subseteq Calls
  /\ crashes \in 0..MaxCrashes

(* A run has each call to authorize or to execute once, and no more than a *)
(* block.                                                                  *)
Tidy(t) ==
  /\ IsInjective(t.todo) /\ IsInjective(t.cleared)
  /\ Range(t.todo) \cap Range(t.cleared) = {}
  /\ Len(t.todo) + Len(t.cleared) <= MaxBlock

(* Where a run has calls. *)
Placed(t) ==
  /\ t.phase = "executing" => t.cleared # <<>>
  /\ t.phase = "waiting" => t.todo # <<>>
  /\ t.phase \in {"thinking", "ending"} => t.todo = <<>> /\ t.cleared = <<>>
  /\ t.phase = "unused" => t.kind = "socket"

Whole(b) == IsInjective(b.calls) /\ Len(b.calls) <= MaxBlock

Blocked ==
  /\ \A r \in Runs : Tidy(run[r]) /\ Placed(run[r])
  /\ Whole(thread) /\ Whole(disk)

(* One item for each call that was raised. *)
RaisedOnce == Range(raised) = {c \in Calls : items[c] # "none"} /\ IsInjective(raised)

(* A call waits to be executed only after its prompt was answered so.      *)
ClearedIsAllowed ==
  \A r \in Runs : \A c \in Range(run[r].cleared) : items[c] = "allow" /\ c \notin Asks

-----------------------------------------------------------------------------
(* What holds as long as no automation runs. *)

Working(r) == run[r].phase \in {"authorizing", "waiting", "executing"}
Held(r) == Range(run[r].todo) \cup Range(run[r].cleared)

(* One turn at a time, and the flag says whether there is one. *)
OneTurn ==
  /\ \A r, u \in Runs : Live(r) /\ Live(u) => r = u
  /\ running <=> \E r \in Runs : Live(r)

(* The run holds calls that have no result; before the first crash, all.   *)
HeldIsOpen ==
  /\ \A r \in Runs : Live(r) => Held(r) \subseteq Open(thread)
  /\ \A r \in Runs : Working(r) => ~thread.past
  /\ crashes = 0 => \A c \in Open(thread) : \E r \in Runs : Live(r) /\ c \in Held(r)

SavedAtPrompt == \A r \in Runs : Waiting(r) => disk = thread

(* What ran has its result, or gets it next, or lost it in a crash. *)
Executing(c) == \E r \in Runs : run[r].phase = "executing" /\ Head(run[r].cleared) = c
RanOnce ==
  /\ InBlock(thread) \cup InBlock(disk) \subseteq issued
  /\ \A c \in Calls : executed[c] > 0 =>
       /\ c \in issued
       /\ c \in torn \/ (executed[c] = 1 /\ (c \in Open(thread) => Executing(c)))

Undisturbed == OneTurn /\ HeldIsOpen /\ SavedAtPrompt /\ RanOnce

Base == Types /\ Blocked /\ RaisedOnce /\ ClearedIsAllowed /\ RanWithConsent
IInv == Base /\ (~ScheduledRan => Undisturbed)

-----------------------------------------------------------------------------
(* Threads and runs. *)

LEMMA UnansweredIs ==
  ASSUME NEW b \in Thread, Whole(b), MaxBlock \in Nat
  PROVE  /\ Unanswered(b) \in Seq(Calls) /\ IsInjective(Unanswered(b))
         /\ Len(Unanswered(b)) <= MaxBlock
         /\ Range(Unanswered(b)) = IF b.past THEN {} ELSE Open(b)
<1>1. b.calls \in Seq(Calls) /\ b.answered \subseteq Calls
  BY DEF Thread
<1>2. CASE b.past
  <2>1. Unanswered(b) = <<>>
    BY <1>2 DEF Unanswered
  <2> QED
    BY <1>2, <2>1, RangeEmpty, InjectiveEmpty
<1>3. CASE ~b.past
  <2> DEFINE k == Kept(b.calls, Calls \ b.answered)
  <2>1. Unanswered(b) = k
    BY <1>3 DEF Unanswered
  <2>2. k \in Seq(Calls) /\ Range(k) = Range(b.calls) \cap (Calls \ b.answered) /\ IsInjective(k)
    BY <1>1, KeptIs DEF Whole
  <2> HIDE DEF k
  <2>3. Len(k) <= Len(b.calls)
    BY <1>1, <2>2, InjectivePart DEF Whole
  <2>4. Range(b.calls) \subseteq Calls
    BY <1>1 DEF Range
  <2>5. Range(k) = Open(b)
    BY <2>2, <2>4 DEF Open, InBlock
  <2>6. Len(k) <= MaxBlock
    BY <1>1, <2>2, <2>3 DEF Whole
  <2> QED
    BY <1>3, <2>1, <2>2, <2>5, <2>6
<1> QED
  BY <1>2, <1>3

(* What the model's ways to change a run do to it.                         *)
Only(r) == \A u \in Runs \ {r} : run'[u] = run[u]
LEMMA EnterIs ==
  ASSUME run \in [Runs -> RunRecord], NEW r \in Runs, NEW p \in Phases, Enter(r, p)
  PROVE  /\ run' \in [Runs -> RunRecord] /\ Only(r)
         /\ run'[r].phase = p /\ run'[r].kind = run[r].kind
         /\ run'[r].todo = run[r].todo /\ run'[r].cleared = run[r].cleared
  BY DEF Enter, RunRecord, Only

LEMMA Next1Is ==
  ASSUME run \in [Runs -> RunRecord], NEW r \in Runs, NEW cl \in Seq(Calls), Next1(r, cl),
         run[r].todo # <<>>
  PROVE  /\ run' \in [Runs -> RunRecord] /\ Only(r)
         /\ run'[r].phase = "authorizing" /\ run'[r].kind = run[r].kind
         /\ run'[r].todo = Tail(run[r].todo) /\ run'[r].cleared = cl
<1> DEFINE next == Tail(run[r].todo)
<1>1. next \in Seq(Calls)
  BY HeadTailProperties DEF RunRecord
<1>2. run' = [run EXCEPT ![r] = [run[r] EXCEPT !.phase = "authorizing", !.todo = next,
                                               !.cleared = cl]]
  BY DEF Next1
<1> HIDE DEF next
<1>3. /\ run' \in [Runs -> RunRecord] /\ Only(r)
      /\ run'[r].phase = "authorizing" /\ run'[r].kind = run[r].kind
      /\ run'[r].todo = next /\ run'[r].cleared = cl
  BY <1>1, <1>2 DEF RunRecord, Only, Phases
<1> QED
  BY <1>3 DEF next

LEMMA DequeueIs ==
  ASSUME run \in [Runs -> RunRecord], NEW r \in Runs, Dequeue(r), run[r].cleared # <<>>
  PROVE  /\ run' \in [Runs -> RunRecord] /\ Only(r)
         /\ run'[r].phase = "authorizing" /\ run'[r].kind = run[r].kind
         /\ run'[r].todo = run[r].todo /\ run'[r].cleared = Tail(run[r].cleared)
<1> DEFINE next == Tail(run[r].cleared)
<1>1. next \in Seq(Calls)
  BY HeadTailProperties DEF RunRecord
<1>2. run' = [run EXCEPT ![r] = [run[r] EXCEPT !.phase = "authorizing", !.cleared = next]]
  BY DEF Dequeue
<1> HIDE DEF next
<1>3. /\ run' \in [Runs -> RunRecord] /\ Only(r)
      /\ run'[r].phase = "authorizing" /\ run'[r].kind = run[r].kind
      /\ run'[r].todo = run[r].todo /\ run'[r].cleared = next
  BY <1>1, <1>2 DEF RunRecord, Only, Phases
<1> QED
  BY <1>3 DEF next

LEMMA NewRunIs ==
  ASSUME run \in [Runs -> RunRecord], NEW r \in Runs, NEW k \in Kinds, NEW p \in Phases,
         NEW todo \in Seq(Calls), run' = [run EXCEPT ![r] = NewRun(k, p, todo)]
  PROVE  /\ run' \in [Runs -> RunRecord] /\ Only(r)
         /\ run'[r].phase = p /\ run'[r].kind = k
         /\ run'[r].todo = todo /\ run'[r].cleared = <<>>
  BY DEF NewRun, RunRecord, Only

LEMMA IssueIs ==
  ASSUME run \in [Runs -> RunRecord], NEW r \in Runs, NEW calls \in Seq(Calls), Issue(r, calls)
  PROVE  /\ run' \in [Runs -> RunRecord] /\ Only(r)
         /\ run'[r].phase = "authorizing" /\ run'[r].kind = run[r].kind
         /\ run'[r].todo = calls /\ run'[r].cleared = run[r].cleared
  BY DEF Issue, RunRecord, Only, Phases

(* A step that moves one run. *)
LEMMA OneRunMoves ==
  ASSUME Base, NEW r \in Runs, Only(r), Tidy(run'[r]), Placed(run'[r]),
         run' \in [Runs -> RunRecord],
         \A c \in Calls : items[c] = "allow" => items'[c] = "allow",
         \A c \in Range(run'[r].cleared) : items[c] = "allow" /\ c \notin Asks
  PROVE  /\ \A u \in Runs : Tidy(run'[u]) /\ Placed(run'[u])
         /\ ClearedIsAllowed'
<1> USE DEF Base, Only
<1>1. \A u \in Runs : Tidy(run'[u]) /\ Placed(run'[u])
  BY DEF Blocked
<1>2. ASSUME NEW u \in Runs, NEW c \in Range(run'[u].cleared)
      PROVE  items'[c] = "allow" /\ c \notin Asks
  <2>1. run'[u].cleared \in Seq(Calls)
    BY DEF RunRecord
  <2>2. c \in Calls
    BY <2>1 DEF Range
  <2>3. items[c] = "allow" /\ c \notin Asks
    BY <1>2 DEF ClearedIsAllowed
  <2> QED
    BY <2>2, <2>3
<1> QED
  BY <1>1, <1>2 DEF ClearedIsAllowed

(* If no tool starts, either, what ran stays as it was allowed to. *)
LEMMA NoToolStarts ==
  ASSUME Base, UNCHANGED executed,
         \A c \in Calls : items[c] = "allow" => items'[c] = "allow"
  PROVE  RanWithConsent'
  BY DEF Base, RanWithConsent

-----------------------------------------------------------------------------
(* Every action keeps what holds with an automation, too. *)

LEMMA Facts ==
  ASSUME PromptsAssumption, Base
  PROVE  /\ MaxBlock \in Nat /\ MaxCrashes \in Nat
         /\ run \in [Runs -> RunRecord]
         /\ \A r \in Runs : /\ run[r].kind \in Kinds /\ run[r].phase \in Phases
                           /\ run[r].todo \in Seq(Calls) /\ run[r].cleared \in Seq(Calls)
                           /\ Tidy(run[r]) /\ Placed(run[r])
         /\ \A r \in Runs : \A c \in Range(run[r].cleared) :
              c \in Calls /\ items[c] = "allow" /\ c \notin Asks
         /\ thread \in Thread /\ disk \in Thread /\ Whole(thread) /\ Whole(disk)
<1>1. run \in [Runs -> RunRecord] /\ MaxBlock \in Nat /\ MaxCrashes \in Nat
  BY DEF Base, Types, PromptsAssumption
<1>2. \A r \in Runs : /\ run[r].kind \in Kinds /\ run[r].phase \in Phases
                    /\ run[r].todo \in Seq(Calls) /\ run[r].cleared \in Seq(Calls)
  BY <1>1 DEF RunRecord
<1>3. \A r \in Runs : Range(run[r].cleared) \subseteq Calls
  BY <1>2 DEF Range
<1> QED
  BY <1>1, <1>2, <1>3 DEF Base, Types, Blocked, ClearedIsAllowed

(* A call answered in a thread leaves it one. *)
LEMMA AnsweredIs ==
  ASSUME NEW c \in Calls, thread \in Thread, Answered(c)
  PROVE  /\ thread' \in Thread /\ thread'.calls = thread.calls /\ thread'.past = thread.past
         /\ thread'.answered = thread.answered \cup {c}
  BY DEF Answered, Thread

LEMMA PastIs ==
  ASSUME thread \in Thread, thread' = [thread EXCEPT !.past = TRUE]
  PROVE  /\ thread' \in Thread /\ thread'.calls = thread.calls /\ thread'.past
         /\ thread'.answered = thread.answered
  BY DEF Thread

LEMMA RepairIs ==
  ASSUME NEW b \in Thread
  PROVE  /\ Repair(b) \in Thread /\ Repair(b).calls = b.calls
         /\ Open(Repair(b)) \subseteq Open(b)
<1>1. Range(b.calls) \subseteq Calls
  BY DEF Thread, Range
<1>2. CASE b.past \/ b.answered # {}
  BY <1>1, <1>2 DEF Repair, Thread, Open, InBlock
<1>3. CASE ~(b.past \/ b.answered # {})
  BY <1>3 DEF Repair
<1> QED
  BY <1>2, <1>3

LEMMA UserTurnKeepsBase ==
  ASSUME PromptsAssumption, Base, NEW r \in Runs, UserTurn(r) \/ ScheduledTurn(r) PROVE Base'
<1> USE DEF histVars, storeVars
<1>1. PICK k \in Kinds : run' = [run EXCEPT ![r] = NewRun(k, "thinking", <<>>)]
  BY DEF UserTurn, ScheduledTurn, Kinds
<1>2. /\ run' \in [Runs -> RunRecord] /\ Only(r)
      /\ run'[r].phase = "thinking" /\ run'[r].todo = <<>> /\ run'[r].cleared = <<>>
  <2>1. "thinking" \in Phases /\ <<>> \in Seq(Calls) /\ run \in [Runs -> RunRecord]
    BY Facts DEF Phases
  <2> QED
    BY <1>1, <2>1, NewRunIs
<1>3. Tidy(run'[r]) /\ Placed(run'[r])
  BY <1>2, Facts, RangeEmpty, InjectiveEmpty DEF Tidy, Placed
<1>4. /\ UNCHANGED <<items, raised, issued, executed, torn, crashes>>
      /\ thread' = [thread EXCEPT !.past = TRUE] /\ (disk' = thread' \/ disk' = disk)
      /\ cancel' = FALSE /\ running' \in {TRUE, running}
  BY DEF UserTurn, ScheduledTurn
<1>5. (\A u \in Runs : Tidy(run'[u]) /\ Placed(run'[u])) /\ ClearedIsAllowed'
  BY <1>2, <1>3, <1>4, OneRunMoves, RangeEmpty
<1>6. thread' \in Thread /\ disk' \in Thread /\ Whole(thread') /\ Whole(disk')
  BY <1>4, Facts, PastIs DEF Whole
<1>7. RanWithConsent'
  BY <1>4, NoToolStarts
<1> QED
  BY <1>2, <1>4, <1>5, <1>6, <1>7 DEF Base, Types, Blocked, RaisedOnce

LEMMA BlocksAre ==
  ASSUME NEW calls \in Blocks, MaxBlock \in Nat
  PROVE  calls \in Seq(Calls) /\ IsInjective(calls) /\ Len(calls) <= MaxBlock
  BY DEF Blocks

LEMMA IssueKeepsBase ==
  ASSUME PromptsAssumption, Base, NEW r \in Runs, NEW calls \in Blocks, Issue(r, calls)
  PROVE  Base'
<1> USE DEF histVars, storeVars
<1>1. calls \in Seq(Calls) /\ IsInjective(calls) /\ Len(calls) <= MaxBlock
  BY Facts, BlocksAre
<1>2. run[r].phase = "thinking" /\ run[r].cleared = <<>>
  BY Facts DEF Issue, Placed
<1>3. /\ run' \in [Runs -> RunRecord] /\ Only(r)
      /\ run'[r].phase = "authorizing" /\ run'[r].todo = calls /\ run'[r].cleared = <<>>
  BY <1>1, <1>2, Facts, IssueIs
<1>4. Tidy(run'[r]) /\ Placed(run'[r])
  <2>1. Len(<<>>) = 0 /\ Len(calls) \in Nat
    BY <1>1
  <2> QED
    BY <1>1, <1>3, <2>1, RangeEmpty, InjectiveEmpty, Facts DEF Tidy, Placed
<1>5. /\ UNCHANGED <<running, cancel, disk, items, raised, executed, torn, crashes>>
      /\ thread' = Block(calls) /\ issued' = issued \cup Range(calls)
  BY DEF Issue
<1>6. (\A u \in Runs : Tidy(run'[u]) /\ Placed(run'[u])) /\ ClearedIsAllowed'
  BY <1>3, <1>4, <1>5, OneRunMoves, RangeEmpty
<1>7. thread' \in Thread /\ Whole(thread')
  BY <1>1, <1>5 DEF Block, Thread, Whole
<1>8. RanWithConsent'
  BY <1>5, NoToolStarts
<1>9. Range(calls) \subseteq Calls
  BY <1>1 DEF Range
<1> QED
  BY <1>3, <1>5, <1>6, <1>7, <1>8, <1>9 DEF Base, Types, Blocked, RaisedOnce

LEMMA RaisePromptKeepsBase ==
  ASSUME PromptsAssumption, Base, NEW r \in Runs, NEW c \in Calls, RaisePrompt(r, c)
  PROVE  Base'
<1> USE DEF histVars, storeVars
<1>1. /\ run[r].phase = "authorizing" /\ run[r].todo # <<>> /\ Enter(r, "waiting")
      /\ items[c] \in {"none", "pending"} /\ items' = [items EXCEPT ![c] = "pending"]
      /\ raised' = IF items[c] = "none" THEN Append(raised, c) ELSE raised
      /\ disk' = thread /\ UNCHANGED <<running, cancel, thread, issued, executed, torn, crashes>>
  BY DEF RaisePrompt, Authorizing
<1>2. /\ run' \in [Runs -> RunRecord] /\ Only(r)
      /\ run'[r].phase = "waiting" /\ run'[r].kind = run[r].kind
      /\ run'[r].todo = run[r].todo /\ run'[r].cleared = run[r].cleared
  BY <1>1, Facts, EnterIs DEF Phases
<1>3. items \in [Calls -> {"none", "pending"} \cup Answers] /\ raised \in Seq(Calls)
  BY DEF Base, Types
<1>4. /\ items' \in [Calls -> {"none", "pending"} \cup Answers]
      /\ \A d \in Calls : items[d] = "allow" => items'[d] = "allow"
      /\ {d \in Calls : items'[d] # "none"} = {d \in Calls : items[d] # "none"} \cup {c}
  BY <1>1, <1>3
<1>5. raised' \in Seq(Calls) /\ RaisedOnce'
  <2>1. CASE items[c] = "none"
    <3>1. c \notin Range(raised)
      BY <2>1 DEF Base, RaisedOnce
    <3>2. Range(Append(raised, c)) = Range(raised) \cup {c} /\ IsInjective(Append(raised, c))
      BY <1>3, <3>1, RangeAppend, InjectiveAppend DEF Base, RaisedOnce
    <3> QED
      BY <1>1, <1>3, <1>4, <2>1, <3>2 DEF Base, RaisedOnce
  <2>2. CASE items[c] # "none"
    BY <1>1, <1>3, <1>4, <2>2 DEF Base, RaisedOnce
  <2> QED
    BY <2>1, <2>2
<1>6. Tidy(run'[r]) /\ Placed(run'[r])
  BY <1>1, <1>2, Facts DEF Tidy, Placed
<1>7. (\A u \in Runs : Tidy(run'[u]) /\ Placed(run'[u])) /\ ClearedIsAllowed'
  BY <1>2, <1>4, <1>6, Facts, OneRunMoves
<1>8. RanWithConsent'
  BY <1>1, <1>4, NoToolStarts
<1> QED
  BY <1>1, <1>2, <1>4, <1>5, <1>7, <1>8, Facts DEF Base, Types, Blocked

(* The run is done with the first of its calls to authorize. *)
LEMMA OneLessToAuthorize ==
  ASSUME PromptsAssumption, Base, NEW r \in Runs, run[r].todo # <<>>,
         NEW cl \in Seq(Calls), Next1(r, cl),
         cl = run[r].cleared \/ cl = Append(run[r].cleared, Head(run[r].todo))
  PROVE  Tidy(run'[r]) /\ Placed(run'[r])
<1> DEFINE todo == run[r].todo
           cleared == run[r].cleared
<1>1. /\ run'[r].phase = "authorizing" /\ run'[r].todo = Tail(todo) /\ run'[r].cleared = cl
  BY Facts, Next1Is
<1>2. /\ todo \in Seq(Calls) /\ todo # <<>> /\ cleared \in Seq(Calls)
      /\ IsInjective(todo) /\ IsInjective(cleared) /\ Range(todo) \cap Range(cleared) = {}
      /\ Len(todo) + Len(cleared) <= MaxBlock /\ MaxBlock \in Nat
  BY Facts DEF Tidy
<1> HIDE DEF todo, cleared
<1>3. /\ Head(todo) \in Calls /\ Tail(todo) \in Seq(Calls)
      /\ Range(todo) = {Head(todo)} \cup Range(Tail(todo))
      /\ IsInjective(Tail(todo)) /\ Head(todo) \notin Range(Tail(todo))
      /\ Len(Tail(todo)) = Len(todo) - 1
  BY <1>2, RangeHeadTail, InjectiveTail, HeadTailProperties
<1>4. /\ Range(Append(cleared, Head(todo))) = Range(cleared) \cup {Head(todo)}
      /\ IsInjective(Append(cleared, Head(todo)))
      /\ Len(Append(cleared, Head(todo))) = Len(cleared) + 1
  BY <1>2, <1>3, RangeAppend, InjectiveAppend, AppendProperties
<1>5. /\ IsInjective(cl) /\ Range(Tail(todo)) \cap Range(cl) = {}
      /\ Len(Tail(todo)) + Len(cl) <= MaxBlock
  <2>1. CASE cl = cleared
    BY <1>2, <1>3, <2>1
  <2>2. CASE cl = Append(cleared, Head(todo))
    BY <1>2, <1>3, <1>4, <2>2
  <2> QED
    BY <2>1, <2>2 DEF cleared, todo
<1> QED
  BY <1>1, <1>3, <1>5 DEF Tidy, Placed, todo

LEMMA TakeAnswerKeepsBase ==
  ASSUME PromptsAssumption, Base, NEW r \in Runs, NEW c \in Calls,
         TakeAnswer(r, c) \/ Interrupted(r, c)
  PROVE  Base'
<1> USE DEF histVars, storeVars
<1>1. /\ run[r].todo # <<>> /\ c = Head(run[r].todo)
      /\ UNCHANGED <<running, cancel, disk, items, raised, issued, executed, torn, crashes>>
  BY Facts DEF TakeAnswer, Interrupted, Authorizing, Waiting, Placed
<1>2. PICK cl \in Seq(Calls) :
        /\ Next1(r, cl)
        /\ \/ cl = run[r].cleared
           \/ cl = Append(run[r].cleared, c) /\ items[c] = "allow" /\ c \notin Asks
        /\ UNCHANGED thread \/ Answered(c)
  <2>1. run[r].cleared \in Seq(Calls) /\ Append(run[r].cleared, c) \in Seq(Calls)
    BY Facts
  <2> QED
    BY <2>1 DEF TakeAnswer, Interrupted
<1>3. run' \in [Runs -> RunRecord] /\ Only(r) /\ run'[r].cleared = cl
  BY <1>1, <1>2, Facts, Next1Is
<1>4. Tidy(run'[r]) /\ Placed(run'[r])
  BY <1>1, <1>2, OneLessToAuthorize
<1>5. \A d \in Range(cl) : items[d] = "allow" /\ d \notin Asks
  <2>1. run[r].cleared \in Seq(Calls)
    BY Facts
  <2>2. Range(Append(run[r].cleared, c)) = Range(run[r].cleared) \cup {c}
    BY <2>1, RangeAppend
  <2>3. CASE cl = run[r].cleared
    BY <2>3, Facts
  <2>4. CASE cl = Append(run[r].cleared, c) /\ items[c] = "allow" /\ c \notin Asks
    BY <2>2, <2>4, Facts
  <2> QED
    BY <1>2, <2>3, <2>4
<1>6. (\A u \in Runs : Tidy(run'[u]) /\ Placed(run'[u])) /\ ClearedIsAllowed'
  BY <1>1, <1>3, <1>4, <1>5, OneRunMoves
<1>7. thread' \in Thread /\ Whole(thread')
  BY <1>2, Facts, AnsweredIs DEF Whole
<1>8. RanWithConsent'
  BY <1>1, NoToolStarts
<1> QED
  BY <1>1, <1>3, <1>6, <1>7, <1>8 DEF Base, Types, Blocked, RaisedOnce

LEMMA ExecuteKeepsBase ==
  ASSUME PromptsAssumption, Base, NEW r \in Runs, NEW c \in Calls, Execute(r, c)
  PROVE  Base'
<1> USE DEF histVars, storeVars
<1>1. /\ run[r].todo = <<>> /\ run[r].cleared # <<>> /\ c = Head(run[r].cleared)
      /\ executed' = [executed EXCEPT ![c] = @ + 1] /\ Enter(r, "executing")
      /\ UNCHANGED <<running, cancel, thread, disk, items, raised, issued, torn, crashes>>
  BY DEF Execute, ToExecute
<1>2. /\ run' \in [Runs -> RunRecord] /\ Only(r)
      /\ run'[r].phase = "executing" /\ run'[r].todo = run[r].todo
      /\ run'[r].cleared = run[r].cleared
  BY <1>1, Facts, EnterIs DEF Phases
<1>3. Tidy(run'[r]) /\ Placed(run'[r])
  BY <1>1, <1>2, Facts DEF Tidy, Placed
<1>4. (\A u \in Runs : Tidy(run'[u]) /\ Placed(run'[u])) /\ ClearedIsAllowed'
  BY <1>1, <1>2, <1>3, Facts, OneRunMoves
<1>5. c \in Range(run[r].cleared)
  BY <1>1, Facts, RangeHeadTail
<1>6. executed' \in [Calls -> Nat] /\ RanWithConsent'
  BY <1>1, <1>5, Facts DEF Base, Types, RanWithConsent
<1> QED
  BY <1>1, <1>2, <1>4, <1>6 DEF Base, Types, Blocked, RaisedOnce

LEMMA DequeueKeepsBase ==
  ASSUME PromptsAssumption, Base, NEW r \in Runs, NEW c \in Calls,
         ExecuteDone(r, c) \/ SkipExecute(r, c)
  PROVE  Base'
<1> USE DEF histVars, storeVars
<1> DEFINE cleared == run[r].cleared
<1>1. /\ cleared # <<>> /\ Dequeue(r) /\ Answered(c)
      /\ UNCHANGED <<running, cancel, disk, items, raised, issued, executed, torn, crashes>>
  BY Facts DEF ExecuteDone, SkipExecute, ToExecute, Placed
<1>2. /\ run' \in [Runs -> RunRecord] /\ Only(r)
      /\ run'[r].phase = "authorizing" /\ run'[r].todo = run[r].todo
      /\ run'[r].cleared = Tail(cleared)
  BY <1>1, Facts, DequeueIs
<1>9. /\ cleared \in Seq(Calls) /\ IsInjective(cleared) /\ run[r].todo \in Seq(Calls)
      /\ IsInjective(run[r].todo) /\ Range(run[r].todo) \cap Range(cleared) = {}
      /\ Len(run[r].todo) + Len(cleared) <= MaxBlock /\ MaxBlock \in Nat
  BY Facts DEF Tidy
<1>10. \A d \in Range(cleared) : items[d] = "allow" /\ d \notin Asks
  BY Facts
<1> HIDE DEF cleared
<1>3. /\ Range(cleared) = {Head(cleared)} \cup Range(Tail(cleared))
      /\ IsInjective(Tail(cleared)) /\ Len(Tail(cleared)) = Len(cleared) - 1
      /\ Len(cleared) \in Nat /\ Len(run[r].todo) \in Nat
  BY <1>1, <1>9, RangeHeadTail, InjectiveTail, HeadTailProperties
<1>4. Tidy(run'[r]) /\ Placed(run'[r])
  <2>1. Range(run[r].todo) \cap Range(Tail(cleared)) = {}
    BY <1>3, <1>9
  <2>2. Len(run[r].todo) + Len(Tail(cleared)) <= MaxBlock
    <3> DEFINE n == Len(cleared)
               m == Len(run[r].todo)
               k == Len(Tail(cleared))
    <3>1. k = n - 1 /\ n \in Nat /\ m \in Nat /\ m + n <= MaxBlock /\ MaxBlock \in Nat
      BY <1>3, <1>9
    <3> HIDE DEF n, m, k
    <3>2. m + k <= MaxBlock
      BY <3>1
    <3> QED
      BY <3>2 DEF m, k
  <2>3. Tidy(run'[r])
    <3>1. run'[r].todo = run[r].todo /\ run'[r].cleared = Tail(cleared)
      BY <1>2
    <3>2. IsInjective(run[r].todo) /\ IsInjective(Tail(cleared))
      BY <1>3, <1>9
    <3> QED
      BY <3>1, <3>2, <2>1, <2>2 DEF Tidy
  <2>4. Placed(run'[r])
    BY <1>2 DEF Placed
  <2> QED
    BY <2>3, <2>4
<1>5. (\A u \in Runs : Tidy(run'[u]) /\ Placed(run'[u])) /\ ClearedIsAllowed'
  <2>1. \A d \in Range(run'[r].cleared) : items[d] = "allow" /\ d \notin Asks
    <3>1. Range(Tail(cleared)) \subseteq Range(cleared)
      BY <1>3
    <3>2. \A d \in Range(Tail(cleared)) : items[d] = "allow" /\ d \notin Asks
      BY <1>10, <3>1
    <3>3. run'[r].cleared = Tail(cleared)
      BY <1>2
    <3> QED
      BY <3>2, <3>3
  <2>2. UNCHANGED items
    BY <1>1
  <2> QED
    BY <1>2, <1>4, <2>1, <2>2, OneRunMoves
<1>6. thread' \in Thread /\ Whole(thread')
  BY <1>1, Facts, AnsweredIs DEF Whole
<1>7. RanWithConsent'
  BY <1>1, NoToolStarts
<1> QED
  BY <1>1, <1>2, <1>5, <1>6, <1>7 DEF Base, Types, Blocked, RaisedOnce

LEMMA EndKeepsBase ==
  ASSUME PromptsAssumption, Base, NEW r \in Runs, EndBlock(r) \/ Finish(r) PROVE Base'
<1> USE DEF histVars, storeVars
<1>1. PICK p \in {"thinking", "ending", "done"} : Enter(r, p)
  BY DEF EndBlock, Finish
<1>2. /\ run[r].todo = <<>> /\ run[r].cleared = <<>>
      /\ disk' \in {disk, thread} /\ running' \in {running, FALSE}
      /\ UNCHANGED <<cancel, thread, items, raised, issued, executed, torn, crashes>>
  BY Facts DEF EndBlock, Finish, Placed
<1>3. /\ run' \in [Runs -> RunRecord] /\ Only(r) /\ run'[r].phase = p
      /\ run'[r].todo = run[r].todo /\ run'[r].cleared = run[r].cleared
  BY <1>1, Facts, EnterIs DEF Phases
<1>4. Tidy(run'[r]) /\ Placed(run'[r])
  BY <1>2, <1>3, Facts DEF Tidy, Placed
<1>5. (\A u \in Runs : Tidy(run'[u]) /\ Placed(run'[u])) /\ ClearedIsAllowed'
  BY <1>2, <1>3, <1>4, Facts, OneRunMoves
<1>6. RanWithConsent'
  BY <1>2, NoToolStarts
<1>7. disk' \in Thread /\ Whole(disk')
  BY <1>2, Facts
<1> QED
  BY <1>2, <1>3, <1>5, <1>6, <1>7 DEF Base, Types, Blocked, RaisedOnce

(* InboxStore.resolve: once.  A call that is none of Calls would change    *)
(* nothing.                                                                *)
LEMMA ResolveIs ==
  ASSUME Base, NEW c, NEW answer \in Answers, Resolve(c, answer)
  PROVE  /\ items' \in [Calls -> {"none", "pending"} \cup Answers] /\ RaisedOnce'
         /\ UNCHANGED raised
         /\ \A d \in Calls : items[d] = "allow" => items'[d] = "allow"
<1>1. /\ items[c] = "pending" /\ items' = [items EXCEPT ![c] = answer] /\ UNCHANGED raised
      /\ items \in [Calls -> {"none", "pending"} \cup Answers]
  BY DEF Resolve, Base, Types
<1>2. /\ items' \in [Calls -> {"none", "pending"} \cup Answers]
      /\ \A d \in Calls : items'[d] = items[d] \/ (items[d] = "pending" /\ items'[d] = answer)
  BY <1>1
<1> QED
  BY <1>1, <1>2 DEF Base, RaisedOnce, Answers

LEMMA AnswerKeepsBase ==
  ASSUME PromptsAssumption, Base, NEW c, NEW answer \in Answers, Resolve(c, answer),
         UNCHANGED <<thread, disk, histVars>>, running' \in BOOLEAN, cancel' \in BOOLEAN,
         UNCHANGED run \/ \E r \in Runs : DurableResume(r)
  PROVE  Base'
<1> USE DEF histVars, storeVars
<1>1. RanWithConsent'
  BY ResolveIs, NoToolStarts
<1>2. CASE UNCHANGED run
  <2>1. ClearedIsAllowed'
    BY <1>2, Facts, ResolveIs DEF ClearedIsAllowed
  <2>2. \A u \in Runs : Tidy(run'[u]) /\ Placed(run'[u])
    BY <1>2, Facts
  <2> QED
    BY <1>1, <1>2, <2>1, <2>2, Facts, ResolveIs DEF Base, Types, Blocked
<1>3. ASSUME NEW r \in Runs, DurableResume(r) PROVE Base'
  <2> DEFINE todo == Unanswered(thread)
  <2>1. todo \in Seq(Calls) /\ IsInjective(todo) /\ Len(todo) <= MaxBlock
    BY Facts, UnansweredIs
  <2>2. run' = [run EXCEPT ![r] = NewRun("resume", "authorizing", todo)]
    BY <1>3 DEF DurableResume
  <2> HIDE DEF todo
  <2>3. /\ run' \in [Runs -> RunRecord] /\ Only(r) /\ run'[r].phase = "authorizing"
        /\ run'[r].todo = todo /\ run'[r].cleared = <<>>
    BY <2>1, <2>2, Facts, NewRunIs DEF Kinds, Phases
  <2>4. Len(<<>>) = 0 /\ Len(todo) \in Nat
    BY <2>1
  <2>5. Tidy(run'[r]) /\ Placed(run'[r])
    BY <2>1, <2>3, <2>4, Facts, RangeEmpty, InjectiveEmpty DEF Tidy, Placed
  <2>6. (\A u \in Runs : Tidy(run'[u]) /\ Placed(run'[u])) /\ ClearedIsAllowed'
    BY <2>3, <2>5, RangeEmpty, ResolveIs, OneRunMoves
  <2> QED
    BY <1>1, <2>3, <2>6, Facts, ResolveIs DEF Base, Types, Blocked
<1> QED
  BY <1>2, <1>3

LEMMA CrashKeepsBase == ASSUME PromptsAssumption, Base, Crash PROVE Base'
<1> USE DEF histVars, storeVars
<1>1. /\ run' = [r \in Runs |-> IF Live(r) THEN [run[r] EXCEPT !.phase = "dead"] ELSE run[r]]
      /\ disk' = Repair(disk) /\ thread' = disk' /\ running' = FALSE /\ cancel' = FALSE
      /\ crashes < MaxCrashes /\ crashes' = crashes + 1
      /\ torn' = torn \cup {c \in Open(disk) : executed[c] > 0}
      /\ UNCHANGED <<items, raised, issued, executed>>
  BY DEF Crash
<1>2. ASSUME NEW r \in Runs
      PROVE  /\ run'[r] \in RunRecord /\ Tidy(run'[r]) /\ Placed(run'[r])
             /\ run'[r].cleared = run[r].cleared
  <2>1. run[r] \in RunRecord /\ Tidy(run[r]) /\ Placed(run[r])
    BY Facts
  <2>2. CASE Live(r)
    <3>1. run'[r] = [run[r] EXCEPT !.phase = "dead"]
      BY <1>1, <2>2
    <3>2. /\ run'[r] \in RunRecord /\ run'[r].phase = "dead"
          /\ run'[r].todo = run[r].todo /\ run'[r].cleared = run[r].cleared
      BY <2>1, <3>1 DEF RunRecord, Phases
    <3> QED
      BY <2>1, <3>2 DEF Tidy, Placed
  <2>3. CASE ~Live(r)
    BY <1>1, <2>1, <2>3
  <2> QED
    BY <2>2, <2>3
<1>3. run' \in [Runs -> RunRecord]
  BY <1>1, <1>2
<1>4. ClearedIsAllowed'
  BY <1>1, <1>2, Facts DEF ClearedIsAllowed
<1>5. thread' \in Thread /\ disk' \in Thread /\ Whole(thread') /\ Whole(disk')
  BY <1>1, Facts, RepairIs DEF Whole
<1>6. RanWithConsent'
  BY <1>1, NoToolStarts
<1>7. torn' \subseteq Calls /\ crashes' \in 0..MaxCrashes
  <2>1. Open(disk) \subseteq Calls
    BY Facts DEF Open, InBlock, Thread, Range
  <2> QED
    BY <1>1, <2>1, Facts DEF Base, Types
<1> QED
  BY <1>1, <1>2, <1>3, <1>4, <1>5, <1>6, <1>7 DEF Base, Types, Blocked, RaisedOnce

LEMMA BaseStep == ASSUME PromptsAssumption, Base, [Next]_vars PROVE Base'
<1> USE DEF histVars, storeVars
<1>1. ASSUME NEW r \in Runs, UserTurn(r) \/ ScheduledTurn(r) PROVE Base'
  BY <1>1, UserTurnKeepsBase
<1>2. ASSUME NEW r \in Runs, NEW calls \in Blocks, Issue(r, calls) PROVE Base'
  BY <1>2, IssueKeepsBase
<1>3. ASSUME NEW r \in Runs, NEW c \in Calls, CallStep(r, c) PROVE Base'
  BY <1>3, RaisePromptKeepsBase, TakeAnswerKeepsBase, ExecuteKeepsBase, DequeueKeepsBase
     DEF CallStep
<1>4. ASSUME NEW r \in Runs, EndBlock(r) \/ Finish(r) PROVE Base'
  BY <1>4, EndKeepsBase
<1>5. running \in BOOLEAN /\ cancel \in BOOLEAN
  BY DEF Base, Types
<1>6. ASSUME NEW r \in Runs, NEW answer \in Answers, AnswerLive(r, answer) PROVE Base'
  BY <1>5, <1>6, AnswerKeepsBase DEF AnswerLive
<1>7. ASSUME NEW c \in Calls, NEW answer \in Answers, AnswerByReply(c, answer) PROVE Base'
  BY <1>5, <1>7, AnswerKeepsBase DEF AnswerByReply
<1>8. ASSUME NEW c \in Calls, NEW answer \in Answers, AnswerById(c, answer) PROVE Base'
  <2>1. /\ Resolve(c, answer) /\ UNCHANGED <<thread, disk, histVars>>
        /\ UNCHANGED <<running, cancel, run>> \/ \E r \in Runs : DurableResume(r)
    BY <1>8 DEF AnswerById
  <2>2. running' \in BOOLEAN /\ cancel' \in BOOLEAN
    BY <1>5, <2>1 DEF DurableResume
  <2> QED
    BY <2>1, <2>2, AnswerKeepsBase
<1>9. CASE Stop \/ UNCHANGED vars
  BY <1>9 DEF Stop, vars, Base, Types, Blocked, RaisedOnce, ClearedIsAllowed, RanWithConsent
<1>10. CASE Crash
  BY <1>10, CrashKeepsBase
<1> QED
  BY <1>1, <1>2, <1>3, <1>4, <1>6, <1>7, <1>8, <1>9, <1>10 DEF Next, RunStep

-----------------------------------------------------------------------------
(* Every action that is no automation's leaves the turn undisturbed.       *)

(* A step of the live run. *)
LEMMA LiveRunMoves ==
  ASSUME OneTurn, NEW r \in Runs, Live(r), Only(r), Live(r)', UNCHANGED running,
         Held(r)' \subseteq Open(thread)', Working(r)' => ~thread'.past,
         crashes' = 0 => Open(thread)' \subseteq Held(r)',
         Waiting(r)' => disk' = thread', RanOnce'
  PROVE  Undisturbed'
<1>1. \A u \in Runs : Live(u)' <=> u = r
  BY DEF OneTurn, Live, Only
<1>2. OneTurn'
  BY <1>1 DEF OneTurn
<1>3. (\A u \in Runs : Live(u)' => Held(u)' \subseteq Open(thread)')
      /\ (crashes' = 0 => \A c \in Open(thread)' : \E u \in Runs : Live(u)' /\ c \in Held(u)')
  BY <1>1
<1>4. (\A u \in Runs : Working(u)' => ~thread'.past) /\ SavedAtPrompt'
  BY <1>1 DEF Working, Waiting, Live, SavedAtPrompt
<1> QED
  BY <1>2, <1>3, <1>4 DEF Undisturbed, HeldIsOpen

LEMMA LiveFacts ==
  ASSUME PromptsAssumption, Base, Undisturbed, NEW r \in Runs, Live(r)
  PROVE  /\ \A u \in Runs : Live(u) => u = r
         /\ Held(r) \subseteq Open(thread) /\ (Working(r) => ~thread.past)
         /\ crashes = 0 => Open(thread) \subseteq Held(r)
         /\ Open(thread) \subseteq Calls /\ Open(thread) \subseteq issued
         /\ InBlock(thread) \subseteq issued /\ InBlock(disk) \subseteq issued
         /\ executed \in [Calls -> Nat] /\ crashes \in Nat
<1>1. \A u \in Runs : Live(u) => u = r
  BY DEF Undisturbed, OneTurn
<1>2. Open(thread) \subseteq InBlock(thread) /\ InBlock(thread) \subseteq Calls
  BY Facts DEF Open, InBlock, Thread, Range
<1>3. crashes = 0 => Open(thread) \subseteq Held(r)
  BY <1>1 DEF Undisturbed, HeldIsOpen
<1> QED
  BY <1>1, <1>2, <1>3, Facts DEF Undisturbed, HeldIsOpen, RanOnce, Base, Types

(* While no tool is executing, what ran has its result or lost it. *)
LEMMA NoneExecuting ==
  ASSUME Undisturbed, \A u \in Runs : run[u].phase # "executing",
         NEW c \in Calls, executed[c] > 0
  PROVE  c \in issued /\ (c \in torn \/ (executed[c] = 1 /\ c \notin Open(thread)))
  BY DEF Undisturbed, RanOnce, Executing

LEMMA UserTurnUndisturbed ==
  ASSUME PromptsAssumption, Base, Undisturbed, NEW r \in Runs, UserTurn(r)
  PROVE  Undisturbed'
<1> USE DEF histVars, storeVars
<1>1. /\ ~running /\ running' = TRUE /\ run' = [run EXCEPT ![r] = NewRun("socket", "thinking", <<>>)]
      /\ thread' = [thread EXCEPT !.past = TRUE] /\ disk' = thread'
      /\ UNCHANGED <<issued, executed, torn, crashes>>
  BY DEF UserTurn
<1>2. /\ Only(r) /\ run'[r].phase = "thinking" /\ run'[r].todo = <<>> /\ run'[r].cleared = <<>>
  <2>1. "thinking" \in Phases /\ "socket" \in Kinds /\ <<>> \in Seq(Calls) /\ run \in [Runs -> RunRecord]
    BY Facts DEF Phases, Kinds
  <2> QED
    BY <1>1, <2>1, NewRunIs
<1>3. \A u \in Runs : ~Live(u)
  BY <1>1 DEF Undisturbed, OneTurn
<1>4. /\ Open(thread)' = Open(thread) /\ InBlock(thread)' = InBlock(thread)
      /\ InBlock(disk)' = InBlock(thread)
  BY <1>1, Facts, PastIs DEF Open, InBlock
<1>5. crashes = 0 => Open(thread) = {}
  BY <1>3 DEF Undisturbed, HeldIsOpen
<1>6. \A u \in Runs : Live(u)' <=> u = r
  BY <1>2, <1>3 DEF Live, Only
<1>7. OneTurn'
  BY <1>1, <1>6 DEF OneTurn
<1>8. Held(r)' = {}
  BY <1>2, RangeEmpty DEF Held
<1>9. \A u \in Runs : ~Working(u)' /\ ~Waiting(u)'
  BY <1>2, <1>6 DEF Working, Waiting, Live
<1>10. HeldIsOpen' /\ SavedAtPrompt'
  BY <1>1, <1>4, <1>5, <1>6, <1>8, <1>9 DEF HeldIsOpen, SavedAtPrompt
<1>11. \A u \in Runs : run[u].phase # "executing"
  BY <1>3 DEF Live
<1>12. RanOnce'
  BY <1>1, <1>4, <1>11, NoneExecuting DEF RanOnce, Undisturbed
<1> QED
  BY <1>7, <1>10, <1>12 DEF Undisturbed

LEMMA IssueUndisturbed ==
  ASSUME PromptsAssumption, Base, Undisturbed, NEW r \in Runs, NEW calls \in Blocks, Issue(r, calls)
  PROVE  Undisturbed'
<1> USE DEF histVars, storeVars
<1>1. /\ run[r].phase = "thinking" /\ Range(calls) \cap issued = {}
      /\ thread' = Block(calls) /\ issued' = issued \cup Range(calls)
      /\ UNCHANGED <<running, disk, executed, torn, crashes>>
  BY DEF Issue
<1>2. /\ Only(r) /\ run'[r].phase = "authorizing" /\ run'[r].todo = calls /\ run'[r].cleared = <<>>
  BY <1>1, Facts, BlocksAre, IssueIs DEF Placed
<1>3. Live(r) /\ Live(r)' /\ ~Waiting(r)'
  BY <1>1, <1>2 DEF Live, Waiting
<1>4. /\ Open(thread)' = Range(calls) /\ InBlock(thread)' = Range(calls) /\ ~thread'.past
      /\ InBlock(disk)' = InBlock(disk)
  BY <1>1 DEF Open, InBlock, Block
<1>5. Held(r)' = Range(calls)
  BY <1>2, RangeEmpty DEF Held
<1>6. \A u \in Runs : run[u].phase # "executing"
  BY <1>1, <1>3, LiveFacts DEF Live
<1>7. RanOnce'
  BY <1>1, <1>3, <1>4, <1>6, LiveFacts, NoneExecuting DEF RanOnce
<1> QED
  BY <1>1, <1>2, <1>3, <1>4, <1>5, <1>7, LiveRunMoves DEF Undisturbed

LEMMA RaisePromptUndisturbed ==
  ASSUME PromptsAssumption, Base, Undisturbed, NEW r \in Runs, NEW c \in Calls, RaisePrompt(r, c)
  PROVE  Undisturbed'
<1> USE DEF histVars, storeVars
<1>1. /\ run[r].phase = "authorizing" /\ Enter(r, "waiting") /\ disk' = thread
      /\ UNCHANGED <<running, thread, issued, executed, torn, crashes>>
  BY DEF RaisePrompt, Authorizing
<1>2. /\ Only(r) /\ run'[r].phase = "waiting"
      /\ run'[r].todo = run[r].todo /\ run'[r].cleared = run[r].cleared
  BY <1>1, Facts, EnterIs DEF Phases
<1>3. Live(r) /\ Live(r)' /\ Working(r) /\ Held(r)' = Held(r)
  BY <1>1, <1>2 DEF Live, Working, Held
<1>4. \A u \in Runs : run[u].phase # "executing"
  BY <1>1, <1>3, LiveFacts DEF Live
<1>5. RanOnce'
  BY <1>1, <1>3, <1>4, LiveFacts, NoneExecuting DEF RanOnce
<1> QED
  BY <1>1, <1>2, <1>3, <1>5, LiveFacts, LiveRunMoves DEF Undisturbed, Open, InBlock

(* A call of the live run is answered, and the run no longer holds it.     *)
LEMMA AnsweredUndisturbed ==
  ASSUME PromptsAssumption, Base, Undisturbed, NEW r \in Runs, NEW c \in Calls,
         Working(r), Only(r), run'[r].phase = "authorizing",
         Held(r)' = Held(r) \ {c}, Answered(c),
         run[r].phase = "executing" => c = Head(run[r].cleared),
         UNCHANGED <<running, disk, issued, executed, torn, crashes>>
  PROVE  Undisturbed'
<1>1. Live(r) /\ Live(r)' /\ ~Waiting(r)'
  BY DEF Live, Working, Waiting
<1>2. /\ thread'.past = thread.past /\ InBlock(thread)' = InBlock(thread)
      /\ Open(thread)' = Open(thread) \ {c} /\ InBlock(disk)' = InBlock(disk)
  BY Facts, AnsweredIs DEF Open, InBlock
<1>3. ASSUME NEW d \in Calls, executed[d] > 0
      PROVE  d \in issued /\ (d \in torn \/ (executed[d] = 1 /\ d \notin Open(thread)'))
  <2>1. d \in issued /\ (d \in torn \/ (executed[d] = 1 /\ (d \in Open(thread) => Executing(d))))
    BY <1>3 DEF Undisturbed, RanOnce
  <2>2. Executing(d) => d = c
    BY <1>1, LiveFacts DEF Executing, Live
  <2> QED
    BY <1>2, <2>1, <2>2
<1>4. RanOnce'
  BY <1>1, <1>2, <1>3, LiveFacts DEF RanOnce
<1>5. Held(r)' \subseteq Open(thread)' /\ (crashes' = 0 => Open(thread)' \subseteq Held(r)')
  BY <1>1, <1>2, LiveFacts
<1> QED
  BY <1>1, <1>2, <1>4, <1>5, LiveFacts, LiveRunMoves DEF Undisturbed

LEMMA TakeAnswerUndisturbed ==
  ASSUME PromptsAssumption, Base, Undisturbed, NEW r \in Runs, NEW c \in Calls,
         TakeAnswer(r, c) \/ Interrupted(r, c)
  PROVE  Undisturbed'
<1> USE DEF histVars, storeVars
<1>1. /\ run[r].phase \in {"waiting", "authorizing"} /\ run[r].todo # <<>> /\ c = Head(run[r].todo)
      /\ UNCHANGED <<running, disk, issued, executed, torn, crashes>>
  BY Facts DEF TakeAnswer, Interrupted, Authorizing, Waiting, Placed
<1> DEFINE todo == run[r].todo
           cleared == run[r].cleared
<1>2. /\ todo \in Seq(Calls) /\ todo # <<>> /\ cleared \in Seq(Calls) /\ IsInjective(todo)
      /\ Range(todo) \cap Range(cleared) = {} /\ c = Head(todo)
  BY <1>1, Facts DEF Tidy
<1>3. \A cl \in Seq(Calls) : Next1(r, cl) =>
        Only(r) /\ run'[r].phase = "authorizing" /\ run'[r].todo = Tail(todo) /\ run'[r].cleared = cl
  BY <1>1, Facts, Next1Is
<1>4. Held(r) = Range(todo) \cup Range(cleared)
  BY DEF Held
<1>5. \A cl \in Seq(Calls) : Next1(r, cl) => Held(r)' = Range(Tail(todo)) \cup Range(cl)
  BY <1>3 DEF Held
<1>6. (Next1(r, Append(cleared, c)) /\ UNCHANGED thread) \/ (Next1(r, cleared) /\ Answered(c))
  BY DEF TakeAnswer, Interrupted
<1>7. Live(r) /\ Working(r)
  BY <1>1 DEF Live, Working
<1> HIDE DEF todo, cleared
<1>8. Range(todo) = {c} \cup Range(Tail(todo)) /\ c \notin Range(Tail(todo))
  BY <1>2, RangeHeadTail, InjectiveTail
<1>9. Append(cleared, c) \in Seq(Calls) /\ Range(Append(cleared, c)) = Range(cleared) \cup {c}
  BY <1>2, RangeAppend
<1>10. CASE Next1(r, Append(cleared, c)) /\ UNCHANGED thread
  <2>1. Only(r) /\ run'[r].phase = "authorizing" /\ Held(r)' = Held(r)
    BY <1>3, <1>4, <1>5, <1>8, <1>9, <1>10
  <2>2. Live(r)' /\ ~Waiting(r)'
    BY <2>1 DEF Live, Waiting
  <2>3. \A u \in Runs : run[u].phase # "executing"
    BY <1>1, <1>7, LiveFacts DEF Live
  <2>4. RanOnce'
    BY <1>1, <1>7, <1>10, <2>3, LiveFacts, NoneExecuting DEF RanOnce
  <2> QED
    BY <1>1, <1>7, <1>10, <2>1, <2>2, <2>4, LiveFacts, LiveRunMoves
       DEF Undisturbed, Open, InBlock
<1>11. CASE Next1(r, cleared) /\ Answered(c)
  <2>1. Only(r) /\ run'[r].phase = "authorizing"
    BY <1>2, <1>3, <1>11
  <2>2. Held(r)' = Held(r) \ {c}
    BY <1>2, <1>4, <1>5, <1>8, <1>11
  <2>3. run[r].phase # "executing"
    BY <1>1
  <2> QED
    BY <1>1, <1>7, <1>11, <2>1, <2>2, <2>3, AnsweredUndisturbed
<1> QED
  BY <1>6, <1>10, <1>11

LEMMA ExecuteUndisturbed ==
  ASSUME PromptsAssumption, Base, Undisturbed, NEW r \in Runs, NEW c \in Calls, Execute(r, c)
  PROVE  Undisturbed'
<1> USE DEF histVars, storeVars
<1>1. /\ run[r].phase = "authorizing" /\ run[r].cleared # <<>> /\ c = Head(run[r].cleared)
      /\ executed' = [executed EXCEPT ![c] = executed[c] + 1] /\ Enter(r, "executing")
      /\ UNCHANGED <<running, thread, disk, issued, torn, crashes>>
  BY DEF Execute, ToExecute
<1>2. /\ Only(r) /\ run'[r].phase = "executing"
      /\ run'[r].todo = run[r].todo /\ run'[r].cleared = run[r].cleared
  BY <1>1, Facts, EnterIs DEF Phases
<1>3. Live(r) /\ Live(r)' /\ Working(r) /\ ~Waiting(r)' /\ Held(r)' = Held(r)
  BY <1>1, <1>2 DEF Live, Working, Waiting, Held
<1>4. \A u \in Runs : run[u].phase # "executing"
  BY <1>1, <1>3, LiveFacts DEF Live
<1>5. c \in Open(thread)
  <2>1. c \in Range(run[r].cleared)
    BY <1>1, Facts, RangeHeadTail
  <2> QED
    BY <1>3, <2>1, LiveFacts DEF Held
<1>6. /\ InBlock(thread)' = InBlock(thread) /\ InBlock(disk)' = InBlock(disk)
      /\ Open(thread)' = Open(thread)
  BY <1>1 DEF InBlock, Open
<1>7. Executing(c)'
  BY <1>1, <1>2 DEF Executing
<1>8. ASSUME NEW d \in Calls, executed'[d] > 0
      PROVE  d \in issued /\ (d \in torn \/ (executed'[d] = 1 /\ (d \in Open(thread) => Executing(d)')))
  <2>1. executed \in [Calls -> Nat]
    BY <1>3, LiveFacts
  <2>2. CASE d = c
    <3>1. executed'[c] = executed[c] + 1 /\ executed[c] \in Nat
      BY <1>1, <2>1
    <3>2. c \in issued
      BY <1>3, <1>5, LiveFacts
    <3>3. executed[c] > 0 => c \in torn
      BY <1>4, <1>5, NoneExecuting
    <3> QED
      BY <1>7, <2>2, <3>1, <3>2, <3>3
  <2>3. CASE d # c
    <3>1. executed'[d] = executed[d]
      BY <1>1, <2>1, <2>3
    <3> QED
      BY <1>4, <1>8, <3>1, NoneExecuting
  <2> QED
    BY <2>2, <2>3
<1>9. RanOnce'
  BY <1>1, <1>3, <1>6, <1>8, LiveFacts DEF RanOnce
<1> QED
  BY <1>1, <1>2, <1>3, <1>6, <1>9, LiveFacts, LiveRunMoves DEF Undisturbed

LEMMA DequeueUndisturbed ==
  ASSUME PromptsAssumption, Base, Undisturbed, NEW r \in Runs, NEW c \in Calls,
         ExecuteDone(r, c) \/ SkipExecute(r, c)
  PROVE  Undisturbed'
<1> USE DEF histVars, storeVars
<1> DEFINE todo == run[r].todo
           cleared == run[r].cleared
<1>1. /\ run[r].phase \in {"executing", "authorizing"} /\ c = Head(cleared)
      /\ cleared # <<>> /\ Dequeue(r) /\ Answered(c)
      /\ UNCHANGED <<running, disk, issued, executed, torn, crashes>>
  BY Facts DEF ExecuteDone, SkipExecute, ToExecute, Placed
<1>2. /\ Only(r) /\ run'[r].phase = "authorizing" /\ run'[r].todo = todo
      /\ run'[r].cleared = Tail(cleared)
  BY <1>1, Facts, DequeueIs
<1>3. /\ cleared \in Seq(Calls) /\ todo \in Seq(Calls) /\ IsInjective(cleared)
      /\ Range(todo) \cap Range(cleared) = {}
  BY Facts DEF Tidy
<1>4. /\ Held(r) = Range(todo) \cup Range(cleared)
      /\ Held(r)' = Range(todo) \cup Range(Tail(cleared))
  BY <1>2 DEF Held
<1>5. Working(r)
  BY <1>1 DEF Working
<1>6. run[r].phase = "executing" => c = Head(run[r].cleared)
  BY <1>1
<1> HIDE DEF todo, cleared
<1>7. Range(cleared) = {c} \cup Range(Tail(cleared)) /\ c \notin Range(Tail(cleared))
  BY <1>1, <1>3, RangeHeadTail, InjectiveTail
<1>8. Held(r)' = Held(r) \ {c}
  BY <1>3, <1>4, <1>7
<1> QED
  BY <1>1, <1>2, <1>5, <1>6, <1>8, AnsweredUndisturbed

LEMMA EndBlockUndisturbed ==
  ASSUME PromptsAssumption, Base, Undisturbed, NEW r \in Runs, EndBlock(r)
  PROVE  Undisturbed'
<1> USE DEF histVars, storeVars
<1>1. PICK p \in {"thinking", "ending"} : Enter(r, p)
  BY DEF EndBlock
<1>2. /\ run[r].phase = "authorizing" /\ disk' \in {disk, thread}
      /\ UNCHANGED <<running, thread, issued, executed, torn, crashes>>
  BY DEF EndBlock
<1>3. /\ Only(r) /\ run'[r].phase = p
      /\ run'[r].todo = run[r].todo /\ run'[r].cleared = run[r].cleared
  BY <1>1, Facts, EnterIs DEF Phases
<1>4. Live(r) /\ Live(r)' /\ ~Working(r)' /\ ~Waiting(r)' /\ Held(r)' = Held(r)
  BY <1>2, <1>3 DEF Live, Working, Waiting, Held
<1>5. \A u \in Runs : run[u].phase # "executing"
  BY <1>2, <1>4, LiveFacts DEF Live
<1>6. Open(thread)' = Open(thread) /\ InBlock(thread)' \subseteq issued /\ InBlock(disk)' \subseteq issued
  BY <1>2, <1>4, LiveFacts DEF Open, InBlock
<1>7. RanOnce'
  BY <1>2, <1>5, <1>6, NoneExecuting DEF RanOnce
<1> QED
  BY <1>2, <1>3, <1>4, <1>6, <1>7, LiveFacts, LiveRunMoves DEF Undisturbed

LEMMA FinishUndisturbed ==
  ASSUME PromptsAssumption, Base, ~ScheduledRan, Undisturbed, NEW r \in Runs, Finish(r)
  PROVE  Undisturbed'
<1> USE DEF histVars, storeVars
<1>1. /\ run[r].phase \in {"thinking", "ending"} /\ Enter(r, "done") /\ disk' = thread
      /\ running' = FALSE /\ UNCHANGED <<thread, issued, executed, torn, crashes>>
  BY DEF Finish, Flagged, ScheduledRan
<1>2. Only(r) /\ run'[r].phase = "done"
  BY <1>1, Facts, EnterIs DEF Phases
<1>3. Live(r) /\ run[r].todo = <<>> /\ run[r].cleared = <<>>
  BY <1>1, Facts DEF Live, Placed
<1>4. \A u \in Runs : ~Live(u)'
  BY <1>2, <1>3, LiveFacts DEF Live, Only
<1>5. OneTurn' /\ SavedAtPrompt'
  BY <1>1, <1>4 DEF OneTurn, SavedAtPrompt, Live, Waiting
<1>6. crashes = 0 => Open(thread) = {}
  <2>1. Held(r) = {}
    BY <1>3, RangeEmpty DEF Held
  <2> QED
    BY <1>3, <2>1, LiveFacts
<1>7. HeldIsOpen'
  <2>1. Open(thread)' = Open(thread) /\ crashes' = crashes
    BY <1>1 DEF Open, InBlock
  <2>2. \A u \in Runs : ~Working(u)'
    BY <1>4 DEF Live, Working
  <2> QED
    BY <1>4, <1>6, <2>1, <2>2 DEF HeldIsOpen
<1>8. \A u \in Runs : run[u].phase # "executing"
  BY <1>1, <1>3, LiveFacts DEF Live
<1>9. Open(thread)' = Open(thread) /\ InBlock(thread)' \subseteq issued /\ InBlock(disk)' \subseteq issued
  BY <1>1, <1>3, LiveFacts DEF Open, InBlock
<1>10. RanOnce'
  BY <1>1, <1>8, <1>9, NoneExecuting DEF RanOnce
<1> QED
  BY <1>5, <1>7, <1>10 DEF Undisturbed

LEMMA ResumeUndisturbed ==
  ASSUME PromptsAssumption, Base, Undisturbed, NEW r \in Runs, ~running, DurableResume(r),
         Unanswered(thread) # <<>>, UNCHANGED <<thread, disk, histVars>>
  PROVE  Undisturbed'
<1> USE DEF histVars
<1> DEFINE todo == Unanswered(thread)
<1>1. todo \in Seq(Calls) /\ Range(todo) = (IF thread.past THEN {} ELSE Open(thread))
  BY Facts, UnansweredIs
<1>2. ~thread.past
  BY DEF Unanswered
<1>3. running' = TRUE /\ run' = [run EXCEPT ![r] = NewRun("resume", "authorizing", todo)]
  BY DEF DurableResume
<1> HIDE DEF todo
<1>4. Only(r) /\ run'[r].phase = "authorizing" /\ run'[r].todo = todo /\ run'[r].cleared = <<>>
  BY <1>1, <1>3, Facts, NewRunIs DEF Kinds, Phases
<1>5. Held(r)' = Open(thread)
  BY <1>1, <1>2, <1>4, RangeEmpty DEF Held
<1>6. \A u \in Runs : ~Live(u)
  BY DEF Undisturbed, OneTurn
<1>7. \A u \in Runs : Live(u)' <=> u = r
  BY <1>4, <1>6 DEF Live, Only
<1>8. OneTurn'
  BY <1>3, <1>7 DEF OneTurn
<1>9. SavedAtPrompt'
  BY <1>4, <1>7 DEF SavedAtPrompt, Waiting, Live
<1>10. Open(thread)' = Open(thread) /\ InBlock(thread)' = InBlock(thread) /\ InBlock(disk)' = InBlock(disk)
  BY DEF Open, InBlock
<1>11. HeldIsOpen'
  BY <1>2, <1>5, <1>7, <1>10 DEF HeldIsOpen
<1>12. \A u \in Runs : run[u].phase # "executing"
  BY <1>6 DEF Live
<1>13. RanOnce'
  BY <1>10, <1>12, NoneExecuting DEF RanOnce, Undisturbed
<1> QED
  BY <1>8, <1>9, <1>11, <1>13 DEF Undisturbed

LEMMA CrashUndisturbed == ASSUME PromptsAssumption, Base, Undisturbed, Crash PROVE Undisturbed'
<1> USE DEF histVars, storeVars
<1>1. /\ run' = [r \in Runs |-> IF Live(r) THEN [run[r] EXCEPT !.phase = "dead"] ELSE run[r]]
      /\ disk' = Repair(disk) /\ thread' = disk' /\ running' = FALSE /\ crashes' = crashes + 1
      /\ torn' = torn \cup {c \in Open(disk) : executed[c] > 0} /\ UNCHANGED <<issued, executed>>
  BY DEF Crash
<1>2. \A u \in Runs : ~Live(u)'
  <2>1. ASSUME NEW u \in Runs PROVE ~Live(u)'
    <3>1. run[u] \in RunRecord
      BY Facts
    <3>2. CASE Live(u)
      <4>1. run'[u] = [run[u] EXCEPT !.phase = "dead"]
        BY <1>1, <3>2
      <4> QED
        BY <3>1, <4>1 DEF RunRecord, Live
    <3>3. CASE ~Live(u)
      BY <1>1, <3>3 DEF Live
    <3> QED
      BY <3>2, <3>3
  <2> QED
    BY <2>1
<1>3. OneTurn' /\ SavedAtPrompt'
  BY <1>1, <1>2 DEF OneTurn, SavedAtPrompt, Live, Waiting
<1>4. HeldIsOpen'
  <2>1. crashes' # 0
    BY <1>1 DEF Base, Types
  <2>2. \A u \in Runs : ~Working(u)'
    BY <1>2 DEF Live, Working
  <2> QED
    BY <1>2, <2>1, <2>2 DEF HeldIsOpen
<1>5. /\ InBlock(disk)' = InBlock(disk) /\ InBlock(thread)' = InBlock(disk)
      /\ Open(thread)' \subseteq Open(disk)
  BY <1>1, Facts, RepairIs DEF InBlock, Open
<1>6. RanOnce'
  BY <1>1, <1>5 DEF RanOnce, Undisturbed
<1> QED
  BY <1>3, <1>4, <1>6 DEF Undisturbed

-----------------------------------------------------------------------------
(* Once an automation ran, it has run. *)
LEMMA KindStays ==
  ASSUME PromptsAssumption, Base, NEW r \in Runs, Only(r), ScheduledRan,
         run'[r].kind = run[r].kind \/ run[r].phase = "unused"
  PROVE  ScheduledRan'
<1>1. PICK u \in Runs : run[u].kind = "scheduled"
  BY DEF ScheduledRan
<1>2. run'[u].kind = "scheduled"
  BY <1>1, Facts DEF Placed, Only
<1> QED
  BY <1>2 DEF ScheduledRan

LEMMA FreshIsUnused == ASSUME NEW r \in Runs, Fresh(r) PROVE run[r].phase = "unused"
<1>1. r \in Int
  BY DEF Runs
<1> QED
  BY <1>1 DEF Fresh

LEMMA ScheduledRanStays ==
  ASSUME PromptsAssumption, Base, [Next]_vars, ScheduledRan
  PROVE  ScheduledRan'
<1>1. ASSUME NEW r \in Runs, Fresh(r), Only(r) PROVE ScheduledRan'
  BY <1>1, FreshIsUnused, KindStays
<1>2. ASSUME NEW r \in Runs, NEW k \in Kinds, NEW p \in Phases, NEW todo \in Seq(Calls),
             Fresh(r), run' = [run EXCEPT ![r] = NewRun(k, p, todo)]
      PROVE  ScheduledRan'
  <2>1. Only(r)
    BY <1>2, Facts, NewRunIs
  <2> QED
    BY <1>1, <1>2, <2>1
<1>3. ASSUME NEW r \in Runs, NEW p \in Phases, Enter(r, p) PROVE ScheduledRan'
  <2>1. Only(r) /\ run'[r].kind = run[r].kind
    BY <1>3, Facts, EnterIs
  <2> QED
    BY <2>1, KindStays
<1>4. ASSUME NEW r \in Runs, UserTurn(r) \/ ScheduledTurn(r) PROVE ScheduledRan'
  <2>1. PICK k \in Kinds : Fresh(r) /\ run' = [run EXCEPT ![r] = NewRun(k, "thinking", <<>>)]
    BY <1>4 DEF UserTurn, ScheduledTurn, Kinds
  <2>2. "thinking" \in Phases /\ <<>> \in Seq(Calls)
    BY DEF Phases
  <2> QED
    BY <1>2, <2>1, <2>2
<1>5. ASSUME NEW r \in Runs, NEW calls \in Blocks, Issue(r, calls) PROVE ScheduledRan'
  <2>1. Only(r) /\ run'[r].kind = run[r].kind
    BY <1>5, Facts, BlocksAre, IssueIs
  <2> QED
    BY <2>1, KindStays
<1>6. ASSUME NEW r \in Runs, NEW c \in Calls, TakeAnswer(r, c) \/ Interrupted(r, c)
      PROVE  ScheduledRan'
  <2>1. run[r].todo # <<>>
    BY <1>6, Facts DEF TakeAnswer, Interrupted, Authorizing, Waiting, Placed
  <2>2. PICK cl \in Seq(Calls) : Next1(r, cl)
    <3>1. run[r].cleared \in Seq(Calls) /\ Append(run[r].cleared, c) \in Seq(Calls)
      BY Facts
    <3> QED
      BY <1>6, <3>1 DEF TakeAnswer, Interrupted
  <2>3. Only(r) /\ run'[r].kind = run[r].kind
    BY <2>1, <2>2, Facts, Next1Is
  <2> QED
    BY <2>3, KindStays
<1>7. ASSUME NEW r \in Runs, NEW c \in Calls, ExecuteDone(r, c) \/ SkipExecute(r, c)
      PROVE  ScheduledRan'
  <2>1. Dequeue(r) /\ run[r].cleared # <<>>
    BY <1>7, Facts DEF ExecuteDone, SkipExecute, ToExecute, Placed
  <2>2. Only(r) /\ run'[r].kind = run[r].kind
    BY <2>1, Facts, DequeueIs
  <2> QED
    BY <2>2, KindStays
<1>8. ASSUME NEW r \in Runs, NEW c \in Calls, RaisePrompt(r, c) \/ Execute(r, c) PROVE ScheduledRan'
  <2>1. PICK p \in Phases : Enter(r, p)
    BY <1>8 DEF RaisePrompt, Execute, Phases
  <2> QED
    BY <1>3, <2>1
<1>9. ASSUME NEW r \in Runs, EndBlock(r) \/ Finish(r) PROVE ScheduledRan'
  <2>1. PICK p \in Phases : Enter(r, p)
    BY <1>9 DEF EndBlock, Finish, Phases
  <2> QED
    BY <1>3, <2>1
<1>10. ASSUME NEW r \in Runs, DurableResume(r) PROVE ScheduledRan'
  <2>1. Unanswered(thread) \in Seq(Calls) /\ "resume" \in Kinds /\ "authorizing" \in Phases
    BY Facts, UnansweredIs DEF Kinds, Phases
  <2>2. Fresh(r) /\ run' = [run EXCEPT ![r] = NewRun("resume", "authorizing", Unanswered(thread))]
    BY <1>10 DEF DurableResume
  <2> QED
    BY <1>2, <2>1, <2>2
<1>11. ASSUME UNCHANGED run PROVE ScheduledRan'
  BY <1>11 DEF ScheduledRan
<1>12. CASE Crash
  <2>1. \A u \in Runs : run'[u].kind = run[u].kind
    BY <1>12, Facts DEF Crash, RunRecord
  <2> QED
    BY <2>1 DEF ScheduledRan
<1>13. ASSUME NEW c \in Calls, NEW answer \in Answers, AnswerById(c, answer) PROVE ScheduledRan'
  BY <1>10, <1>11, <1>13 DEF AnswerById
<1> QED
  BY <1>4, <1>5, <1>6, <1>7, <1>8, <1>9, <1>11, <1>12, <1>13
  DEF Next, RunStep, CallStep, Stop, AnswerLive, AnswerByReply, vars

LEMMA UndisturbedStep ==
  ASSUME PromptsAssumption, IInv, [Next]_vars, ~ScheduledRan'
  PROVE  Undisturbed'
<1> USE DEF histVars, storeVars
<1>1. Base /\ ~ScheduledRan /\ Undisturbed
  BY ScheduledRanStays DEF IInv
<1>2. ASSUME NEW r \in Runs, UserTurn(r) PROVE Undisturbed'
  BY <1>1, <1>2, UserTurnUndisturbed
<1>3. ASSUME NEW r \in Runs, ScheduledTurn(r) PROVE Undisturbed'
  <2>1. run'[r] = NewRun("scheduled", "thinking", <<>>)
    BY <1>1, <1>3, Facts DEF ScheduledTurn
  <2> QED
    BY <2>1 DEF ScheduledRan, NewRun
<1>4. ASSUME NEW r \in Runs, NEW calls \in Blocks, Issue(r, calls) PROVE Undisturbed'
  BY <1>1, <1>4, IssueUndisturbed
<1>5. ASSUME NEW r \in Runs, NEW c \in Calls, CallStep(r, c) PROVE Undisturbed'
  BY <1>1, <1>5, RaisePromptUndisturbed, TakeAnswerUndisturbed, ExecuteUndisturbed,
     DequeueUndisturbed DEF CallStep
<1>6. ASSUME NEW r \in Runs, EndBlock(r) \/ Finish(r) PROVE Undisturbed'
  BY <1>1, <1>6, EndBlockUndisturbed, FinishUndisturbed
<1>7. ASSUME UNCHANGED <<running, run, thread, disk, issued, executed, torn, crashes>>
      PROVE  Undisturbed'
  BY <1>1, <1>7
  DEF Undisturbed, OneTurn, HeldIsOpen, SavedAtPrompt, RanOnce, Live, Held, Open, InBlock,
      Working, Waiting, Executing
<1>8. ASSUME NEW c \in Calls, NEW answer \in Answers, AnswerById(c, answer) PROVE Undisturbed'
  BY <1>1, <1>7, <1>8, ResumeUndisturbed DEF AnswerById, Resumable
<1>9. CASE Crash
  BY <1>1, <1>9, CrashUndisturbed
<1> QED
  BY <1>2, <1>3, <1>4, <1>5, <1>6, <1>7, <1>8, <1>9
  DEF Next, RunStep, Stop, AnswerLive, AnswerByReply, vars

-----------------------------------------------------------------------------

LEMMA InitIInv == ASSUME PromptsAssumption, Init PROVE IInv
<1>1. Init
  OBVIOUS
<1>2. MaxBlock \in Nat /\ MaxCrashes \in Nat /\ Len(<<>>) = 0
  BY DEF PromptsAssumption
<1>3. \A r \in Runs : /\ run[r] \in RunRecord /\ Tidy(run[r]) /\ Placed(run[r])
                      /\ run[r].cleared = <<>> /\ ~Live(r) /\ run[r].phase = "unused"
  BY <1>1, <1>2, RangeEmpty, InjectiveEmpty
  DEF Init, NoRun, NewRun, RunRecord, Tidy, Placed, Live, Kinds, Phases
<1>4. run \in [Runs -> RunRecord]
  BY <1>1, <1>3 DEF Init
<1>5. /\ thread \in Thread /\ disk \in Thread /\ Whole(thread) /\ Whole(disk)
      /\ InBlock(thread) = {} /\ InBlock(disk) = {}
  BY <1>1, <1>2, RangeEmpty, InjectiveEmpty DEF Init, Block, Thread, Whole, InBlock
<1>6. Types
  <2>1. <<>> \in Seq(Calls) /\ 0 \in 0..MaxCrashes
    BY <1>2
  <2> QED
    <3>1. /\ running \in BOOLEAN /\ cancel \in BOOLEAN /\ raised \in Seq(Calls)
          /\ issued \subseteq Calls /\ torn \subseteq Calls /\ crashes \in 0..MaxCrashes
      BY <1>1, <2>1 DEF Init
    <3>2. /\ items \in [Calls -> {"none", "pending"} \cup Answers]
          /\ executed \in [Calls -> Nat]
      BY <1>1 DEF Init
    <3> QED
      BY <1>4, <1>5, <3>1, <3>2 DEF Types
<1>7. RaisedOnce
  BY <1>1, RangeEmpty, InjectiveEmpty DEF Init, RaisedOnce
<1>8. ClearedIsAllowed /\ RanWithConsent
  BY <1>1, <1>3, RangeEmpty DEF Init, ClearedIsAllowed, RanWithConsent
<1>9. OneTurn /\ HeldIsOpen /\ SavedAtPrompt /\ RanOnce
  BY <1>1, <1>3, <1>5
  DEF Init, OneTurn, HeldIsOpen, SavedAtPrompt, RanOnce, Working, Waiting, Open
<1> QED
  BY <1>3, <1>5, <1>6, <1>7, <1>8, <1>9 DEF IInv, Base, Blocked, Undisturbed

LEMMA IInvStep == ASSUME PromptsAssumption, IInv, [Next]_vars PROVE IInv'
<1>1. Base'
  BY BaseStep DEF IInv
<1> QED
  BY <1>1, UndisturbedStep DEF IInv

LEMMA IInvHolds == Spec => []IInv
<1>1. Init => IInv
  BY PromptsAssumption, InitIInv
<1>2. IInv /\ [Next]_vars => IInv'
  BY PromptsAssumption, IInvStep
<1> QED
  BY <1>1, <1>2, PTL DEF Spec

(* The values each variable ranges over; no call is in a list twice.       *)
THEOREM TypeCorrect == Spec => []TypeOK
<1>1. ASSUME NEW s \in Seq(Calls), IsInjective(s), Len(s) <= MaxBlock PROVE s \in CallSeqs
  <2>1. Len(s) \in 0..MaxBlock /\ s \in [1..Len(s) -> Calls]
    BY <1>1, PromptsAssumption DEF PromptsAssumption
  <2> QED
    BY <1>1, <2>1 DEF CallSeqs, SeqOf
<1>2. ASSUME Base PROVE TypeOK
  <2>1. \A r \in Runs : run[r] \in [kind : Kinds, phase : Phases, todo : CallSeqs, cleared : CallSeqs]
    <3>1. ASSUME NEW r \in Runs
          PROVE  run[r].todo \in CallSeqs /\ run[r].cleared \in CallSeqs
      <4>1. /\ run[r].todo \in Seq(Calls) /\ run[r].cleared \in Seq(Calls) /\ MaxBlock \in Nat
            /\ IsInjective(run[r].todo) /\ IsInjective(run[r].cleared)
            /\ Len(run[r].todo) + Len(run[r].cleared) <= MaxBlock
        BY <1>2, PromptsAssumption, Facts DEF Tidy
      <4>2. Len(run[r].todo) \in Nat /\ Len(run[r].cleared) \in Nat
        BY <4>1
      <4>3. \A n, m \in Nat : n + m <= MaxBlock => n <= MaxBlock /\ m <= MaxBlock
        BY <4>1
      <4>4. Len(run[r].todo) <= MaxBlock /\ Len(run[r].cleared) <= MaxBlock
        BY <4>1, <4>2, <4>3
      <4> QED
        BY <1>1, <4>1, <4>4
    <3>2. \A r \in Runs : run[r] \in RunRecord
      BY <1>2, PromptsAssumption, Facts
    <3> QED
      BY <3>1, <3>2 DEF RunRecord
  <2>2. thread \in BlockRecord /\ disk \in BlockRecord
    BY <1>1, <1>2, PromptsAssumption, Facts DEF Whole, Thread, BlockRecord
  <2> QED
    BY <1>2, <2>1, <2>2 DEF TypeOK, Base, Types, RaisedOnce
<1>3. IInv => TypeOK
  BY <1>2 DEF IInv
<1> QED
  BY <1>3, IInvHolds, PTL

(* No tool runs without the recorded consent of its own prompt, through    *)
(* stops, answers from every surface, automations, crashes and resumes.    *)
THEOREM ToolsRunWithConsent == Spec => []RanWithConsent
<1>1. IInv => RanWithConsent
  BY DEF IInv, Base
<1> QED
  BY <1>1, IInvHolds, PTL

(* A tool runs again only if a crash lost its result, or beside an         *)
(* automation.                                                             *)
THEOREM NothingRunsTwice == Spec => []ExecutedOnce
<1>1. IInv => ExecutedOnce
  <2>1. ASSUME IInv, NEW c \in Calls, executed[c] > 1, ~ScheduledRan PROVE c \in torn
    <3>1. executed[c] \in Nat
      BY <2>1 DEF IInv, Base, Types
    <3> QED
      BY <2>1, <3>1 DEF IInv, Undisturbed, RanOnce
  <2> QED
    BY <2>1 DEF ExecutedOnce
<1> QED
  BY <1>1, IInvHolds, PTL

(* A prompt somebody is asked to answer is on disk, unanswered. *)
THEOREM PromptsAreSaved == Spec => []ParkedPromptIsSaved
<1>1. IInv => ParkedPromptIsSaved
  <2>1. ASSUME IInv, NEW r \in Runs, Waiting(r), ~ScheduledRan
        PROVE  Head(run[r].todo) \in Range(Unanswered(disk))
    <3>1. Base /\ Undisturbed
      BY <2>1 DEF IInv
    <3>2. Live(r) /\ Working(r) /\ run[r].todo # <<>> /\ disk = thread
      BY <2>1, <3>1, PromptsAssumption, Facts
      DEF Live, Working, Waiting, Placed, Undisturbed, SavedAtPrompt
    <3>3. Head(run[r].todo) \in Held(r)
      BY <3>1, <3>2, PromptsAssumption, Facts, RangeHeadTail DEF Held
    <3>4. Head(run[r].todo) \in Open(disk) /\ ~disk.past
      BY <3>1, <3>2, <3>3, PromptsAssumption, LiveFacts
    <3> QED
      BY <3>1, <3>4, PromptsAssumption, Facts, UnansweredIs
  <2> QED
    BY <2>1 DEF ParkedPromptIsSaved
<1> QED
  BY <1>1, IInvHolds, PTL

(* Before the first crash the model is never called on a conversation with *)
(* an old call that has no result.                                         *)
THEOREM NoneOrphaned == Spec => []NoOrphans
<1>1. IInv => NoOrphans
  <2>1. ASSUME IInv, NEW r \in Runs, run[r].phase = "thinking", ~(crashes > 0), ~ScheduledRan
        PROVE  ~Orphaned
    <3>1. Base /\ Undisturbed
      BY <2>1 DEF IInv
    <3>2. crashes = 0
      BY <2>1, <3>1, PromptsAssumption DEF Base, Types, PromptsAssumption
    <3>3. Live(r) /\ run[r].todo = <<>> /\ run[r].cleared = <<>>
      BY <2>1, <3>1, PromptsAssumption, Facts DEF Live, Placed
    <3>4. Held(r) = {}
      BY <3>3, RangeEmpty DEF Held
    <3>5. Open(thread) = {}
      BY <3>1, <3>2, <3>3, <3>4, PromptsAssumption, LiveFacts
    <3> QED
      BY <3>5 DEF Orphaned
  <2> QED
    BY <2>1 DEF NoOrphans
<1> QED
  BY <1>1, IInvHolds, PTL

=============================================================================
