----------------------------- MODULE EngineTurn -----------------------------
(***************************************************************************)
(* One TurnEngine and its runs (engine.py): the model loop with its cap,   *)
(* and a block of tool calls: authorized one by one, the low-risk ones     *)
(* then executed together on worker threads, the others one at a time.     *)
(* The user may press Stop, and messages may be steered in, at any await.  *)
(*                                                                         *)
(* What a prompt is and who answers it is Prompts'; which calls need one   *)
(* is Permissions'; here a call is allowed, refused or asked about.        *)
(***************************************************************************)
EXTENDS Naturals, Sequences, FiniteSets, SequencesExt, Functions, Kept

CONSTANTS
  Calls,       (* tool_call ids                                            *)
  LowRisk,     (* those whose tool declares risk "low" and no approval     *)
  MaxBlock,    (* bound: calls in one reply                                *)
  MaxIter,     (* engine.max_iterations                                    *)
  MaxSteered   (* bound: messages steered in                               *)

(* What the constants are; Engine assumes it. *)
EngineAssumption ==
  /\ LowRisk \subseteq Calls
  /\ {MaxBlock, MaxIter, MaxSteered} \subseteq Nat

VARIABLES
  phase,     (* where the run is                                           *)
  cancel,    (* engine._cancel                                             *)
  iter,      (* iterations, of _loop                                       *)
  block,     (* the calls of the last reply                                *)
  todo,      (* calls not yet authorized                                   *)
  cleared,   (* calls authorized and not yet executed                      *)
  flying,    (* calls on worker threads                                    *)
  returned,  (* calls whose thread is done, the result not yet recorded    *)
  results,   (* tool results of the block, in the order they were recorded *)
  steering,  (* engine._steering, as a length                              *)
  steered,   (* messages steered in so far                                 *)
  used,      (* call ids the model has used                                *)
  ran,       (* history: calls whose tool was started                      *)
  ranLate    (* history: calls whose tool was started after a Stop         *)

callVars == <<block, todo, cleared, flying, returned, results, used>>
steerVars == <<steering, steered>>
histVars == <<ran, ranLate>>
engineVars == <<phase, cancel, iter, callVars, steerVars, histVars>>

Phases == {"idle", "claimed", "top", "streaming", "authorizing", "asking",
           "batch", "serial", "executing", "ended"}

(* A result says what became of its call. *)
Outcomes == {"ok", "refused", "interrupted", "mangled", "answered"}
Result(c, how) == [call |-> c, how |-> how]

-----------------------------------------------------------------------------
(* The loop. *)

(* The session is claimed and the run scheduled; it has not taken a step.  *)
ClaimRun ==
  /\ phase = "idle"
  /\ phase' = "claimed"
  /\ UNCHANGED <<cancel, iter, callVars, steerVars, histVars>>

(* run: the message is appended and the Stop flag cleared. *)
Begin ==
  /\ phase = "claimed"
  /\ phase' = "top"
  /\ cancel' = FALSE
  /\ iter' = 0
  /\ UNCHANGED <<callVars, steerVars, histVars>>

(* The head of _loop: the cap, else a call of the model. *)
Iterate ==
  /\ phase = "top"
  /\ IF iter >= MaxIter THEN phase' = "ended" /\ UNCHANGED iter
                        ELSE phase' = "streaming" /\ iter' = iter + 1
  /\ UNCHANGED <<cancel, callVars, steerVars, histVars>>

Blocks == {b \in UNION {[1..n -> Calls] : n \in 1..MaxBlock} : IsInjective(b)}

(* A whole reply with tool calls arrived.  A Stop meanwhile is seen when   *)
(* the calls are handled.                                                  *)
ReplyWithCalls(calls) ==
  /\ phase = "streaming"
  /\ Range(calls) \cap used = {}
  /\ phase' = "authorizing"
  /\ block' = calls
  /\ todo' = calls
  /\ results' = <<>>
  /\ used' = used \cup Range(calls)
  /\ UNCHANGED <<cancel, iter, cleared, flying, returned, steerVars, histVars>>

(* A reply of text ends the run, as an answer or as an unparsed call,      *)
(* unless messages wait to join the thread.                                *)
ReplyWithText ==
  /\ phase = "streaming"
  /\ phase' = IF steering > 0 THEN "top" ELSE "ended"
  /\ steering' = 0
  /\ UNCHANGED <<cancel, iter, callVars, steered, histVars>>

(* The stream failed, or was dropped because of a Stop. *)
StreamOver ==
  /\ phase = "streaming"
  /\ phase' = "ended"
  /\ UNCHANGED <<cancel, iter, callVars, steerVars, histVars>>

(* Each run ends with its TURN_END, ERROR or INTERRUPTED event consumed. *)
Leave ==
  /\ phase = "ended"
  /\ phase' = "idle"
  /\ UNCHANGED <<cancel, iter, callVars, steerVars, histVars>>

-----------------------------------------------------------------------------
(* Authorization, in call order. *)

Record(c, how) == results' = Append(results, Result(c, how))

(* The next call to authorize is dealt with. *)
Dealt(c) ==
  /\ todo # <<>>
  /\ c = Head(todo)
  /\ todo' = Tail(todo)
  /\ phase' = "authorizing"

(* Mutant of Interrupted: a call not yet authorized is left alone. *)
InterruptedSilently(c) ==
  /\ phase \in {"authorizing", "asking"}
  /\ cancel
  /\ Dealt(c)
  /\ IF phase = "asking" THEN Record(c, "interrupted") ELSE UNCHANGED results
  /\ UNCHANGED <<cancel, iter, block, cleared, flying, returned, used, steerVars,
                 histVars>>

(* After a Stop the rest of the block is answered as interrupted; so is    *)
(* the call that is waiting for the user.                                  *)
Interrupted(c) ==
  /\ phase \in {"authorizing", "asking"}
  /\ cancel
  /\ Dealt(c)
  /\ Record(c, "interrupted")
  /\ UNCHANGED <<cancel, iter, block, cleared, flying, returned, used, steerVars,
                 histVars>>

(* Arguments that did not parse; a tool refused or unknown, by rule or by  *)
(* the user; an interactive call, whose answer is its result.              *)
Answer(c, how) ==
  /\ \/ phase = "authorizing" /\ ~cancel
     \/ phase = "asking" /\ how \in {"refused", "answered"}
  /\ how \in {"mangled", "refused", "answered"}
  /\ Dealt(c)
  /\ Record(c, how)
  /\ UNCHANGED <<cancel, iter, block, cleared, flying, returned, used, steerVars,
                 histVars>>

(* The call needs the user. *)
Ask(c) ==
  /\ phase = "authorizing"
  /\ ~cancel
  /\ todo # <<>>
  /\ c = Head(todo)
  /\ phase' = "asking"
  /\ UNCHANGED <<cancel, iter, callVars, steerVars, histVars>>

(* Allowed, by a rule or by the user. *)
Clear(c) ==
  /\ (phase = "authorizing" /\ ~cancel) \/ phase = "asking"
  /\ Dealt(c)
  /\ cleared' = Append(cleared, c)
  /\ UNCHANGED <<cancel, iter, block, flying, returned, results, used, steerVars,
                 histVars>>

-----------------------------------------------------------------------------
(* Execution. *)

(* _parallel_safe calls go together, when more than one call is cleared.   *)
Concurrent ==
  IF Len(cleared) > 1 THEN Kept(cleared, LowRisk) ELSE <<>>

Started(cs) ==
  /\ ran' = ran \cup cs
  /\ ranLate' = IF cancel THEN ranLate \cup cs ELSE ranLate

(* All calls are authorized: the concurrent ones start, whether or not the *)
(* user has pressed Stop.                                                  *)
StartBatch ==
  /\ phase = "authorizing"
  /\ todo = <<>>
  /\ phase' = "batch"
  /\ flying' = Range(Concurrent)
  /\ Started(Range(Concurrent))
  /\ UNCHANGED <<cancel, iter, block, todo, cleared, returned, results, used,
                 steerVars>>

(* A worker thread is done; they finish in any order. *)
Return(c) ==
  /\ c \in flying
  /\ flying' = flying \ {c}
  /\ returned' = returned \cup {c}
  /\ UNCHANGED <<phase, cancel, iter, block, todo, cleared, results, used,
                 steerVars, histVars>>

(* gather is over: the results are recorded in call order. *)
BatchDone ==
  /\ phase = "batch"
  /\ flying = {}
  /\ phase' = "serial"
  /\ results' = results \o [i \in 1..Len(Concurrent) |-> Result(Concurrent[i], "ok")]
  /\ cleared' = Kept(cleared, Calls \ Range(Concurrent))
  /\ returned' = {}
  /\ UNCHANGED <<cancel, iter, block, todo, flying, used, steerVars, histVars>>

(* Mutant of StartSerial: Stop is not looked at between serial calls. *)
StartSerialAnyway(c) ==
  /\ phase = "serial"
  /\ cleared # <<>>
  /\ c = Head(cleared)
  /\ cleared' = Tail(cleared)
  /\ phase' = "executing"
  /\ flying' = {c}
  /\ Started({c})
  /\ UNCHANGED <<cancel, iter, block, todo, returned, results, used, steerVars>>

(* The others one by one, the Stop flag looked at before each. *)
StartSerial(c) ==
  /\ phase = "serial"
  /\ cleared # <<>>
  /\ c = Head(cleared)
  /\ cleared' = Tail(cleared)
  /\ IF cancel
     THEN Record(c, "interrupted") /\ UNCHANGED <<phase, flying, histVars>>
     ELSE /\ phase' = "executing"
          /\ flying' = {c}
          /\ Started({c})
          /\ UNCHANGED results
  /\ UNCHANGED <<cancel, iter, block, todo, returned, used, steerVars>>

SerialDone(c) ==
  /\ phase = "executing"
  /\ c \in returned
  /\ returned' = {}
  /\ phase' = "serial"
  /\ Record(c, "ok")
  /\ UNCHANGED <<cancel, iter, block, todo, cleared, flying, used, steerVars,
                 histVars>>

(* ITERATION_END: a Stop ends the run, else waiting messages join. *)
EndIteration ==
  /\ phase = "serial"
  /\ cleared = <<>>
  /\ phase' = IF cancel THEN "ended" ELSE "top"
  /\ steering' = IF cancel THEN steering ELSE 0
  /\ UNCHANGED <<cancel, iter, callVars, steered, histVars>>

-----------------------------------------------------------------------------
(* From outside. *)

(* request_interrupt; a stopped shell command returns early (Return). *)
Stop ==
  /\ phase # "idle"
  /\ ~cancel
  /\ cancel' = TRUE
  /\ UNCHANGED <<phase, iter, callVars, steerVars, histVars>>

Steer ==
  /\ phase # "idle"
  /\ steered < MaxSteered
  /\ steered' = steered + 1
  /\ steering' = steering + 1
  /\ UNCHANGED <<phase, cancel, iter, callVars, histVars>>

-----------------------------------------------------------------------------

Init ==
  /\ phase = "idle"
  /\ cancel = FALSE
  /\ iter = 0
  /\ block = <<>> /\ todo = <<>> /\ cleared = <<>> /\ results = <<>>
  /\ flying = {} /\ returned = {} /\ used = {}
  /\ steering = 0 /\ steered = 0
  /\ ran = {} /\ ranLate = {}

CallStep(c) ==
  \/ Interrupted(c) \/ Ask(c) \/ Clear(c)
  \/ \E how \in Outcomes : Answer(c, how)
  \/ Return(c) \/ StartSerial(c) \/ SerialDone(c)

RunStep ==
  \/ Begin \/ Iterate \/ Leave
  \/ \E calls \in Blocks : ReplyWithCalls(calls)
  \/ ReplyWithText \/ StreamOver
  \/ \E c \in Calls : CallStep(c)
  \/ StartBatch \/ BatchDone \/ EndIteration

Next == ClaimRun \/ RunStep \/ Stop \/ Steer

Spec == Init /\ [][Next]_engineVars

-----------------------------------------------------------------------------
(* Properties. *)

CallSeqs == {s \in SeqOf(Calls, MaxBlock) : IsInjective(s)}

(* The values each variable ranges over. *)
TypeOK ==
  /\ phase \in Phases
  /\ cancel \in BOOLEAN
  /\ iter \in 0..MaxIter
  /\ {block, todo, cleared} \subseteq CallSeqs
  /\ results \in Seq([call : Calls, how : Outcomes])
  /\ {flying, returned, used, ran, ranLate} \subseteq SUBSET Calls
  /\ steered \in 0..MaxSteered
  /\ steering \in 0..steered

(* The model is called, and a run ends, only on a block every call of      *)
(* which has exactly one result (engine.request_interrupt: "the history    *)
(* never carries orphans"), and a call that ran has its own: no Stop       *)
(* replaces the result of a tool that did its work.                        *)
BlockIsAnswered ==
  phase \in {"idle", "top", "streaming", "ended"} =>
    /\ Len(results) = Len(block)
    /\ \A c \in Range(block) : \E i \in DOMAIN results : results[i].call = c
    /\ \A i \in DOMAIN results : results[i].how = "ok" <=> results[i].call \in ran

(* After a Stop no call that the user was not already waiting for as part  *)
(* of a concurrent batch starts: calls with effects never do.              *)
StopSparesEffects == ranLate \subseteq LowRisk

(* What the documentation says and the code does not do. *)

(* request_interrupt: "Stop the turn as soon as possible, from ANY state". *)
(* Low-risk calls cleared before a Stop at a later call's prompt start     *)
(* after it.                                                               *)
NothingStartsAfterStop == ranLate = {}

=============================================================================
