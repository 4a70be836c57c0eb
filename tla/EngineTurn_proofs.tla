-------------------------- MODULE EngineTurn_proofs --------------------------
(***************************************************************************)
(* A block of tool calls, for any calls, risks and bounds: every call gets *)
(* one result and a call that ran gets its own, whatever the Stop button,  *)
(* refusals and threads that return in any order do in between; and after  *)
(* a Stop no call with effects starts.                                     *)
(***************************************************************************)
EXTENDS EngineTurn, SeqLemmas

(* The parts of the inductive invariant. *)

Recorded == {results[i].call : i \in DOMAIN results}

(* The calls whose tool is at work, or whose result waits to be recorded.  *)
InHand == flying \cup returned

(* What has no result yet.  The calls of a batch are still among `cleared`.*)
Pending ==
  Range(todo) \cup Range(cleared) \cup (IF phase = "executing" THEN InHand ELSE {})

(* The values each variable ranges over, the bound on lengths apart.       *)
Types ==
  /\ phase \in Phases
  /\ cancel \in BOOLEAN
  /\ iter \in 0..MaxIter
  /\ {block, todo, cleared} \subseteq Seq(Calls)
  /\ results \in Seq([call : Calls, how : Outcomes])
  /\ {flying, returned, used, ran, ranLate} \subseteq SUBSET Calls
  /\ steered \in 0..MaxSteered
  /\ steering \in 0..steered

(* The calls of the block are those with a result and those that wait for  *)
(* one, each once.                                                         *)
EachOnce ==
  /\ IsInjective(block) /\ IsInjective(todo) /\ IsInjective(cleared)
  /\ Len(block) <= MaxBlock
  /\ \A i, j \in DOMAIN results : results[i].call = results[j].call => i = j
  /\ Range(todo) \cap Range(cleared) = {}
  /\ Recorded \cap Pending = {}
  /\ Recorded \cup Pending = Range(block)

(* Where the calls are, by where the run is. *)
Placed ==
  /\ phase \in {"idle", "claimed", "top", "streaming", "ended"} =>
        todo = <<>> /\ cleared = <<>>
  /\ phase \in {"batch", "serial", "executing"} => todo = <<>>
  /\ phase = "asking" => todo # <<>>
  /\ flying \cap returned = {}
  /\ phase \notin {"batch", "executing"} => InHand = {}
  /\ phase = "batch" => InHand = Range(Concurrent)
  /\ phase = "executing" =>
        (\E c \in Calls : InHand = {c}) /\ InHand \cap Range(cleared) = {}

(* What ran. *)
RanIsRecorded ==
  /\ Range(block) \cup ran \subseteq used
  /\ \A i \in DOMAIN results : results[i].how = "ok" <=> results[i].call \in ran
  /\ \A c \in Pending : c \in ran <=> c \in InHand

IInv == Types /\ EachOnce /\ Placed /\ RanIsRecorded /\ StopSparesEffects

-----------------------------------------------------------------------------
(* Facts about the operators. *)

(* Which of the cleared calls go together, and which do not. *)
LEMMA ConcurrentIs ==
  ASSUME cleared \in Seq(Calls), IsInjective(cleared)
  PROVE  /\ Concurrent \in Seq(Calls) /\ IsInjective(Concurrent)
         /\ Range(Concurrent) \subseteq Range(cleared) \cap LowRisk
  BY KeptIs, InjectiveEmpty, RangeEmpty DEF Concurrent

(* A result joins the others. *)
LEMMA RecordIs ==
  ASSUME Types, NEW c \in Calls, NEW how \in Outcomes, Record(c, how),
         c \notin Recorded, \A i, j \in DOMAIN results : results[i].call = results[j].call => i = j
  PROVE  /\ results' \in Seq([call : Calls, how : Outcomes])
         /\ Recorded' = Recorded \cup {c}
         /\ \A i, j \in DOMAIN results' : results'[i].call = results'[j].call => i = j
         /\ \A i \in DOMAIN results' :
              \/ i \in DOMAIN results /\ results'[i] = results[i]
              \/ results'[i] = Result(c, how)
<1> DEFINE r == Result(c, how)
<1>1. r \in [call : Calls, how : Outcomes] /\ r.call = c
  BY DEF Result
<1>2. results' = Append(results, r) /\ results \in Seq([call : Calls, how : Outcomes])
  BY DEF Record, Types
<1> HIDE DEF r
<1>3. /\ results' \in Seq([call : Calls, how : Outcomes])
      /\ DOMAIN results' = 1..(Len(results) + 1) /\ DOMAIN results = 1..Len(results)
      /\ Len(results) \in Nat
      /\ results'[Len(results) + 1] = r
      /\ \A i \in DOMAIN results : results'[i] = results[i]
  BY <1>1, <1>2, AppendProperties
<1>4. \A i \in DOMAIN results' : i \in DOMAIN results \/ i = Len(results) + 1
  BY <1>3
<1>5. \A i \in DOMAIN results : i \in DOMAIN results' /\ results[i].call # c
  BY <1>3 DEF Recorded
<1>6. Len(results) + 1 \in DOMAIN results'
  BY <1>3
<1>7. Recorded' = Recorded \cup {c}
  BY <1>1, <1>3, <1>4, <1>5, <1>6 DEF Recorded
<1>8. \A i, j \in DOMAIN results' : results'[i].call = results'[j].call => i = j
  BY <1>1, <1>3, <1>4, <1>5
<1> QED BY <1>3, <1>4, <1>7, <1>8 DEF r

(* A sequence is taken apart. *)
LEMMA TakeHead ==
  ASSUME NEW s \in Seq(Calls), s # <<>>, IsInjective(s)
  PROVE  /\ Head(s) \in Calls /\ Tail(s) \in Seq(Calls) /\ IsInjective(Tail(s))
         /\ Head(s) \in Range(s) /\ Range(Tail(s)) = Range(s) \ {Head(s)}
<1>1. Head(s) \in Calls /\ Tail(s) \in Seq(Calls) /\ Range(s) = {Head(s)} \cup Range(Tail(s))
  BY RangeHeadTail
<1>2. IsInjective(Tail(s)) /\ Head(s) \notin Range(Tail(s))
  BY InjectiveTail
<1> QED BY <1>1, <1>2

-----------------------------------------------------------------------------
(* Every action keeps the invariant. *)

(* A step that touches no call. *)
LEMMA CallsKept ==
  ASSUME IInv, Types', UNCHANGED <<callVars, histVars>>,
         phase' = phase \/ ("executing" \notin {phase, phase'}), Placed'
  PROVE  IInv'
<1> USE DEF callVars, histVars
<1>1. Pending' = Pending /\ Recorded' = Recorded /\ InHand' = InHand
  BY DEF Pending, Recorded, InHand
<1>2. EachOnce' /\ RanIsRecorded' /\ StopSparesEffects'
  BY <1>1 DEF IInv, EachOnce, RanIsRecorded, StopSparesEffects
<1> QED BY <1>2 DEF IInv

(* The steps of the loop. *)
LEMMA LoopStep ==
  ASSUME EngineAssumption, IInv,
         \/ ClaimRun \/ Begin \/ Iterate \/ Leave \/ ReplyWithText \/ StreamOver
         \/ EndIteration \/ Stop \/ Steer \/ \E c \in Calls : Ask(c)
  PROVE  IInv'
<1> USE DEF callVars, histVars, steerVars
<1>1. UNCHANGED <<callVars, histVars>>
  BY DEF ClaimRun, Begin, Iterate, Leave, ReplyWithText, StreamOver, EndIteration, Stop, Steer, Ask
<1>2. Types'
  <2>1. {block, todo, cleared}' \subseteq Seq(Calls) /\ {flying, returned, used, ran, ranLate}'
          \subseteq SUBSET Calls /\ results' \in Seq([call : Calls, how : Outcomes])
    BY <1>1 DEF IInv, Types
  <2>2. phase' \in Phases /\ cancel' \in BOOLEAN
    BY DEF IInv, Types, Phases, ClaimRun, Begin, Iterate, Leave, ReplyWithText, StreamOver,
           EndIteration, Stop, Steer, Ask
  <2>3. iter' \in 0..MaxIter
    BY DEF IInv, Types, EngineAssumption, ClaimRun, Begin, Iterate, Leave, ReplyWithText,
           StreamOver, EndIteration, Stop, Steer, Ask
  <2>4. steered' \in 0..MaxSteered /\ steering' \in 0..steered'
    <3>1. CASE Steer
      BY <3>1 DEF IInv, Types, EngineAssumption, Steer
    <3>2. CASE ~Steer
      <4>1. steered' = steered /\ (steering' = steering \/ steering' = 0)
        BY <3>2 DEF ClaimRun, Begin, Iterate, Leave, ReplyWithText, StreamOver, EndIteration, Stop,
           Ask
      <4> QED BY <4>1 DEF IInv, Types, EngineAssumption
    <3> QED BY <3>1, <3>2
  <2> QED BY <2>1, <2>2, <2>3, <2>4 DEF Types
<1>3. phase' = phase \/ ("executing" \notin {phase, phase'})
  BY DEF ClaimRun, Begin, Iterate, Leave, ReplyWithText, StreamOver, EndIteration, Stop, Steer, Ask
<1>4. InHand' = InHand /\ Concurrent' = Concurrent
  BY <1>1 DEF InHand, Concurrent
<1>5. Placed'
  BY <1>1, <1>4 DEF IInv, Placed, ClaimRun, Begin, Iterate, Leave, ReplyWithText, StreamOver,
     EndIteration, Stop, Steer, Ask
<1> QED BY <1>1, <1>2, <1>3, <1>5, CallsKept

(* A reply brings a new block. *)
LEMMA ReplyStep ==
  ASSUME EngineAssumption, IInv, NEW calls \in Blocks, ReplyWithCalls(calls)
  PROVE  IInv'
<1> USE DEF histVars, steerVars
<1>1. calls \in Seq(Calls) /\ IsInjective(calls) /\ Len(calls) <= MaxBlock
  BY DEF Blocks, EngineAssumption
<1>2. Range(calls) \in SUBSET Calls
  BY <1>1 DEF Range
<1>3. cleared = <<>> /\ InHand = {}
  BY DEF IInv, Placed, ReplyWithCalls
<1>4. Types'
  BY <1>1, <1>2 DEF IInv, Types, Phases, ReplyWithCalls
<1>5. Pending' = Range(calls) /\ Recorded' = {} /\ InHand' = {} /\ DOMAIN results' = {}
  BY <1>3, RangeEmpty DEF ReplyWithCalls, Pending, Recorded, InHand
<1>6. EachOnce'
  BY <1>1, <1>3, <1>5, RangeEmpty, InjectiveEmpty DEF EachOnce, ReplyWithCalls
<1>7. Placed'
  BY <1>3, <1>5 DEF IInv, Placed, ReplyWithCalls
<1>8. RanIsRecorded'
  BY <1>5 DEF IInv, RanIsRecorded, ReplyWithCalls
<1>9. StopSparesEffects'
  BY DEF IInv, StopSparesEffects, ReplyWithCalls
<1> QED BY <1>4, <1>6, <1>7, <1>8, <1>9 DEF IInv

(* The next call gets a result without running. *)
LEMMA AnsweredStep ==
  ASSUME IInv, NEW c \in Calls, NEW how \in Outcomes \ {"ok"}, phase \in {"authorizing", "asking"},
         Dealt(c), Record(c, how),
         UNCHANGED <<cancel, iter, block, cleared, flying, returned, used, steerVars, histVars>>
  PROVE  IInv'
<1> USE DEF histVars, steerVars
<1>1. /\ c \in Range(todo) /\ todo' \in Seq(Calls) /\ IsInjective(todo')
      /\ Range(todo') = Range(todo) \ {c}
  BY TakeHead DEF IInv, Types, EachOnce, Dealt
<1>2. InHand = {} /\ InHand' = {} /\ phase' = "authorizing"
  BY DEF IInv, Placed, InHand, Dealt
<1>3. c \in Pending /\ c \notin Recorded /\ c \notin ran
  BY <1>1, <1>2 DEF IInv, EachOnce, Pending, RanIsRecorded
<1>4. /\ results' \in Seq([call : Calls, how : Outcomes]) /\ Recorded' = Recorded \cup {c}
      /\ \A i, j \in DOMAIN results' : results'[i].call = results'[j].call => i = j
      /\ \A i \in DOMAIN results' :
           \/ i \in DOMAIN results /\ results'[i] = results[i]
           \/ results'[i] = Result(c, how)
  BY <1>3, RecordIs DEF IInv, EachOnce
<1>5. Pending' = Pending \ {c}
  BY <1>1, <1>2 DEF IInv, EachOnce, Pending
<1>6. Types'
  BY <1>1, <1>2, <1>4 DEF IInv, Types, Phases
<1>7. EachOnce'
  BY <1>1, <1>3, <1>4, <1>5 DEF IInv, EachOnce
<1>8. Placed'
  BY <1>2 DEF IInv, Placed
<1>9. RanIsRecorded'
  <2>1. Result(c, how).call = c /\ Result(c, how).how # "ok"
    BY DEF Result
  <2> QED BY <1>2, <1>3, <1>4, <1>5, <2>1 DEF IInv, RanIsRecorded
<1>10. StopSparesEffects'
  BY DEF IInv, StopSparesEffects
<1> QED BY <1>6, <1>7, <1>8, <1>9, <1>10 DEF IInv

(* The next call may run. *)
LEMMA ClearStep ==
  ASSUME IInv, NEW c \in Calls, Clear(c)
  PROVE  IInv'
<1> USE DEF histVars, steerVars
<1>1. /\ c \in Range(todo) /\ todo' \in Seq(Calls) /\ IsInjective(todo')
      /\ Range(todo') = Range(todo) \ {c}
  BY TakeHead DEF IInv, Types, EachOnce, Clear, Dealt
<1>2. InHand = {} /\ InHand' = {} /\ phase' = "authorizing" /\ phase # "executing"
  BY DEF IInv, Placed, InHand, Clear, Dealt
<1>3. c \notin Range(cleared)
  BY <1>1 DEF IInv, EachOnce
<1>4. cleared' \in Seq(Calls) /\ IsInjective(cleared') /\ Range(cleared') = Range(cleared) \cup {c}
  BY <1>3, RangeAppend, InjectiveAppend, AppendProperties DEF IInv, Types, EachOnce, Clear
<1>5. Pending' = Pending /\ Recorded' = Recorded
  BY <1>1, <1>2, <1>4 DEF Pending, Recorded, Clear
<1>6. Types'
  BY <1>1, <1>2, <1>4 DEF IInv, Types, Phases, Clear
<1>7. EachOnce'
  BY <1>1, <1>3, <1>4, <1>5 DEF IInv, EachOnce, Clear
<1>8. Placed'
  BY <1>2 DEF IInv, Placed, Clear
<1>9. RanIsRecorded'
  BY <1>2, <1>5 DEF IInv, RanIsRecorded, Clear
<1>10. StopSparesEffects'
  BY DEF IInv, StopSparesEffects, Clear
<1> QED BY <1>6, <1>7, <1>8, <1>9, <1>10 DEF IInv

(* The low-risk calls start together. *)
LEMMA BatchStarts ==
  ASSUME IInv, StartBatch
  PROVE  IInv'
<1> USE DEF histVars, steerVars
<1>1. /\ Concurrent \in Seq(Calls) /\ Range(Concurrent) \subseteq Range(cleared) \cap LowRisk
      /\ Concurrent' = Concurrent /\ Range(Concurrent) \in SUBSET Calls
  <2>1. Concurrent' = Concurrent
    BY DEF StartBatch, Concurrent
  <2>2. Concurrent \in Seq(Calls) /\ Range(Concurrent) \subseteq Range(cleared) \cap LowRisk
    BY ConcurrentIs DEF IInv, Types, EachOnce
  <2>3. Range(Concurrent) \in SUBSET Calls
    BY <2>2 DEF Range
  <2> QED BY <2>1, <2>2, <2>3
<1>2. /\ InHand = {} /\ InHand' = Range(Concurrent) /\ Pending' = Pending /\ Recorded' = Recorded
      /\ phase = "authorizing" /\ phase' = "batch"
  BY <1>1 DEF IInv, Placed, InHand, StartBatch, Pending, Recorded
<1>3. Types'
  BY <1>1 DEF IInv, Types, Phases, StartBatch, Started
<1>4. EachOnce'
  BY <1>2 DEF IInv, EachOnce, StartBatch
<1>5. Placed'
  BY <1>1, <1>2, RangeEmpty DEF IInv, Placed, StartBatch, InHand
<1>6. RanIsRecorded'
  <2>1. Range(Concurrent) \subseteq Pending /\ Pending \subseteq Range(block)
        /\ Pending \cap Recorded = {}
    BY <1>1 DEF Pending, IInv, EachOnce
  <2>2. \A i \in DOMAIN results : results[i].call \notin Range(Concurrent)
    BY <2>1 DEF Recorded
  <2>3. ran' = ran \cup Range(Concurrent) /\ UNCHANGED <<used, block, results>>
    BY DEF StartBatch, Started
  <2> QED BY <1>2, <2>1, <2>2, <2>3 DEF IInv, RanIsRecorded
<1>7. StopSparesEffects'
  BY <1>1 DEF IInv, StopSparesEffects, StartBatch, Started
<1> QED BY <1>3, <1>4, <1>5, <1>6, <1>7 DEF IInv

(* A thread is done. *)
LEMMA ReturnStep ==
  ASSUME IInv, NEW c \in Calls, Return(c)
  PROVE  IInv'
<1> USE DEF histVars, steerVars
<1>1. InHand' = InHand /\ Pending' = Pending /\ Recorded' = Recorded /\ Concurrent' = Concurrent
  BY DEF Return, InHand, Pending, Recorded, Concurrent
<1>2. Types'
  BY DEF IInv, Types, Return
<1>3. EachOnce' /\ Placed' /\ RanIsRecorded' /\ StopSparesEffects'
  BY <1>1 DEF IInv, EachOnce, Placed, RanIsRecorded, StopSparesEffects, Return
<1> QED BY <1>2, <1>3 DEF IInv

(* The results of a batch are recorded. *)
LEMMA BatchEnds ==
  ASSUME IInv, BatchDone
  PROVE  IInv'
<1> USE DEF histVars, steerVars
<1> DEFINE news == [i \in 1..Len(Concurrent) |-> Result(Concurrent[i], "ok")]
           RS == [call : Calls, how : Outcomes]
<1>1. /\ Concurrent \in Seq(Calls) /\ IsInjective(Concurrent)
      /\ Range(Concurrent) \subseteq Range(cleared) \cap LowRisk
  BY ConcurrentIs DEF IInv, Types, EachOnce
<1>2. /\ cleared' \in Seq(Calls) /\ IsInjective(cleared')
      /\ Range(cleared') = Range(cleared) \ Range(Concurrent)
  <2>1. /\ cleared' \in Seq(Calls) /\ IsInjective(cleared')
        /\ Range(cleared') = Range(cleared) \cap (Calls \ Range(Concurrent))
    BY KeptIs DEF BatchDone, IInv, Types, EachOnce
  <2>2. Range(cleared) \subseteq Calls
    BY DEF IInv, Types, Range
  <2> QED BY <2>1, <2>2
<1>3. /\ phase = "batch" /\ phase' = "serial" /\ todo = <<>> /\ todo' = <<>>
      /\ InHand = Range(Concurrent) /\ InHand' = {}
  BY DEF BatchDone, IInv, Placed, InHand
<1>4. Pending = Range(cleared) /\ Pending' = Pending \ Range(Concurrent)
  BY <1>2, <1>3, RangeEmpty DEF Pending
<1>5. /\ news \in Seq(RS) /\ Len(news) = Len(Concurrent) /\ Len(Concurrent) \in Nat
      /\ \A i \in 1..Len(news) : news[i].call = Concurrent[i] /\ news[i].how = "ok"
  BY <1>1 DEF Result, Outcomes
<1>6. results \in Seq(RS) /\ results' = results \o news
  BY DEF BatchDone, IInv, Types
<1> HIDE DEF news
<1>7. /\ results' \in Seq(RS) /\ Len(results) \in Nat
      /\ DOMAIN results' = 1..(Len(results) + Len(news)) /\ DOMAIN results = 1..Len(results)
      /\ \A i \in 1..Len(results) : results'[i] = results[i]
      /\ \A i \in 1..Len(news) : results'[Len(results) + i] = news[i]
                                 /\ Len(results) + i \in DOMAIN results'
      /\ \A i \in DOMAIN results' : i \in 1..Len(results) \/ i - Len(results) \in 1..Len(news)
  <2> HIDE DEF RS
  <2>0. /\ results \o news \in Seq(RS) /\ Len(results \o news) = Len(results) + Len(news)
        /\ \A i \in 1..(Len(results) + Len(news)) :
             (results \o news)[i] =
                IF i <= Len(results) THEN results[i] ELSE news[i - Len(results)]
    <3>1. results \in Seq(RS) /\ news \in Seq(RS)
      BY <1>5, <1>6
    <3> QED BY ONLY <3>1, ConcatProperties
  <2>1. /\ results' \in Seq(RS) /\ Len(results') = Len(results) + Len(news)
        /\ Len(results) \in Nat /\ Len(news) \in Nat
        /\ \A i \in 1..(Len(results) + Len(news)) :
             results'[i] = IF i <= Len(results) THEN results[i] ELSE news[i - Len(results)]
    BY <1>5, <1>6, <2>0
  <2>2. DOMAIN results' = 1..(Len(results) + Len(news)) /\ DOMAIN results = 1..Len(results)
    BY <1>6, <2>1
  <2> QED BY <2>1, <2>2
<1>8. \A i \in DOMAIN results' :
        \/ i \in DOMAIN results /\ results'[i] = results[i]
        \/ /\ i - Len(results) \in DOMAIN Concurrent
           /\ results'[i].call = Concurrent[i - Len(results)] /\ results'[i].how = "ok"
  <2> SUFFICES ASSUME NEW i \in DOMAIN results', i \notin DOMAIN results
               PROVE  /\ i - Len(results) \in DOMAIN Concurrent
                      /\ results'[i].call = Concurrent[i - Len(results)]
                      /\ results'[i].how = "ok"
    BY <1>7
  <2>1. i - Len(results) \in 1..Len(news) /\ i = Len(results) + (i - Len(results))
    BY <1>7
  <2>2. results'[i] = news[i - Len(results)]
    BY <1>7, <2>1
  <2> QED BY <1>1, <1>5, <2>1, <2>2
<1>9. Recorded' = Recorded \cup Range(Concurrent)
  <2>1. ASSUME NEW c \in Recorded' PROVE c \in Recorded \cup Range(Concurrent)
    BY <1>8 DEF Recorded, Range
  <2>2. ASSUME NEW c \in Recorded PROVE c \in Recorded'
    BY <1>7 DEF Recorded
  <2>3. ASSUME NEW c \in Range(Concurrent) PROVE c \in Recorded'
    <3>1. PICK i \in 1..Len(Concurrent) : Concurrent[i] = c
      BY <1>1 DEF Range
    <3>2. Len(results) + i \in DOMAIN results' /\ results'[Len(results) + i].call = c
      BY <1>5, <1>7, <3>1
    <3> QED BY <3>2 DEF Recorded
  <2> QED BY <2>1, <2>2, <2>3
<1>10. Recorded \cap Range(Concurrent) = {}
  BY <1>1, <1>4 DEF IInv, EachOnce
<1>11. \A i, j \in DOMAIN results' : results'[i].call = results'[j].call => i = j
  <2> SUFFICES ASSUME NEW i \in DOMAIN results', NEW j \in DOMAIN results',
                      results'[i].call = results'[j].call
               PROVE  i = j
    OBVIOUS
  <2>1. CASE i \in DOMAIN results /\ j \in DOMAIN results
    BY <1>7, <2>1 DEF IInv, EachOnce
  <2>2. CASE i \in DOMAIN results /\ j \notin DOMAIN results
    <3>1. results'[i].call \in Recorded /\ results'[j].call \in Range(Concurrent)
      BY <1>7, <1>8, <2>2 DEF Recorded, Range
    <3> QED BY <1>10, <3>1
  <2>3. CASE i \notin DOMAIN results /\ j \in DOMAIN results
    <3>1. results'[j].call \in Recorded /\ results'[i].call \in Range(Concurrent)
      BY <1>7, <1>8, <2>3 DEF Recorded, Range
    <3> QED BY <1>10, <3>1
  <2>4. CASE i \notin DOMAIN results /\ j \notin DOMAIN results
    <3>1. i - Len(results) = j - Len(results)
      BY <1>1, <1>8, <2>4 DEF IsInjective
    <3> QED BY <1>7, <3>1
  <2> QED BY <2>1, <2>2, <2>3, <2>4
<1>12. Types'
  BY <1>2, <1>3, <1>7 DEF IInv, Types, Phases, BatchDone
<1>13. EachOnce'
  BY <1>1, <1>2, <1>3, <1>4, <1>9, <1>10, <1>11, RangeEmpty DEF IInv, EachOnce, BatchDone
<1>14. Placed'
  BY <1>3 DEF Placed, BatchDone
<1>15. RanIsRecorded'
  <2>1. UNCHANGED <<ran, used, block>>
    BY DEF BatchDone
  <2>2. Range(Concurrent) \subseteq ran
    BY <1>1, <1>3, <1>4 DEF IInv, RanIsRecorded
  <2>3. \A i \in DOMAIN results' : results'[i].how = "ok" <=> results'[i].call \in ran
    BY <1>1, <1>8, <2>2 DEF IInv, RanIsRecorded, Range
  <2> QED BY <1>3, <1>4, <2>1, <2>3 DEF IInv, RanIsRecorded
<1>16. StopSparesEffects'
  BY DEF IInv, StopSparesEffects, BatchDone
<1> QED BY <1>12, <1>13, <1>14, <1>15, <1>16 DEF IInv

(* The next serial call starts, or a Stop answers for it. *)
LEMMA SerialStarts ==
  ASSUME IInv, NEW c \in Calls, StartSerial(c)
  PROVE  IInv'
<1> USE DEF histVars, steerVars
<1>1. /\ c \in Range(cleared) /\ cleared' \in Seq(Calls) /\ IsInjective(cleared')
      /\ Range(cleared') = Range(cleared) \ {c}
  BY TakeHead DEF IInv, Types, EachOnce, StartSerial
<1>2. todo = <<>> /\ InHand = {} /\ UNCHANGED <<block, todo, returned, used>> /\ phase = "serial"
  BY DEF IInv, Placed, StartSerial
<1>3. Pending = Range(cleared) /\ c \notin Recorded /\ c \notin ran /\ c \in Range(block)
  BY <1>1, <1>2, RangeEmpty DEF Pending, IInv, EachOnce, RanIsRecorded
<1>4. CASE cancel
  <2>1. /\ results' \in Seq([call : Calls, how : Outcomes]) /\ Recorded' = Recorded \cup {c}
        /\ \A i, j \in DOMAIN results' : results'[i].call = results'[j].call => i = j
        /\ \A i \in DOMAIN results' :
             \/ i \in DOMAIN results /\ results'[i] = results[i]
             \/ results'[i] = Result(c, "interrupted")
    BY <1>3, <1>4, RecordIs DEF IInv, EachOnce, StartSerial, Outcomes
  <2>2. /\ UNCHANGED <<phase, flying, ran, ranLate>> /\ InHand' = {}
    BY <1>2, <1>4 DEF StartSerial, InHand
  <2>3. Pending' = Pending \ {c}
    BY <1>1, <1>2, <1>3, <2>2, RangeEmpty DEF Pending
  <2>4. Types'
    BY <1>1, <1>2, <2>1, <2>2 DEF IInv, Types, StartSerial
  <2>5. EachOnce'
    BY <1>1, <1>2, <1>3, <2>1, <2>3, RangeEmpty DEF IInv, EachOnce
  <2>6. Placed'
    BY <1>2, <2>2 DEF IInv, Placed
  <2>7. RanIsRecorded'
    <3>1. Result(c, "interrupted").call = c /\ Result(c, "interrupted").how # "ok"
      BY DEF Result
    <3> QED BY <1>2, <1>3, <2>1, <2>2, <2>3, <3>1 DEF IInv, RanIsRecorded
  <2>8. StopSparesEffects'
    BY <2>2 DEF IInv, StopSparesEffects
  <2> QED BY <2>4, <2>5, <2>6, <2>7, <2>8 DEF IInv
<1>5. CASE ~cancel
  <2>1. /\ phase' = "executing" /\ flying' = {c} /\ ran' = ran \cup {c}
        /\ UNCHANGED <<results, ranLate>>
    BY <1>5 DEF StartSerial, Started
  <2>2. InHand' = {c} /\ Recorded' = Recorded
    BY <1>2, <2>1 DEF InHand, Recorded
  <2>3. Pending' = Pending
    BY <1>1, <1>2, <1>3, <2>1, <2>2, RangeEmpty DEF Pending
  <2>4. Types'
    BY <1>1, <1>2, <2>1 DEF IInv, Types, Phases, StartSerial
  <2>5. EachOnce'
    BY <1>1, <1>2, <2>1, <2>2, <2>3, RangeEmpty DEF IInv, EachOnce
  <2>6. Placed'
    BY <1>1, <1>2, <2>1, <2>2 DEF Placed, InHand
  <2>7. RanIsRecorded'
    <3>1. \A i \in DOMAIN results : results[i].call # c
      BY <1>3 DEF Recorded
    <3> QED BY <1>2, <1>3, <2>1, <2>2, <2>3, <3>1 DEF IInv, RanIsRecorded
  <2>8. StopSparesEffects'
    BY <2>1 DEF IInv, StopSparesEffects
  <2> QED BY <2>4, <2>5, <2>6, <2>7, <2>8 DEF IInv
<1> QED BY <1>4, <1>5

(* The result of a serial call is recorded. *)
LEMMA SerialEnds ==
  ASSUME IInv, NEW c \in Calls, SerialDone(c)
  PROVE  IInv'
<1> USE DEF histVars, steerVars
<1>1. /\ phase = "executing" /\ phase' = "serial" /\ InHand = {c} /\ c \notin Range(cleared)
      /\ todo = <<>> /\ UNCHANGED <<block, todo, cleared, used, ran, ranLate>>
      /\ c \in returned
  BY DEF IInv, Placed, SerialDone, InHand
<1>2. InHand' = {} \/ InHand' = {c}
  BY <1>1 DEF SerialDone, InHand
<1>3. c \in Pending /\ c \notin Recorded /\ c \in ran
  BY <1>1 DEF Pending, IInv, EachOnce, RanIsRecorded
<1>4. /\ results' \in Seq([call : Calls, how : Outcomes]) /\ Recorded' = Recorded \cup {c}
      /\ \A i, j \in DOMAIN results' : results'[i].call = results'[j].call => i = j
      /\ \A i \in DOMAIN results' :
           \/ i \in DOMAIN results /\ results'[i] = results[i]
           \/ results'[i] = Result(c, "ok")
  BY <1>3, RecordIs DEF IInv, EachOnce, SerialDone, Outcomes
<1>5. Pending = Range(cleared) \cup {c} /\ Pending' = Range(cleared)
  BY <1>1, RangeEmpty DEF Pending
<1>6. Types'
  BY <1>1, <1>4 DEF IInv, Types, Phases, SerialDone
<1>7. EachOnce'
  BY <1>1, <1>3, <1>4, <1>5, RangeEmpty DEF IInv, EachOnce
<1>8. Placed'
  BY <1>1 DEF IInv, Placed, SerialDone, InHand
<1>9. RanIsRecorded'
  <2>1. Result(c, "ok").call = c /\ Result(c, "ok").how = "ok"
    BY DEF Result
  <2>2. InHand' = {}
    BY <1>1, <1>8 DEF Placed
  <2> QED BY <1>1, <1>3, <1>4, <1>5, <2>1, <2>2 DEF IInv, RanIsRecorded
<1>10. StopSparesEffects'
  BY <1>1 DEF IInv, StopSparesEffects
<1> QED BY <1>6, <1>7, <1>8, <1>9, <1>10 DEF IInv

LEMMA InvStep ==
  ASSUME EngineAssumption, IInv, [Next]_engineVars
  PROVE  IInv'
<1>1. CASE \/ ClaimRun \/ Begin \/ Iterate \/ Leave \/ ReplyWithText \/ StreamOver
           \/ EndIteration \/ Stop \/ Steer \/ \E c \in Calls : Ask(c)
  BY <1>1, LoopStep
<1>2. ASSUME NEW calls \in Blocks, ReplyWithCalls(calls) PROVE IInv'
  BY <1>2, ReplyStep
<1>3. ASSUME NEW c \in Calls, Interrupted(c) PROVE IInv'
  BY <1>3, AnsweredStep DEF Interrupted, Outcomes
<1>4. ASSUME NEW c \in Calls, NEW how \in Outcomes, Answer(c, how) PROVE IInv'
  BY <1>4, AnsweredStep DEF Answer
<1>5. ASSUME NEW c \in Calls, Clear(c) \/ Return(c) \/ StartSerial(c) \/ SerialDone(c)
      PROVE  IInv'
  BY <1>5, ClearStep, ReturnStep, SerialStarts, SerialEnds
<1>6. CASE StartBatch \/ BatchDone
  BY <1>6, BatchStarts, BatchEnds
<1>7. CASE UNCHANGED engineVars
  <2> USE DEF engineVars, callVars, steerVars, histVars
  <2>1. Types' /\ Concurrent' = Concurrent /\ InHand' = InHand
    BY <1>7 DEF IInv, Types, Concurrent, InHand
  <2>2. Placed'
    BY <1>7, <2>1 DEF IInv, Placed
  <2> QED BY <1>7, <2>1, <2>2, CallsKept
<1> QED
  BY <1>1, <1>2, <1>3, <1>4, <1>5, <1>6, <1>7 DEF Next, RunStep, CallStep

LEMMA InvInit == ASSUME EngineAssumption, Init PROVE IInv
<1>1. Types
  <2>1. {block, todo, cleared} \subseteq Seq(Calls) /\ results \in Seq([call : Calls, how : Outcomes])
    BY EmptySeq DEF Init
  <2>2. /\ phase \in Phases /\ cancel \in BOOLEAN /\ iter \in 0..MaxIter
        /\ {flying, returned, used, ran, ranLate} \subseteq SUBSET Calls
        /\ steered \in 0..MaxSteered /\ steering \in 0..steered
    <3>1. MaxIter \in Nat /\ MaxSteered \in Nat
      BY DEF EngineAssumption
    <3>2. iter \in 0..MaxIter /\ steered \in 0..MaxSteered /\ steering \in 0..steered
      BY <3>1 DEF Init
    <3> QED BY <3>2 DEF Init, Phases
  <2> QED BY <2>1, <2>2 DEF Types
<1>2. Recorded = {} /\ InHand = {} /\ Pending = {}
  BY RangeEmpty DEF Init, Recorded, InHand, Pending
<1>3. EachOnce
  BY <1>2, RangeEmpty, InjectiveEmpty DEF Init, EachOnce, EngineAssumption
<1>4. Placed /\ RanIsRecorded /\ StopSparesEffects
  BY <1>2, RangeEmpty DEF Init, Placed, RanIsRecorded, StopSparesEffects
<1> QED BY <1>1, <1>3, <1>4 DEF IInv

LEMMA Inductive == ASSUME EngineAssumption PROVE Spec => []IInv
<1>1. Init => IInv
  BY InvInit
<1>2. IInv /\ [Next]_engineVars => IInv'
  BY InvStep
<1> QED
  BY <1>1, <1>2, PTL DEF Spec

(* A part of the block is no longer than the block. *)
LEMMA PartIsShorter ==
  ASSUME IInv, NEW s \in Seq(Calls), IsInjective(s), Range(s) \subseteq Range(block)
  PROVE  Len(s) <= Len(block) /\ Len(block) \in Nat
<1>1. IsFiniteSet(Range(block)) /\ Cardinality(Range(block)) = Len(block)
  BY InjectiveLength DEF IInv, Types, EachOnce
<1>2. Cardinality(Range(s)) = Len(s)
  BY InjectiveLength
<1>3. Cardinality(Range(s)) <= Cardinality(Range(block))
  BY <1>1, FS_Subset
<1>4. Len(block) \in Nat
  BY DEF IInv, Types
<1> QED BY <1>1, <1>2, <1>3, <1>4

(* Every variable of the engine's turn keeps its type, and no list of      *)
(* calls outgrows the longest reply.                                       *)
THEOREM TypeCorrect == ASSUME EngineAssumption PROVE Spec => []TypeOK
<1>1. IInv => TypeOK
  <2> SUFFICES ASSUME IInv PROVE TypeOK
    OBVIOUS
  <2>1. ASSUME NEW s \in {block, todo, cleared} PROVE s \in CallSeqs
    <3>1. s \in Seq(Calls) /\ IsInjective(s) /\ Range(s) \subseteq Range(block)
      BY DEF IInv, Types, EachOnce, Pending
    <3>2. Len(s) <= MaxBlock /\ Len(s) \in Nat /\ MaxBlock \in Nat
      BY <3>1, PartIsShorter DEF IInv, EachOnce, EngineAssumption
    <3>3. s \in [1..Len(s) -> Calls] /\ Len(s) \in 0..MaxBlock
      BY <3>1, <3>2
    <3> QED BY <3>1, <3>3 DEF CallSeqs, SeqOf
  <2> QED BY <2>1 DEF IInv, Types, TypeOK
<1> QED
  BY <1>1, Inductive, PTL

(* _handle_tool_calls: the model is called next on a block each call of    *)
(* which has exactly one result, and a call that ran has its own.          *)
THEOREM BlocksAreAnswered == ASSUME EngineAssumption PROVE Spec => []BlockIsAnswered
<1>1. IInv => BlockIsAnswered
  <2> SUFFICES ASSUME IInv, phase \in {"idle", "top", "streaming", "ended"}
               PROVE  /\ Len(results) = Len(block)
                      /\ \A c \in Range(block) : \E i \in DOMAIN results : results[i].call = c
                      /\ \A i \in DOMAIN results : results[i].how = "ok" <=> results[i].call \in ran
    BY DEF BlockIsAnswered
  <2>1. Recorded = Range(block)
    BY RangeEmpty DEF IInv, Placed, EachOnce, Pending
  <2> DEFINE rc == [i \in 1..Len(results) |-> results[i].call]
  <2>2. rc \in Seq(Calls) /\ Len(rc) = Len(results) /\ IsInjective(rc) /\ Range(rc) = Recorded
    <3>0. /\ Len(results) \in Nat /\ DOMAIN results = 1..Len(results)
          /\ \A i \in 1..Len(results) : results[i].call \in Calls
      <4> DEFINE RS == [call : Calls, how : Outcomes]
      <4>1. results \in Seq(RS) /\ \A r \in RS : r.call \in Calls
        BY DEF IInv, Types
      <4> HIDE DEF RS
      <4> QED BY <4>1
    <3>1. rc \in Seq(Calls) /\ Len(rc) = Len(results) /\ DOMAIN rc = DOMAIN results
      BY <3>0
    <3>2. IsInjective(rc)
      BY <3>1 DEF IInv, EachOnce, IsInjective
    <3>3. Range(rc) = Recorded
      BY <3>1 DEF Range, Recorded
    <3> QED BY <3>1, <3>2, <3>3
  <2>3. Cardinality(Range(rc)) = Len(rc) /\ Cardinality(Range(block)) = Len(block)
    <3> HIDE DEF rc
    <3> QED BY <2>2, InjectiveLength DEF IInv, Types, EachOnce
  <2>4. Len(results) = Len(block)
    BY <2>1, <2>2, <2>3
  <2> QED BY <2>1, <2>4 DEF IInv, RanIsRecorded, Recorded
<1> QED
  BY <1>1, Inductive, PTL

(* request_interrupt: after a Stop no call with effects starts any more.   *)
THEOREM StopsSpareEffects == ASSUME EngineAssumption PROVE Spec => []StopSparesEffects
<1>1. IInv => StopSparesEffects
  BY DEF IInv
<1> QED
  BY <1>1, Inductive, PTL

=============================================================================
