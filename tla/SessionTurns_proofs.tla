------------------------ MODULE SessionTurns_proofs ------------------------
(***************************************************************************)
(* Proofs about SessionTurns, for any messages, sockets and bounds: type   *)
(* correctness, that no two turns are on the engine at once, who may clear *)
(* a live claim, that a stuck flag can always be released, that the session*)
(* implements TurnLock, that no message is lost or doubled, and that those *)
(* that were queued reach the thread in their order.                       *)
(***************************************************************************)
EXTENDS SessionTurns, SeqLemmas

(* The parts of the inductive invariant. *)

(* A turn run by deliver_to_session carries a message. *)
BackgroundCarries == \A t \in Tasks : Background(t) => turn[t].msg \in Msgs

(* A live turn has the flag, as long as nobody cleared it from outside. *)
FlagIsOwned ==
  /\ running <=> owner # None
  /\ ~usurped => \A t \in Tasks : Live(t) => owner = t

(* The owner is bound, unless it is a durable resume. *)
OwnerIsBound ==
  ~usurped /\ owner # None =>
     (Live(owner) /\ turn[owner].kind # "resume" => bound = owner)

(* No binding outlives its turn's own mark_idle, but for a finished task. *)
BoundHasNotReleased ==
  bound # None => turn[bound].phase \notin {"unused", "closing"}

(* What a socket and its disconnect callback know of its last task. *)
Tracks(s, t) ==
  /\ turn[t].kind = "socket"
  /\ turn[t].sock = s
  /\ turn[t].phase # "unused"
  /\ turn[t].phase \in {"closing", "done"} => sock[s].released

SocketsTrack ==
  /\ \A s \in Sockets : sock[s].task # None => Tracks(s, sock[s].task)
  /\ \A t \in hooks : \E s \in Sockets :
        /\ sock[s].state = "closed"
        /\ sock[s].task = t

SocketsDoNotCrash ==
  \A t \in Tasks : turn[t].phase = "crashed" => turn[t].kind = "drain"

(* The parts that speak of the flag and its binding. *)
FlagInv == FlagIsOwned /\ OwnerIsBound /\ BoundHasNotReleased

(* The parts that speak of sockets and crashed tasks. *)
TaskInv == SocketsTrack /\ SocketsDoNotCrash

IInv ==
  /\ TypeOK
  /\ BackgroundCarries
  /\ FlagInv
  /\ TaskInv

-----------------------------------------------------------------------------
(* Type correctness. *)

(* The values the flag takes when a turn gives it back. *)
LEMMA MarkIdleTypes ==
  ASSUME TypeOK, NEW current, MarkIdle(current)
  PROVE  /\ running' \in BOOLEAN
         /\ bound' \in Tasks \cup {None}
         /\ owner' \in Tasks \cup {None}
         /\ usurped' \in BOOLEAN
  BY DEF TypeOK, MarkIdle, BoundAfterIdle, Usurps, Live

(* A turn's phase moves within the record type. *)
LEMMA EnterTypes ==
  ASSUME TypeOK, BackgroundCarries, NEW t \in Tasks, NEW p \in Phases, Enter(t, p)
  PROVE  turn' \in [Tasks -> TurnRecord] /\ BackgroundCarries'
<1>1. turn' \in [Tasks -> TurnRecord]
  BY DEF TypeOK, Enter, TurnRecord
<1>2. ASSUME NEW u \in Tasks
      PROVE  turn'[u].kind = turn[u].kind /\ turn'[u].msg = turn[u].msg
  BY DEF TypeOK, Enter, TurnRecord
<1> QED
  BY <1>1, <1>2 DEF BackgroundCarries, Background

(* The values an engine run's first step leaves in the thread. *)
LEMMA OpenRunTypes ==
  ASSUME TypeOK, NEW m \in Msgs \cup {None}, OpenRun(m)
  PROVE  /\ history' \in Seq(Msgs)
         /\ tail' \in {"other", "error", "prompt"}
         /\ cancel' \in BOOLEAN
  BY AppendProperties DEF TypeOK, OpenRun

(* Every action keeps every variable in its type. *)
LEMMA TypeStep ==
  ASSUME TypeOK, BackgroundCarries, [Next]_vars
  PROVE  TypeOK' /\ BackgroundCarries'
<1> USE DEF flagVars, threadVars, mailVars, sockVars
<1>1. ASSUME NEW s \in Sockets, Connect(s) PROVE TypeOK' /\ BackgroundCarries'
  BY <1>1 DEF TypeOK, BackgroundCarries, Background, Connect, SockRecord
<1>2. ASSUME NEW s \in Sockets, Interrupt(s) PROVE TypeOK' /\ BackgroundCarries'
  BY <1>2 DEF TypeOK, BackgroundCarries, Background, Interrupt
<1>3. ASSUME NEW s \in Sockets, Disconnect(s) PROVE TypeOK' /\ BackgroundCarries'
  BY <1>3 DEF TypeOK, BackgroundCarries, Background, Disconnect, SockRecord
<1>4. ASSUME NEW s \in Sockets, NEW t \in Tasks, NEW m \in Msgs \cup {None},
             ClaimTurn(s, t, m), unsent' \subseteq Msgs
      PROVE  TypeOK' /\ BackgroundCarries'
  BY <1>4 DEF TypeOK, BackgroundCarries, Background, ClaimTurn, Claim, NewTurn,
              TurnRecord, SockRecord, Kinds, Phases
<1>5. ASSUME NEW s \in Sockets, NEW t \in Tasks, RetryFrame(s, t)
      PROVE  TypeOK' /\ BackgroundCarries'
  BY <1>4, <1>5 DEF RetryFrame, TypeOK
<1>6. ASSUME NEW s \in Sockets, NEW t \in Tasks, NEW m \in Msgs, UserMessage(s, t, m)
      PROVE  TypeOK' /\ BackgroundCarries'
  BY <1>4, <1>6 DEF UserMessage, TypeOK
<1>7. ASSUME NEW t \in Tasks, TurnStep(t) PROVE TypeOK' /\ BackgroundCarries'
  <2>0. turn[t].msg \in Msgs \cup {None}
    BY DEF TypeOK, TurnRecord
  <2>1. CASE StartSocketTurn(t)
    <3>1. turn' \in [Tasks -> TurnRecord] /\ BackgroundCarries'
      BY <2>1, EnterTypes DEF StartSocketTurn, Phases
    <3> QED BY <2>0, <2>1, <3>1, OpenRunTypes DEF StartSocketTurn, TypeOK
  <2>2. CASE StartDrainTurn(t)
    <3>1. turn' \in [Tasks -> TurnRecord] /\ BackgroundCarries'
      BY <2>2, EnterTypes DEF StartDrainTurn, Phases
    <3> QED BY <2>2, <3>1, <2>0, OpenRunTypes DEF StartDrainTurn, TypeOK
  <2>3. CASE InjectSteering(t)
    <3>1. history \o queue \in Seq(Msgs) /\ <<>> \in Seq(Msgs)
      BY ConcatProperties, EmptySeq DEF TypeOK
    <3> QED BY <2>3, <3>1 DEF InjectSteering, TypeOK, BackgroundCarries, Background
  <2>4. CASE EndSocketTurn(t)
    <3>1. turn' \in [Tasks -> TurnRecord] /\ BackgroundCarries'
      BY <2>4, EnterTypes DEF EndSocketTurn, Phases
    <3> QED BY <2>4, <3>1, MarkIdleTypes DEF EndSocketTurn, TypeOK, SockRecord
  <2>5. CASE EndBackgroundTurn(t)
    <3>1. turn' \in [Tasks -> TurnRecord] /\ BackgroundCarries'
      BY <2>5, EnterTypes DEF EndBackgroundTurn, Phases
    <3> QED BY <2>5, <3>1, MarkIdleTypes DEF EndBackgroundTurn, TypeOK
  <2>6. CASE EndResume(t)
    <3>1. turn' \in [Tasks -> TurnRecord] /\ BackgroundCarries'
      BY <2>6, EnterTypes DEF EndResume, Phases
    <3> QED BY <2>6, <3>1, MarkIdleTypes DEF EndResume, TypeOK
  <2>7. CASE CloseTurn(t)
    <3>1. turn' \in [Tasks -> TurnRecord] /\ BackgroundCarries'
      BY <2>7, EnterTypes DEF CloseTurn, Phases
    <3> QED BY <2>7, <3>1 DEF CloseTurn, TypeOK
  <2>8. CASE Backstop(t)
    BY <2>8, MarkIdleTypes DEF Backstop, TypeOK, BackgroundCarries, Background
  <2>9. CASE DrainFinished(t)
    <3>1. turn' \in [Tasks -> TurnRecord] /\ BackgroundCarries'
      BY <2>9, EnterTypes DEF DrainFinished, Phases
    <3>2. turn[t].msg \in Msgs
      BY <2>9 DEF DrainFinished, BackgroundCarries, Background
    <3> QED BY <2>9, <3>1, <3>2, MarkIdleTypes DEF DrainFinished, TypeOK
  <2> QED BY <1>7, <2>1, <2>2, <2>3, <2>4, <2>5, <2>6, <2>7, <2>8, <2>9 DEF TurnStep
<1>8. ASSUME NEW t \in Tasks, NEW how \in Ways, FinishStream(t, how)
      PROVE  TypeOK' /\ BackgroundCarries'
  <2>1. turn' \in [Tasks -> TurnRecord] /\ BackgroundCarries'
    BY <1>8, EnterTypes DEF FinishStream, Phases
  <2>2. parked' \subseteq Msgs
    BY <1>8 DEF FinishStream, BackgroundCarries, TypeOK
  <2> QED BY <1>8, <2>1, <2>2 DEF FinishStream, TypeOK
<1>9. ASSUME NEW m \in Msgs, DeliverBusy(m) PROVE TypeOK' /\ BackgroundCarries'
  BY <1>9, AppendProperties DEF DeliverBusy, TypeOK, BackgroundCarries, Background
<1>10. ASSUME NEW m \in Msgs, DeliverUnroutable(m) PROVE TypeOK' /\ BackgroundCarries'
  BY <1>10 DEF DeliverUnroutable, TypeOK, BackgroundCarries, Background
<1>11. ASSUME NEW m \in Msgs, NEW t \in Tasks, DeliverIdle(m, t)
       PROVE  TypeOK' /\ BackgroundCarries'
  BY <1>11, OpenRunTypes DEF DeliverIdle, Claim, NewTurn, TypeOK, TurnRecord, Kinds,
     Phases, BackgroundCarries, Background
<1>12. ASSUME NEW t \in Tasks, Resume(t) PROVE TypeOK' /\ BackgroundCarries'
  BY <1>12 DEF Resume, MarkRunning, NewTurn, TypeOK, TurnRecord, Kinds, Phases,
     BackgroundCarries, Background
<1>13. ASSUME NEW t \in Tasks, CancelSocketTurn(t) PROVE TypeOK' /\ BackgroundCarries'
  <2>1. turn' \in [Tasks -> TurnRecord] /\ BackgroundCarries'
    BY <1>13, EnterTypes DEF CancelSocketTurn, Phases
  <2> QED BY <1>13, <2>1, TurnsAssumption DEF CancelSocketTurn, TypeOK
<1>14. ASSUME NEW t \in Tasks, CrashDrainTurn(t) PROVE TypeOK' /\ BackgroundCarries'
  <2>1. turn' \in [Tasks -> TurnRecord] /\ BackgroundCarries'
    BY <1>14, EnterTypes DEF CrashDrainTurn, Phases
  <2> QED BY <1>14, <2>1, TurnsAssumption DEF CrashDrainTurn, TypeOK
<1>15. ASSUME NEW force \in BOOLEAN, ForceIdle(force)
       PROVE  TypeOK' /\ BackgroundCarries'
  <2>1. CASE TurnAlive \/ queue = <<>> \/ ~cached
    BY <1>15, <2>1, MarkIdleTypes DEF ForceIdle, TypeOK, BackgroundCarries, Background
  <2>2. CASE ~(TurnAlive \/ queue = <<>> \/ ~cached)
    <3>1. Head(queue) \in Msgs /\ Tail(queue) \in Seq(Msgs)
      BY <2>2, HeadTailProperties DEF TypeOK
    <3>2. PICK t \in Tasks :
            /\ running' = TRUE
            /\ owner' = t
            /\ bound' = t
            /\ usurped' = Usurps(None)
            /\ turn' = [turn EXCEPT ![t] = NewTurn("drain", "created", Head(queue), None)]
            /\ queue' = Tail(queue)
      BY <1>15, <2>2 DEF ForceIdle
    <3>3. turn' \in [Tasks -> TurnRecord] /\ BackgroundCarries'
      BY <3>1, <3>2 DEF TypeOK, NewTurn, TurnRecord, Kinds, Phases, BackgroundCarries,
         Background
    <3>4. usurped' \in BOOLEAN
      BY <3>2 DEF TypeOK, Usurps, Live
    <3> QED BY <1>15, <3>1, <3>2, <3>3, <3>4 DEF ForceIdle, TypeOK
  <2> QED BY <2>1, <2>2
<1>16. CASE UNCHANGED vars
  BY <1>16 DEF vars, TypeOK, BackgroundCarries, Background
<1> QED
  BY <1>1, <1>2, <1>3, <1>5, <1>6, <1>7, <1>8, <1>9, <1>10, <1>11, <1>12, <1>13,
     <1>14, <1>15, <1>16 DEF Next

(* Init establishes the types. *)
LEMMA TypeInit == Init => TypeOK /\ BackgroundCarries
<1> SUFFICES ASSUME Init PROVE TypeOK /\ BackgroundCarries
  OBVIOUS
<1>1. turn \in [Tasks -> TurnRecord] /\ BackgroundCarries
  BY DEF Init, BackgroundCarries, Background, NoTurn, NewTurn, TurnRecord, Kinds, Phases
<1>2. sock \in [Sockets -> SockRecord]
  BY DEF Init, SockRecord
<1>3. queue \in Seq(Msgs) /\ history \in Seq(Msgs) /\ arrivals \in Seq(Msgs)
  BY EmptySeq DEF Init
<1>4. faults \in 0..MaxFaults
  BY TurnsAssumption DEF Init
<1> QED
  BY <1>1, <1>2, <1>3, <1>4 DEF Init, TypeOK

(* Every variable of the session keeps its type, for any messages, sockets *)
(* and bounds.                                                             *)
THEOREM TypeCorrect == Spec => []TypeOK
<1>1. Init => TypeOK /\ BackgroundCarries
  BY TypeInit
<1>2. TypeOK /\ BackgroundCarries /\ [Next]_vars => TypeOK' /\ BackgroundCarries'
  BY TypeStep
<1> QED
  BY <1>1, <1>2, PTL DEF Spec

-----------------------------------------------------------------------------
(* The claim on the session. *)

(* What a step of turn t's phase does to every turn. *)
LEMMA EnterFacts ==
  ASSUME TypeOK, NEW t \in Tasks, NEW p \in Phases, Enter(t, p), NEW u \in Tasks
  PROVE  /\ turn'[u].kind = turn[u].kind
         /\ turn'[u].sock = turn[u].sock
         /\ turn'[u].phase = IF u = t THEN p ELSE turn[u].phase
  BY DEF TypeOK, Enter, TurnRecord

(* What the creation of turn t does to every turn. *)
LEMMA NewTurnFacts ==
  ASSUME TypeOK, NEW t \in Tasks, NEW k, NEW p, NEW m, NEW s,
         turn' = [turn EXCEPT ![t] = NewTurn(k, p, m, s)], NEW u \in Tasks
  PROVE  /\ turn'[u].kind = IF u = t THEN k ELSE turn[u].kind
         /\ turn'[u].sock = IF u = t THEN s ELSE turn[u].sock
         /\ turn'[u].phase = IF u = t THEN p ELSE turn[u].phase
  BY DEF TypeOK, NewTurn, TurnRecord

(* None is not the name of a turn. *)
LEMMA NoneIsNoTask == None \notin Tasks /\ None \notin Sockets
  BY TurnsAssumption

(* A fresh turn has not been used. *)
LEMMA FreshIsUnused ==
  ASSUME NEW t \in Tasks, Fresh(t) PROVE turn[t].phase = "unused"
  BY DEF Fresh, Tasks

(* A step that leaves the flag alone keeps FlagInv if it brings no turn to *)
(* life, ends the life of none by "closing", and changes no kind.          *)
LEMMA FlagKept ==
  ASSUME TypeOK, FlagInv, UNCHANGED flagVars,
         \A u \in Tasks : /\ turn'[u].kind = turn[u].kind
                          /\ Live(u)' => Live(u)
                          /\ turn'[u].phase \in {"unused", "closing"} =>
                                turn[u].phase \in {"unused", "closing"}
  PROVE  FlagInv'
<1> USE NoneIsNoTask DEF flagVars
<1>1. FlagIsOwned'
  BY DEF FlagInv, FlagIsOwned
<1>2. OwnerIsBound'
  BY DEF FlagInv, OwnerIsBound, TypeOK
<1>3. BoundHasNotReleased'
  BY DEF FlagInv, BoundHasNotReleased, TypeOK
<1> QED
  BY <1>1, <1>2, <1>3 DEF FlagInv

(* A new turn that claims an idle session. *)
LEMMA FlagClaimed ==
  ASSUME TypeOK, FlagInv, NEW t \in Tasks,
         running', owner' = t, usurped' = usurped, ~running,
         turn'[t].phase # "unused", turn'[t].phase # "closing",
         bound' = t \/ (turn'[t].kind = "resume" /\ bound' = bound),
         \A u \in Tasks \ {t} : turn'[u] = turn[u],
         turn[t].phase = "unused"
  PROVE  FlagInv'
<1> USE NoneIsNoTask
<1>1. FlagIsOwned'
  BY DEF FlagInv, FlagIsOwned, Live
<1>2. OwnerIsBound'
  BY DEF OwnerIsBound
<1>3. BoundHasNotReleased'
  BY DEF FlagInv, BoundHasNotReleased, TypeOK
<1> QED
  BY <1>1, <1>2, <1>3 DEF FlagInv

(* mark_idle, in a step after which only turns other than `current` that   *)
(* were live before it are.                                                *)
LEMMA FlagReleased ==
  ASSUME TypeOK, FlagInv, NEW current \in Tasks \cup {None}, MarkIdle(current),
         \A u \in Tasks : /\ Live(u)' => Live(u) /\ u # current
                          /\ turn'[u].phase \in {"unused", "closing"} =>
                                turn[u].phase \in {"unused", "closing"} \/ u = current
  PROVE  FlagInv'
<1> USE NoneIsNoTask
<1>1. FlagIsOwned'
  BY DEF FlagInv, FlagIsOwned, MarkIdle, Usurps, TypeOK
<1>2. OwnerIsBound'
  BY DEF OwnerIsBound, MarkIdle
<1>3. BoundHasNotReleased'
  BY DEF FlagInv, BoundHasNotReleased, MarkIdle, BoundAfterIdle, TypeOK
<1> QED
  BY <1>1, <1>2, <1>3 DEF FlagInv

(* Every action keeps the invariant of the flag. *)
LEMMA FlagStep ==
  ASSUME TypeOK, FlagInv, TaskInv, [Next]_vars
  PROVE  FlagInv'
<1>1. CASE UNCHANGED <<flagVars, turn>>
  BY <1>1, FlagKept DEF Live
<1>2. ASSUME NEW s \in Sockets, NEW t \in Tasks, NEW m \in Msgs \cup {None},
             ClaimTurn(s, t, m)
      PROVE  FlagInv'
  <2>1. turn[t].phase = "unused"
    BY <1>2, FreshIsUnused DEF ClaimTurn
  <2>2. turn'[t].phase = "created" /\ \A u \in Tasks \ {t} : turn'[u] = turn[u]
    BY <1>2 DEF ClaimTurn, NewTurn, TypeOK
  <2> QED BY <1>2, <2>1, <2>2, FlagClaimed DEF ClaimTurn, Claim
<1>3. ASSUME NEW t \in Tasks, StartSocketTurn(t) PROVE FlagInv'
  BY <1>3, EnterFacts, FlagKept DEF StartSocketTurn, Live, Phases, flagVars
<1>4. ASSUME NEW t \in Tasks, StartDrainTurn(t) PROVE FlagInv'
  <2>1. \A u \in Tasks : /\ turn'[u].kind = turn[u].kind
                         /\ turn'[u].phase = IF u = t THEN "streaming" ELSE turn[u].phase
    BY <1>4, EnterFacts DEF StartDrainTurn, Phases
  <2>2. FlagIsOwned'
    BY <1>4, <2>1 DEF StartDrainTurn, FlagInv, FlagIsOwned, Live
  <2>3. OwnerIsBound'
    BY <1>4, <2>1, NoneIsNoTask DEF StartDrainTurn, FlagInv, FlagIsOwned, OwnerIsBound, Live, TypeOK
  <2>4. BoundHasNotReleased'
    BY <1>4, <2>1 DEF StartDrainTurn, BoundHasNotReleased
  <2> QED BY <2>2, <2>3, <2>4 DEF FlagInv
<1>5. ASSUME NEW t \in Tasks, EndSocketTurn(t) PROVE FlagInv'
  BY <1>5, EnterFacts, FlagReleased DEF EndSocketTurn, Live, Phases
<1>6. ASSUME NEW t \in Tasks, EndBackgroundTurn(t) PROVE FlagInv'
  BY <1>6, EnterFacts, FlagReleased DEF EndBackgroundTurn, Live, Phases
<1>7. ASSUME NEW t \in Tasks, EndResume(t) PROVE FlagInv'
  BY <1>7, EnterFacts, FlagReleased DEF EndResume, Live, Phases
<1>8. ASSUME NEW t \in Tasks, CloseTurn(t) PROVE FlagInv'
  BY <1>8, EnterFacts, FlagKept DEF CloseTurn, Live, Phases, flagVars
<1>9. ASSUME NEW t \in Tasks, Backstop(t) PROVE FlagInv'
  <2>1. UNCHANGED turn
    BY <1>9 DEF Backstop
  <2> QED BY <1>9, <2>1, FlagKept, FlagReleased, NoneIsNoTask DEF Backstop, Live
<1>10. ASSUME NEW t \in Tasks, DrainFinished(t) PROVE FlagInv'
  <2>1. \A u \in Tasks : /\ turn'[u].kind = turn[u].kind
                         /\ turn'[u].phase = IF u = t THEN "done" ELSE turn[u].phase
    BY <1>10, EnterFacts DEF DrainFinished, Phases
  <2>2. CASE bound = t
    BY <1>10, <2>1, <2>2, FlagReleased, NoneIsNoTask DEF DrainFinished, Live
  <2>3. CASE bound # t
    BY <1>10, <2>1, <2>3, FlagKept DEF DrainFinished, Live
  <2> QED BY <2>2, <2>3
<1>11. ASSUME NEW t \in Tasks, NEW how \in Ways, FinishStream(t, how) PROVE FlagInv'
  BY <1>11, EnterFacts, FlagKept DEF FinishStream, Live, Phases
<1>12. ASSUME NEW m \in Msgs, NEW t \in Tasks, DeliverIdle(m, t) PROVE FlagInv'
  <2>1. turn[t].phase = "unused"
    BY <1>12, FreshIsUnused DEF DeliverIdle
  <2>2. turn'[t].phase = "streaming" /\ \A u \in Tasks \ {t} : turn'[u] = turn[u]
    BY <1>12 DEF DeliverIdle, NewTurn, TypeOK
  <2> QED BY <1>12, <2>1, <2>2, FlagClaimed DEF DeliverIdle, Claim
<1>13. ASSUME NEW t \in Tasks, Resume(t) PROVE FlagInv'
  <2>1. turn[t].phase = "unused"
    BY <1>13, FreshIsUnused DEF Resume
  <2>2. /\ turn'[t].phase = "streaming"
        /\ turn'[t].kind = "resume"
        /\ \A u \in Tasks \ {t} : turn'[u] = turn[u]
    BY <1>13 DEF Resume, NewTurn, TypeOK
  <2> QED BY <1>13, <2>1, <2>2, FlagClaimed DEF Resume, MarkRunning
<1>14. ASSUME NEW t \in Tasks, CancelSocketTurn(t) PROVE FlagInv'
  BY <1>14, EnterFacts, FlagKept DEF CancelSocketTurn, Live, Phases
<1>15. ASSUME NEW t \in Tasks, CrashDrainTurn(t) PROVE FlagInv'
  BY <1>15, EnterFacts, FlagKept DEF CrashDrainTurn, Live, Phases
<1>16. ASSUME NEW force \in BOOLEAN, ForceIdle(force) PROVE FlagInv'
  <2>1. CASE TurnAlive \/ queue = <<>> \/ ~cached
    BY <1>16, <2>1, FlagReleased, NoneIsNoTask DEF ForceIdle, Live
  <2>2. CASE ~(TurnAlive \/ queue = <<>> \/ ~cached)
    <3>1. PICK t \in Tasks :
            /\ Fresh(t)
            /\ running' = TRUE
            /\ owner' = t
            /\ bound' = t
            /\ usurped' = Usurps(None)
            /\ turn' = [turn EXCEPT ![t] = NewTurn("drain", "created", Head(queue), None)]
      BY <1>16, <2>2 DEF ForceIdle
    <3>2. /\ turn'[t].phase = "created"
          /\ \A u \in Tasks \ {t} : turn'[u] = turn[u]
      BY <3>1 DEF NewTurn, TypeOK
    <3>3. ~usurped' => \A u \in Tasks : ~Live(u)
      BY <3>1, NoneIsNoTask DEF Usurps, FlagInv, FlagIsOwned, TypeOK
    <3>4. FlagIsOwned'
      BY <3>1, <3>2, <3>3, NoneIsNoTask DEF FlagIsOwned, Live
    <3>5. OwnerIsBound' /\ BoundHasNotReleased'
      BY <3>1, <3>2 DEF OwnerIsBound, BoundHasNotReleased
    <3> QED BY <3>4, <3>5 DEF FlagInv
  <2> QED BY <2>1, <2>2
<1> QED
  BY <1>1, <1>2, <1>3, <1>4, <1>5, <1>6, <1>7, <1>8, <1>9, <1>10, <1>11,
     <1>12, <1>13, <1>14, <1>15, <1>16
     DEF Next, TurnStep, UserMessage, RetryFrame, Connect, Interrupt, Disconnect,
         InjectSteering, DeliverBusy, DeliverUnroutable, vars

(* Turns that keep their kind and socket, are not made closing or done,    *)
(* and sockets that stay as they are, keep TaskInv.                        *)
LEMMA TasksKept ==
  ASSUME TypeOK, TaskInv, UNCHANGED sockVars,
         \A u \in Tasks :
           /\ turn'[u].kind = turn[u].kind
           /\ turn'[u].sock = turn[u].sock
           /\ turn[u].phase # "unused" => turn'[u].phase # "unused"
           /\ turn'[u].phase \in {"closing", "done"} =>
                 turn[u].phase \in {"closing", "done"} \/ turn[u].kind # "socket"
           /\ turn'[u].phase = "crashed" =>
                 turn[u].phase = "crashed" \/ turn[u].kind = "drain"
  PROVE  TaskInv'
<1> USE NoneIsNoTask DEF sockVars
<1>1. SocketsTrack'
  <2>1. ASSUME NEW s \in Sockets, sock[s].task # None
        PROVE  Tracks(s, sock[s].task)'
    <3>1. sock[s].task \in Tasks
      BY <2>1 DEF TypeOK, SockRecord
    <3>2. Tracks(s, sock[s].task)
      BY <2>1 DEF TaskInv, SocketsTrack
    <3> QED BY <3>1, <3>2 DEF Tracks
  <2> QED BY <2>1 DEF TaskInv, SocketsTrack
<1>2. SocketsDoNotCrash'
  BY DEF TaskInv, SocketsDoNotCrash
<1> QED
  BY <1>1, <1>2 DEF TaskInv

(* A turn created from nothing, for no socket. *)
LEMMA TasksGrow ==
  ASSUME TypeOK, TaskInv, UNCHANGED sockVars, NEW t \in Tasks,
         turn[t].phase = "unused", turn'[t].phase \in {"created", "streaming"},
         \A u \in Tasks \ {t} : turn'[u] = turn[u]
  PROVE  TaskInv'
<1> USE NoneIsNoTask DEF sockVars
<1>1. SocketsTrack'
  BY DEF TaskInv, SocketsTrack, Tracks, TypeOK, SockRecord
<1>2. SocketsDoNotCrash'
  BY DEF TaskInv, SocketsDoNotCrash
<1> QED
  BY <1>1, <1>2 DEF TaskInv

(* Every action keeps the invariant of the tasks. *)
LEMMA TaskStep ==
  ASSUME TypeOK, TaskInv, [Next]_vars
  PROVE  TaskInv'
<1>1. CASE UNCHANGED <<sockVars, turn>>
  BY <1>1, TasksKept
<1>2. ASSUME NEW s \in Sockets, Connect(s) PROVE TaskInv'
  BY <1>2 DEF Connect, TaskInv, SocketsTrack, SocketsDoNotCrash, Tracks, TypeOK, SockRecord
<1>3. ASSUME NEW s \in Sockets, Disconnect(s) PROVE TaskInv'
  BY <1>3 DEF Disconnect, TaskInv, SocketsTrack, SocketsDoNotCrash, Tracks, TypeOK, SockRecord
<1>4. ASSUME NEW s \in Sockets, NEW t \in Tasks, NEW m \in Msgs \cup {None},
             ClaimTurn(s, t, m)
      PROVE  TaskInv'
  <2>1. turn[t].phase = "unused"
    BY <1>4, FreshIsUnused DEF ClaimTurn
  <2>2. /\ turn'[t].phase = "created"
        /\ turn'[t].kind = "socket"
        /\ turn'[t].sock = s
        /\ \A u \in Tasks \ {t} : turn'[u] = turn[u]
    BY <1>4 DEF ClaimTurn, NewTurn, TypeOK
  <2>3. /\ sock[s].state = "open"
        /\ sock'[s].task = t
        /\ \A r \in Sockets \ {s} : sock'[r] = sock[r]
        /\ hooks' = hooks
    BY <1>4 DEF ClaimTurn, TypeOK, SockRecord
  <2>4. SocketsTrack'
    BY <2>1, <2>2, <2>3 DEF TaskInv, SocketsTrack, Tracks, TypeOK, SockRecord
  <2>5. SocketsDoNotCrash'
    BY <2>2 DEF TaskInv, SocketsDoNotCrash
  <2> QED BY <2>4, <2>5 DEF TaskInv
<1>5. ASSUME NEW t \in Tasks, EndSocketTurn(t) PROVE TaskInv'
  <2>1. \A u \in Tasks : /\ turn'[u].kind = turn[u].kind
                         /\ turn'[u].sock = turn[u].sock
                         /\ turn'[u].phase = IF u = t THEN "closing" ELSE turn[u].phase
    BY <1>5, EnterFacts DEF EndSocketTurn, Phases
  <2>2. /\ hooks' = hooks
        /\ \A r \in Sockets : /\ sock'[r].task = sock[r].task
                              /\ sock'[r].state = sock[r].state
                              /\ sock[r].released => sock'[r].released
                              /\ r = turn[t].sock => sock'[r].released
    BY <1>5 DEF EndSocketTurn, TypeOK, SockRecord
  <2>3. SocketsTrack'
    BY <2>1, <2>2 DEF TaskInv, SocketsTrack, Tracks, TypeOK, SockRecord
  <2>4. SocketsDoNotCrash'
    BY <2>1 DEF TaskInv, SocketsDoNotCrash
  <2> QED BY <2>3, <2>4 DEF TaskInv
<1>6. ASSUME NEW t \in Tasks, Backstop(t) PROVE TaskInv'
  BY <1>6 DEF Backstop, TaskInv, SocketsTrack, SocketsDoNotCrash, Tracks
<1>7. ASSUME NEW t \in Tasks, StartSocketTurn(t) PROVE TaskInv'
  BY <1>7, EnterFacts, TasksKept DEF StartSocketTurn, Phases
<1>8. ASSUME NEW t \in Tasks, StartDrainTurn(t) PROVE TaskInv'
  BY <1>8, EnterFacts, TasksKept DEF StartDrainTurn, Phases
<1>9. ASSUME NEW t \in Tasks, EndResume(t) PROVE TaskInv'
  BY <1>9, EnterFacts, TasksKept DEF EndResume, Phases
<1>10. ASSUME NEW t \in Tasks, EndBackgroundTurn(t) PROVE TaskInv'
  BY <1>10, EnterFacts, TasksKept DEF EndBackgroundTurn, Phases, Background
<1>11. ASSUME NEW t \in Tasks, CloseTurn(t) PROVE TaskInv'
  BY <1>11, EnterFacts, TasksKept DEF CloseTurn, Phases
<1>12. ASSUME NEW t \in Tasks, CancelSocketTurn(t) PROVE TaskInv'
  BY <1>12, EnterFacts, TasksKept DEF CancelSocketTurn, Phases
<1>13. ASSUME NEW t \in Tasks, CrashDrainTurn(t) PROVE TaskInv'
  BY <1>13, EnterFacts, TasksKept DEF CrashDrainTurn, Phases
<1>14. ASSUME NEW t \in Tasks, DrainFinished(t) PROVE TaskInv'
  BY <1>14, EnterFacts, TasksKept DEF DrainFinished, Phases
<1>15. ASSUME NEW t \in Tasks, NEW how \in Ways, FinishStream(t, how) PROVE TaskInv'
  BY <1>15, EnterFacts, TasksKept DEF FinishStream, Phases
<1>16. ASSUME NEW m \in Msgs, NEW t \in Tasks, DeliverIdle(m, t) PROVE TaskInv'
  <2>1. turn[t].phase = "unused"
    BY <1>16, FreshIsUnused DEF DeliverIdle
  <2>2. turn'[t].phase = "streaming" /\ \A u \in Tasks \ {t} : turn'[u] = turn[u]
    BY <1>16 DEF DeliverIdle, NewTurn, TypeOK
  <2> QED BY <1>16, <2>1, <2>2, TasksGrow DEF DeliverIdle
<1>17. ASSUME NEW t \in Tasks, Resume(t) PROVE TaskInv'
  <2>1. turn[t].phase = "unused"
    BY <1>17, FreshIsUnused DEF Resume
  <2>2. turn'[t].phase = "streaming" /\ \A u \in Tasks \ {t} : turn'[u] = turn[u]
    BY <1>17 DEF Resume, NewTurn, TypeOK
  <2> QED BY <1>17, <2>1, <2>2, TasksGrow DEF Resume
<1>18. ASSUME NEW force \in BOOLEAN, ForceIdle(force) PROVE TaskInv'
  <2>1. CASE UNCHANGED turn
    BY <1>18, <2>1, TasksKept DEF ForceIdle
  <2>2. CASE ~UNCHANGED turn
    <3>1. PICK t \in Tasks :
            /\ Fresh(t)
            /\ turn' = [turn EXCEPT ![t] = NewTurn("drain", "created", Head(queue), None)]
      BY <1>18, <2>2 DEF ForceIdle
    <3>2. turn'[t].phase = "created" /\ \A u \in Tasks \ {t} : turn'[u] = turn[u]
      BY <3>1 DEF NewTurn, TypeOK
    <3> QED BY <1>18, <3>1, <3>2, FreshIsUnused, TasksGrow DEF ForceIdle
  <2> QED BY <2>1, <2>2
<1> QED
  BY <1>1, <1>2, <1>3, <1>4, <1>5, <1>6, <1>7, <1>8, <1>9, <1>10, <1>11,
     <1>12, <1>13, <1>14, <1>15, <1>16, <1>17, <1>18
     DEF Next, TurnStep, UserMessage, RetryFrame, Interrupt, InjectSteering, DeliverBusy,
         DeliverUnroutable, vars, sockVars

-----------------------------------------------------------------------------
(* What follows. *)

(* The inductive invariant holds at the start. *)
LEMMA IInvInit == Init => IInv
<1> SUFFICES ASSUME Init PROVE IInv
  OBVIOUS
<1>1. \A t \in Tasks : turn[t].phase = "unused"
  BY DEF Init, NoTurn, NewTurn
<1>2. FlagInv
  BY <1>1 DEF Init, FlagInv, FlagIsOwned, OwnerIsBound, BoundHasNotReleased, Live
<1>3. TaskInv
  BY <1>1 DEF Init, TaskInv, SocketsTrack, SocketsDoNotCrash
<1> QED
  BY <1>2, <1>3, TypeInit DEF IInv

(* The inductive invariant always holds. *)
THEOREM Inductive == Spec => []IInv
<1>1. IInv /\ [Next]_vars => IInv'
  BY TypeStep, FlagStep, TaskStep DEF IInv
<1> QED
  BY <1>1, IInvInit, PTL DEF Spec

(* No two turns are ever on the engine at once, unless a live claim was    *)
(* cleared from outside.                                                   *)
THEOREM MutualExclusion == Spec => []OneRunAtATime
<1>1. IInv => OneRunAtATime
  BY DEF IInv, FlagInv, FlagIsOwned, OneRunAtATime, OnEngine, Live
<1> QED
  BY <1>1, Inductive, PTL

(* A plain release always frees a flag whose turn is gone. *)
THEOREM StuckFlagsAreFreed == Spec => []StuckFlagIsReleasable
<1>1. IInv => StuckFlagIsReleasable
  <2> SUFFICES ASSUME IInv, ~usurped, TurnAlive, running PROVE Live(owner)
    BY DEF StuckFlagIsReleasable
  <2>1. bound \in Tasks /\ turn[bound].phase \in Phases
    BY DEF IInv, TypeOK, TurnAlive, TurnRecord
  <2>2. Live(bound)
    BY <2>1 DEF IInv, FlagInv, BoundHasNotReleased, TurnAlive, Finished, Live, Phases
  <2> QED
    BY <2>1, <2>2 DEF IInv, FlagInv, FlagIsOwned
<1> QED
  BY <1>1, Inductive, PTL

(* A live claim that nobody overrode before is owned by a bound turn, or   *)
(* by a durable resume; mark_idle by its own turn usurps nothing.          *)
LEMMA OwnTurnUsurpsNothing ==
  ASSUME IInv, NEW t \in Tasks, Live(t), MarkIdle(t), ~usurped
  PROVE  ~usurped'
  BY DEF IInv, FlagInv, FlagIsOwned, MarkIdle, Usurps

(* A live claim is cleared from outside only by a forced release, by any   *)
(* release under a durable resume, or by the backstop of a socket turn     *)
(* that was cancelled before its first step.                               *)
THEOREM UsurpersAreKnown == Spec => OnlyKnownUsurpers
<1> DEFINE Known == \/ TurnAlive /\ ForceIdle(TRUE)
                    \/ turn[owner].kind = "resume"
                    \/ \E t \in hooks \ hooks' : turn[t].phase = "cancelled"
<1>1. ASSUME IInv, [Next]_vars, ~usurped, usurped' PROVE Known
  <2> USE NoneIsNoTask DEF IInv
  <2>1. usurped' # usurped
    BY <1>1
  <2>2. ASSUME NEW t \in Tasks, EndSocketTurn(t) \/ EndBackgroundTurn(t) \/ EndResume(t)
        PROVE  FALSE
    <3>1. Live(t) /\ MarkIdle(t)
      BY <2>2 DEF EndSocketTurn, EndBackgroundTurn, EndResume, Live
    <3> QED BY <1>1, <3>1, OwnTurnUsurpsNothing
  <2>3. ASSUME NEW t \in Tasks, Backstop(t) PROVE Known
    <3>1. PICK s \in Sockets : sock[s].task = t
      BY <1>1, <2>3 DEF Backstop, TaskInv, SocketsTrack
    <3>2. turn[t].kind = "socket" /\ turn[t].sock = s /\ Tracks(s, t)
      BY <1>1, <3>1 DEF TaskInv, SocketsTrack, Tracks
    <3>3. ~sock[s].released
      BY <2>1, <2>3, <3>2 DEF Backstop, flagVars
    <3>4. turn[t].phase = "cancelled"
      BY <1>1, <2>3, <3>2, <3>3 DEF Backstop, Finished, Tracks, TaskInv, SocketsDoNotCrash
    <3>5. t \in hooks \ hooks'
      BY <2>3 DEF Backstop
    <3> QED BY <3>4, <3>5
  <2>4. owner # None /\ Live(owner) => turn[owner].kind = "resume" \/ bound = owner
    BY <1>1 DEF FlagInv, OwnerIsBound
  <2>5. ASSUME Usurps(None) PROVE owner # None /\ Live(owner)
    BY <1>1, <2>5 DEF Usurps
  <2>6. ASSUME NEW t \in Tasks, DrainFinished(t) PROVE Known
    <3>1. bound = t /\ Usurps(None)
      BY <1>1, <2>1, <2>6 DEF DrainFinished, flagVars, MarkIdle
    <3> QED BY <2>4, <2>5, <2>6, <3>1 DEF DrainFinished, Live
  <2>7. ASSUME NEW force \in BOOLEAN, ForceIdle(force) PROVE Known
    <3>1. Usurps(None)
      BY <1>1, <2>7 DEF ForceIdle, MarkIdle
    <3>2. CASE bound = owner
      <4>1. TurnAlive
        BY <2>5, <3>1, <3>2 DEF TurnAlive, Live, Finished
      <4>2. force = TRUE
        BY <2>7, <4>1 DEF ForceIdle
      <4> QED BY <2>7, <4>1, <4>2
    <3> QED BY <2>4, <2>5, <3>1, <3>2
  <2> QED
    BY <1>1, <2>1, <2>2, <2>3, <2>6, <2>7
       DEF Next, TurnStep, vars, flagVars, Connect, Interrupt, Disconnect, RetryFrame,
           UserMessage, ClaimTurn, Claim, StartSocketTurn, StartDrainTurn, InjectSteering,
           CloseTurn, FinishStream, DeliverBusy, DeliverUnroutable, DeliverIdle, Resume,
           MarkRunning, CancelSocketTurn, CrashDrainTurn
<1>2. IInv /\ [Next]_vars => [~usurped /\ usurped' => Known]_vars
  BY <1>1
<1> QED
  BY <1>2, Inductive, PTL DEF Spec, OnlyKnownUsurpers

-----------------------------------------------------------------------------
(* The session implements its lock. *)

(* The run on the engine, when there is one at most. *)
LEMMA HolderIs ==
  ASSUME NEW t \in Tasks, OnEngine(t), \A u \in Tasks : OnEngine(u) => u = t
  PROVE  Holder = t
  BY DEF Holder

LEMMA HolderIsNone ==
  ASSUME \A u \in Tasks : ~OnEngine(u) PROVE Holder = None
  BY DEF Holder

(* If the same runs are on the engine, the same run holds it. *)
LEMMA SameHolder ==
  ASSUME OneRunAtATime, ~usurped, \A u \in Tasks : OnEngine(u)' <=> OnEngine(u)
  PROVE  Holder' = Holder
<1>1. CASE \E t \in Tasks : OnEngine(t)
  <2>1. PICK t \in Tasks : OnEngine(t)
    BY <1>1
  <2>2. Holder = t
    BY <2>1, HolderIs DEF OneRunAtATime
  <2>3. OnEngine(t)' /\ \A u \in Tasks : OnEngine(u)' => u = t
    BY <2>1 DEF OneRunAtATime
  <2>4. Holder' = t
    BY <2>3 DEF Holder
  <2> QED
    BY <2>2, <2>4
<1>2. CASE \A t \in Tasks : ~OnEngine(t)
  <2>1. Holder = None
    BY <1>2, HolderIsNone
  <2>2. Holder' = None
    BY <1>2 DEF Holder
  <2> QED
    BY <2>1, <2>2
<1> QED
  BY <1>1, <1>2

(* A turn on the engine owns the flag, so that an idle session has a free  *)
(* engine, and so does one whose owner has not started yet.                *)
LEMMA EngineIsFree ==
  ASSUME IInv, ~usurped,
         ~running \/ \E t \in Tasks : Live(t) /\ ~OnEngine(t)
  PROVE  \A u \in Tasks : ~OnEngine(u)
  BY NoneIsNoTask DEF IInv, FlagInv, FlagIsOwned, Live, OnEngine

(* Words added at the end of a sequence leave it as a prefix. *)
LEMMA GrowsByAppend ==
  ASSUME NEW s \in Seq(Msgs), NEW m \in Msgs
  PROVE  Lock!IsPrefix(s, Append(s, m))
  BY DEF Lock!IsPrefix

LEMMA GrowsByConcat ==
  ASSUME NEW s \in Seq(Msgs), NEW r \in Seq(Msgs)
  PROVE  Lock!IsPrefix(s, s \o r)
  BY DEF Lock!IsPrefix

LEMMA StaysPrefix ==
  ASSUME NEW s \in Seq(Msgs) PROVE Lock!IsPrefix(s, s)
  BY DEF Lock!IsPrefix

(* The first step of an engine run leaves the thread or adds to it. *)
LEMMA OpenRunGrows ==
  ASSUME TypeOK, NEW m \in Msgs \cup {None}, OpenRun(m)
  PROVE  Lock!IsPrefix(history, history')
  BY GrowsByAppend, StaysPrefix DEF OpenRun, TypeOK

(* The thread only grows. *)
LEMMA ThreadGrows ==
  ASSUME TypeOK, [Next]_vars
  PROVE  Lock!IsPrefix(history, history')
<1> USE DEF threadVars
<1>1. CASE UNCHANGED history
  BY <1>1, StaysPrefix DEF TypeOK
<1>2. ASSUME NEW t \in Tasks, StartSocketTurn(t) \/ StartDrainTurn(t)
      PROVE  Lock!IsPrefix(history, history')
  <2>1. turn[t].msg \in Msgs \cup {None}
    BY DEF TypeOK, TurnRecord
  <2> QED
    BY <1>2, <2>1, OpenRunGrows DEF StartSocketTurn, StartDrainTurn
<1>3. ASSUME NEW m \in Msgs, NEW t \in Tasks, DeliverIdle(m, t)
      PROVE  Lock!IsPrefix(history, history')
  BY <1>3, OpenRunGrows DEF DeliverIdle
<1>4. ASSUME NEW t \in Tasks, InjectSteering(t) PROVE Lock!IsPrefix(history, history')
  BY <1>4, GrowsByConcat DEF InjectSteering, TypeOK
<1> QED
  BY <1>1, <1>2, <1>3, <1>4
     DEF Next, TurnStep, vars, Connect, Interrupt, Disconnect, RetryFrame, UserMessage,
         ClaimTurn, EndSocketTurn, EndBackgroundTurn, EndResume, CloseTurn, Backstop,
         DrainFinished, FinishStream, DeliverBusy, DeliverUnroutable, Resume,
         CancelSocketTurn, CrashDrainTurn, ForceIdle

(* A run that enters a free engine acquires the lock. *)
LEMMA Acquires ==
  ASSUME NEW t \in Tasks, \A u \in Tasks : ~OnEngine(u), OnEngine(t)',
         \A u \in Tasks \ {t} : OnEngine(u)' => OnEngine(u),
         UNCHANGED usurped, Lock!IsPrefix(history, history')
  PROVE  Lock!Next
<1>1. Holder = None
  BY HolderIsNone
<1>2. Holder' = t
  BY DEF Holder
<1> QED
  BY <1>1, <1>2 DEF Lock!Next, Lock!Acquire

(* A run that leaves the engine releases it. *)
LEMMA Releases ==
  ASSUME OneRunAtATime, ~usurped, NEW t \in Tasks, OnEngine(t), ~OnEngine(t)',
         \A u \in Tasks \ {t} : OnEngine(u)' => OnEngine(u),
         UNCHANGED <<usurped, history>>
  PROVE  Lock!Next
<1>1. Holder = t
  BY HolderIs DEF OneRunAtATime
<1>2. Holder' = None
  BY DEF Holder, OneRunAtATime
<1> QED
  BY <1>1, <1>2, NoneIsNoTask DEF Lock!Next, Lock!Release

(* The operator's release touches neither the engine nor the thread.       *)
LEMMA ReleaseIsStill ==
  ASSUME TypeOK, NEW force \in BOOLEAN, ForceIdle(force)
  PROVE  (\A u \in Tasks : OnEngine(u)' <=> OnEngine(u)) /\ UNCHANGED history
<1>1. CASE UNCHANGED turn
  BY <1>1 DEF ForceIdle, OnEngine
<1>2. CASE ~UNCHANGED turn
  <2>1. PICK t \in Tasks :
          /\ Fresh(t)
          /\ turn' = [turn EXCEPT ![t] = NewTurn("drain", "created", Head(queue), None)]
    BY <1>2 DEF ForceIdle
  <2>2. turn'[t].phase = "created" /\ \A u \in Tasks \ {t} : turn'[u] = turn[u]
    BY <2>1 DEF NewTurn, TypeOK
  <2>3. turn[t].phase = "unused"
    BY <2>1, FreshIsUnused
  <2> QED
    BY <2>2, <2>3 DEF ForceIdle, OnEngine
<1> QED
  BY <1>1, <1>2

(* What a session's step does to its lock while no claim is cleared.       *)
LEMMA SoloStep ==
  ASSUME IInv, OneRunAtATime, [Next]_vars, ~usurped, UNCHANGED usurped
  PROVE  [Lock!Next]_(Lock!vars)
<1> USE DEF IInv, flagVars, threadVars
<1> DEFINE Same == \A u \in Tasks : OnEngine(u)' <=> OnEngine(u)
<1>1. UNCHANGED usurped /\ Lock!IsPrefix(history, history')
  BY ThreadGrows
<1>2. ASSUME Same, UNCHANGED history PROVE [Lock!Next]_(Lock!vars)
  BY <1>1, <1>2, SameHolder DEF Lock!vars
<1>3. ASSUME NEW t \in Tasks, StartSocketTurn(t) \/ StartDrainTurn(t)
      PROVE  Lock!Next
  <2>1. Live(t) /\ ~OnEngine(t)
    BY <1>3 DEF StartSocketTurn, StartDrainTurn, Live, OnEngine
  <2>2. OnEngine(t)' /\ \A u \in Tasks \ {t} : OnEngine(u)' => OnEngine(u)
    BY <1>3, EnterFacts DEF StartSocketTurn, StartDrainTurn, Phases, OnEngine
  <2> QED
    BY <1>1, <2>1, <2>2, EngineIsFree, Acquires
<1>4. ASSUME NEW m \in Msgs, NEW t \in Tasks, DeliverIdle(m, t) PROVE Lock!Next
  <2>1. ~running
    BY <1>4 DEF DeliverIdle, Claim
  <2>2. OnEngine(t)' /\ \A u \in Tasks \ {t} : OnEngine(u)' => OnEngine(u)
    <3>1. turn'[t].phase = "streaming" /\ \A u \in Tasks \ {t} : turn'[u] = turn[u]
      BY <1>4 DEF DeliverIdle, NewTurn, TypeOK
    <3> QED
      BY <3>1 DEF OnEngine
  <2> QED
    BY <1>1, <2>1, <2>2, EngineIsFree, Acquires
<1>5. ASSUME NEW t \in Tasks, Resume(t) PROVE Lock!Next
  <2>1. ~running
    BY <1>5 DEF Resume
  <2>2. OnEngine(t)' /\ \A u \in Tasks \ {t} : OnEngine(u)' => OnEngine(u)
    <3>1. turn'[t].phase = "streaming" /\ \A u \in Tasks \ {t} : turn'[u] = turn[u]
      BY <1>5 DEF Resume, NewTurn, TypeOK
    <3> QED
      BY <3>1 DEF OnEngine
  <2> QED
    BY <1>1, <2>1, <2>2, EngineIsFree, Acquires
<1>6. ASSUME NEW t \in Tasks, InjectSteering(t) PROVE [Lock!Next]_(Lock!vars)
  <2>1. OnEngine(t) /\ Same
    BY <1>6 DEF InjectSteering, OnEngine
  <2>2. Holder' = Holder /\ Holder = t
    BY <2>1, SameHolder, HolderIs DEF OneRunAtATime
  <2> QED
    BY <1>1, <2>2, NoneIsNoTask DEF Lock!Next, Lock!Write
<1>7. ASSUME NEW t \in Tasks, EndSocketTurn(t) \/ EndBackgroundTurn(t) \/ EndResume(t)
      PROVE  [Lock!Next]_(Lock!vars)
  <2>1. /\ ~OnEngine(t)' /\ UNCHANGED history
        /\ \A u \in Tasks \ {t} : OnEngine(u)' <=> OnEngine(u)
    BY <1>7, EnterFacts
       DEF EndSocketTurn, EndBackgroundTurn, EndResume, Phases, OnEngine
  <2>2. CASE OnEngine(t)
    BY <1>1, <2>1, <2>2, Releases
  <2>3. CASE ~OnEngine(t)
    BY <1>2, <2>1, <2>3
  <2> QED
    BY <2>2, <2>3
<1>8. ASSUME NEW t \in Tasks,
             CloseTurn(t) \/ DrainFinished(t) \/ CancelSocketTurn(t) \/ CrashDrainTurn(t)
      PROVE  Same /\ UNCHANGED history
  BY <1>8, EnterFacts
     DEF CloseTurn, DrainFinished, CancelSocketTurn, CrashDrainTurn, Phases, OnEngine
<1>9. ASSUME NEW t \in Tasks, NEW how \in Ways, FinishStream(t, how)
      PROVE  Same /\ UNCHANGED history
  BY <1>9, EnterFacts DEF FinishStream, Phases, OnEngine
<1>10. ASSUME NEW s \in Sockets, NEW t \in Tasks, NEW m \in Msgs \cup {None},
              ClaimTurn(s, t, m)
       PROVE  Same /\ UNCHANGED history
  <2>1. turn'[t].phase = "created" /\ \A u \in Tasks \ {t} : turn'[u] = turn[u]
    BY <1>10 DEF ClaimTurn, NewTurn, TypeOK
  <2>2. turn[t].phase = "unused"
    BY <1>10, FreshIsUnused DEF ClaimTurn
  <2> QED
    BY <1>10, <2>1, <2>2 DEF ClaimTurn, OnEngine
<1>11. ASSUME NEW force \in BOOLEAN, ForceIdle(force) PROVE Same /\ UNCHANGED history
  BY <1>11, ReleaseIsStill
<1>12. CASE UNCHANGED <<turn, history>>
  BY <1>2, <1>12 DEF OnEngine
<1> QED
  BY <1>2, <1>3, <1>4, <1>5, <1>6, <1>7, <1>8, <1>9, <1>10, <1>11, <1>12
     DEF Next, TurnStep, vars, RetryFrame, UserMessage, Connect, Interrupt, Disconnect,
         Backstop, DeliverBusy, DeliverUnroutable

(* The step that clears a live claim moves no run and no message.          *)
LEMMA UsurpingStep ==
  ASSUME IInv, OneRunAtATime, [Next]_vars, ~usurped, usurped'
  PROVE  Lock!Next
<1> USE DEF IInv, flagVars, threadVars
<1> DEFINE Still == (\A u \in Tasks : OnEngine(u)' <=> OnEngine(u)) /\ UNCHANGED history
<1>1. ASSUME NEW t \in Tasks, EndSocketTurn(t) \/ EndBackgroundTurn(t) \/ EndResume(t)
      PROVE  FALSE
  <2>1. Live(t) \/ turn[t].phase = "created"
    BY <1>1 DEF EndSocketTurn, EndBackgroundTurn, EndResume, Live
  <2> QED
    BY <1>1, <2>1, OwnTurnUsurpsNothing
       DEF EndSocketTurn, EndBackgroundTurn, EndResume, Live
<1>2. ASSUME NEW t \in Tasks, Backstop(t) PROVE Still
  BY <1>2 DEF Backstop, OnEngine
<1>3. ASSUME NEW t \in Tasks, DrainFinished(t) PROVE Still
  BY <1>3, EnterFacts DEF DrainFinished, Phases, OnEngine
<1>4. ASSUME NEW force \in BOOLEAN, ForceIdle(force) PROVE Still
  BY <1>4, ReleaseIsStill
<1>5. Still
  BY <1>1, <1>2, <1>3, <1>4
     DEF Next, TurnStep, vars, Connect, Interrupt, Disconnect, RetryFrame, UserMessage,
         ClaimTurn, Claim, StartSocketTurn, StartDrainTurn, InjectSteering, CloseTurn,
         FinishStream, DeliverBusy, DeliverUnroutable, DeliverIdle, Resume, MarkRunning,
         CancelSocketTurn, CrashDrainTurn
<1>6. Holder' = Holder
  BY <1>5, SameHolder
<1> QED
  BY <1>5, <1>6 DEF Lock!Next, Lock!Break

(* Once a claim was cleared, it stays so. *)
LEMMA UsurpedForGood ==
  ASSUME [Next]_vars, usurped PROVE usurped'
<1> USE DEF flagVars, MarkIdle, Usurps
<1> QED
  BY DEF Next, TurnStep, vars, Connect, Interrupt, Disconnect, RetryFrame, UserMessage,
         ClaimTurn, Claim, StartSocketTurn, StartDrainTurn, InjectSteering, CloseTurn,
         FinishStream, DeliverBusy, DeliverUnroutable, DeliverIdle, Resume, MarkRunning,
         CancelSocketTurn, CrashDrainTurn, EndSocketTurn, EndBackgroundTurn, EndResume,
         Backstop, DrainFinished, ForceIdle

(* Every step of the session is a step of its lock, or none.               *)
LEMMA LockStep ==
  ASSUME IInv, [Next]_vars PROVE [Lock!Next]_(Lock!vars)
<1>1. OneRunAtATime
  BY DEF IInv, FlagInv, FlagIsOwned, OneRunAtATime, OnEngine, Live
<1>2. CASE ~usurped /\ ~usurped'
  <2>1. UNCHANGED usurped
    BY <1>2, TypeStep DEF IInv, TypeOK
  <2> QED
    BY <1>1, <1>2, <2>1, SoloStep
<1>3. CASE ~usurped /\ usurped'
  BY <1>1, <1>3, UsurpingStep
<1>4. CASE usurped
  <2>1. usurped' = TRUE /\ usurped = TRUE
    BY <1>4, UsurpedForGood DEF IInv, TypeOK
  <2>2. Holder' \in Tasks \cup {None}
    BY DEF Holder
  <2>3. Lock!IsPrefix(history, history')
    BY ThreadGrows DEF IInv
  <2> QED
    BY <2>1, <2>2, <2>3 DEF Lock!Next, Lock!Overlap
<1> QED
  BY <1>2, <1>3, <1>4

(* All of the session's drivers together implement its lock.               *)
THEOREM LockIsImplemented == Spec => ImplementsLock
<1>1. Init => Lock!Init
  BY HolderIsNone DEF Init, Lock!Init, OnEngine, NoTurn, NewTurn
<1>2. IInv /\ [Next]_vars => [Lock!Next]_(Lock!vars)
  BY LockStep
<1> QED
  BY <1>1, <1>2, Inductive, PTL DEF Spec, ImplementsLock, Lock!Spec

-----------------------------------------------------------------------------
(* Where a message is. *)

(* A turn that has yet to open its run with m, or died before it did. *)
Carries(t, m) == turn[t].phase = "created" /\ turn[t].msg = m
WentDown(t, m) == turn[t].phase \in {"cancelled", "crashed"} /\ turn[t].msg = m

(* No message is twice in the thread, twice in the queue, or in both. *)
ThreadIsApart ==
  /\ IsInjective(history) /\ IsInjective(queue)
  /\ Range(history) \cap Range(queue) = {}

(* A message that a turn carries is nowhere else. *)
CarriedAlone ==
  \A m \in Msgs, t \in Tasks : Carries(t, m) =>
    /\ m \notin Range(history) \cup Range(queue)
    /\ \A u \in Tasks : Carries(u, m) => u = t

(* A message that nobody has sent is nowhere. *)
UnsentIsNowhere ==
  \A m \in unsent :
    /\ m \notin Range(history) \cup Range(queue) \cup Range(arrivals)
    /\ \A t \in Tasks : ~Carries(t, m)

(* A message that was sent is somewhere, or went down with its task. *)
SentIsSomewhere ==
  \A m \in Msgs \ unsent :
    \/ m \in Range(history) \cup Range(queue) \cup parked
    \/ \E t \in Tasks : Carries(t, m) \/ WentDown(t, m)

MailInv == ThreadIsApart /\ CarriedAlone /\ UnsentIsNowhere /\ SentIsSomewhere

(* A step that moves no message keeps the invariant, if no turn forgets    *)
(* what it carries unless it goes down with it.                            *)
LEMMA MailKept ==
  ASSUME MailInv, UNCHANGED <<history, queue, unsent, arrivals>>,
         parked \subseteq parked',
         \A t \in Tasks, m \in Msgs :
           /\ Carries(t, m)' => Carries(t, m)
           /\ Carries(t, m) => Carries(t, m)' \/ WentDown(t, m)'
           /\ WentDown(t, m) => WentDown(t, m)' \/ m \in parked',
         unsent \subseteq Msgs
  PROVE  MailInv'
<1> DEFINE Car(t, m) == Carries(t, m)
           CarP(t, m) == Carries(t, m)'
           Went(t, m) == WentDown(t, m)
           WentP(t, m) == WentDown(t, m)'
<1>1. ThreadIsApart'
  BY DEF MailInv, ThreadIsApart
<1>2. CarriedAlone'
  BY DEF MailInv, CarriedAlone
<1>3. UnsentIsNowhere'
  BY DEF MailInv, UnsentIsNowhere
<1>4. SentIsSomewhere'
  BY DEF MailInv, SentIsSomewhere
<1> QED
  BY <1>1, <1>2, <1>3, <1>4 DEF MailInv

(* A turn that enters another phase. *)
LEMMA EnterCarries ==
  ASSUME TypeOK, NEW t \in Tasks, NEW p \in Phases, Enter(t, p), NEW u \in Tasks, NEW m
  PROVE  /\ Carries(u, m)' <=> (IF u = t THEN p = "created" /\ turn[t].msg = m
                                ELSE Carries(u, m))
         /\ WentDown(u, m)' <=> (IF u = t THEN p \in {"cancelled", "crashed"} /\ turn[t].msg = m
                                 ELSE WentDown(u, m))
  BY DEF TypeOK, Enter, TurnRecord, Carries, WentDown

(* The birth of a turn. *)
LEMMA NewCarries ==
  ASSUME TypeOK, NEW t \in Tasks, Fresh(t), NEW k, NEW p, NEW m, NEW s,
         turn' = [turn EXCEPT ![t] = NewTurn(k, p, m, s)], NEW u \in Tasks, NEW x
  PROVE  /\ Carries(u, x)' <=> (IF u = t THEN p = "created" /\ m = x ELSE Carries(u, x))
         /\ WentDown(u, x) => u # t /\ WentDown(u, x)'
         /\ Carries(u, x) => u # t
<1>1. turn[t].phase = "unused"
  BY FreshIsUnused
<1> QED
  BY <1>1 DEF TypeOK, NewTurn, TurnRecord, Carries, WentDown

(* A carried message opens the run of its turn. *)
LEMMA MailOpens ==
  ASSUME TypeOK, MailInv, NEW t \in Tasks, turn[t].phase = "created",
         Enter(t, "streaming"), OpenRun(turn[t].msg),
         UNCHANGED <<queue, mailVars>>
  PROVE  MailInv'
<1> USE DEF mailVars
<1> DEFINE m == turn[t].msg
<1>0. m \in Msgs \cup {None} /\ None \notin Msgs
  BY TurnsAssumption DEF TypeOK, TurnRecord
<1>1. \A u \in Tasks, x \in Msgs :
        /\ Carries(u, x)' <=> u # t /\ Carries(u, x)
        /\ WentDown(u, x) => WentDown(u, x)'
  <2>1. "streaming" \in Phases
    BY DEF Phases
  <2>2. \A x \in Msgs : ~WentDown(t, x)
    BY DEF WentDown
  <2> QED
    BY <2>1, <2>2, EnterCarries
<1>2. CASE m = None
  <2>1. \A x \in Msgs : ~Carries(t, x)
    BY <1>0, <1>2 DEF Carries
  <2> QED BY <1>1, <1>2, <2>1, MailKept DEF OpenRun, TypeOK
<1>3. CASE m # None
  <2>1. /\ m \in Msgs /\ Carries(t, m) /\ history' = Append(history, m)
        /\ Range(history') = Range(history) \cup {m}
    BY <1>0, <1>3, RangeAppend DEF OpenRun, Carries, TypeOK
  <2>2. m \notin Range(history) /\ m \notin Range(queue) /\ m \notin unsent
        /\ \A u \in Tasks : Carries(u, m) => u = t
    BY <2>1 DEF MailInv, CarriedAlone, UnsentIsNowhere
  <2> HIDE DEF m
  <2>3. ThreadIsApart'
    BY <2>1, <2>2, InjectiveAppend DEF MailInv, ThreadIsApart, TypeOK
  <2>4. CarriedAlone'
    BY <1>1, <2>1, <2>2 DEF MailInv, CarriedAlone
  <2>5. UnsentIsNowhere'
    BY <1>1, <2>1, <2>2 DEF MailInv, UnsentIsNowhere, TypeOK
  <2>6. SentIsSomewhere'
    <3>1. \A x \in Msgs : Carries(t, x) => x = m
      BY DEF Carries, m
    <3> QED BY <1>1, <2>1, <3>1 DEF MailInv, SentIsSomewhere
  <2> QED BY <2>3, <2>4, <2>5, <2>6 DEF MailInv
<1> QED BY <1>2, <1>3

(* The queue joins the thread. *)
LEMMA MailInjected ==
  ASSUME TypeOK, MailInv, NEW t \in Tasks, InjectSteering(t)
  PROVE  MailInv'
<1> USE DEF mailVars
<1>1. /\ Range(history') = Range(history) \cup Range(queue) /\ Range(queue') = {}
      /\ IsInjective(history') /\ IsInjective(queue')
  BY RangeConcatenation, RangeEmpty, InjectiveConcat, InjectiveEmpty
     DEF InjectSteering, TypeOK, MailInv, ThreadIsApart
<1>2. \A u \in Tasks, x \in Msgs :
        (Carries(u, x)' <=> Carries(u, x)) /\ (WentDown(u, x)' <=> WentDown(u, x))
  BY DEF InjectSteering, Carries, WentDown
<1>3. ThreadIsApart'
  BY <1>1 DEF ThreadIsApart
<1>4. CarriedAlone'
  BY <1>1, <1>2 DEF MailInv, CarriedAlone
<1>5. UnsentIsNowhere'
  BY <1>1, <1>2 DEF MailInv, UnsentIsNowhere, InjectSteering, TypeOK
<1>6. SentIsSomewhere'
  BY <1>1, <1>2 DEF MailInv, SentIsSomewhere, InjectSteering
<1> QED BY <1>3, <1>4, <1>5, <1>6 DEF MailInv

(* A message is sent: into the hands of a new turn ... *)
LEMMA MailSentToTurn ==
  ASSUME TypeOK, MailInv, NEW t \in Tasks, Fresh(t), NEW m \in unsent, NEW k, NEW s,
         turn' = [turn EXCEPT ![t] = NewTurn(k, "created", m, s)],
         unsent' = unsent \ {m}, UNCHANGED <<history, queue, arrivals, parked>>
  PROVE  MailInv'
<1>0. unsent \subseteq Msgs
  BY DEF TypeOK
<1>1. \A u \in Tasks, x \in Msgs :
        /\ Carries(u, x)' <=> (IF u = t THEN m = x ELSE Carries(u, x))
        /\ WentDown(u, x) => WentDown(u, x)'
        /\ Carries(u, x) => u # t
  BY NewCarries
<1>2. /\ m \notin Range(history) \cup Range(queue) \cup Range(arrivals)
      /\ \A u \in Tasks : ~Carries(u, m)
  BY DEF MailInv, UnsentIsNowhere
<1>3. ThreadIsApart'
  BY DEF MailInv, ThreadIsApart
<1>4. CarriedAlone'
  BY <1>1, <1>2 DEF MailInv, CarriedAlone
<1>5. UnsentIsNowhere'
  BY <1>0, <1>1, <1>2 DEF MailInv, UnsentIsNowhere
<1>6. SentIsSomewhere'
  BY <1>0, <1>1, <1>2 DEF MailInv, SentIsSomewhere
<1> QED BY <1>3, <1>4, <1>5, <1>6 DEF MailInv

(* ... into the thread of an idle session ... *)
LEMMA MailDelivered ==
  ASSUME TypeOK, MailInv, NEW m \in Msgs, NEW t \in Tasks, DeliverIdle(m, t)
  PROVE  MailInv'
<1>0. m \in unsent /\ unsent' = unsent \ {m} /\ unsent \subseteq Msgs /\ m # None
      /\ UNCHANGED <<queue, arrivals, parked>>
  BY TurnsAssumption DEF DeliverIdle, TypeOK
<1>1. \A u \in Tasks, x \in Msgs :
        /\ Carries(u, x)' <=> Carries(u, x)
        /\ WentDown(u, x) => WentDown(u, x)'
  BY NewCarries DEF DeliverIdle
<1>2. /\ m \notin Range(history) \cup Range(queue) \cup Range(arrivals)
      /\ \A u \in Tasks : ~Carries(u, m)
  BY <1>0 DEF MailInv, UnsentIsNowhere
<1>3. history' = Append(history, m) /\ Range(history') = Range(history) \cup {m}
  BY <1>0, RangeAppend DEF DeliverIdle, OpenRun, TypeOK
<1>4. ThreadIsApart'
  BY <1>0, <1>2, <1>3, InjectiveAppend DEF MailInv, ThreadIsApart, TypeOK
<1>5. CarriedAlone'
  BY <1>0, <1>1, <1>2, <1>3 DEF MailInv, CarriedAlone
<1>6. UnsentIsNowhere'
  BY <1>0, <1>1, <1>3 DEF MailInv, UnsentIsNowhere
<1>7. SentIsSomewhere'
  BY <1>0, <1>1, <1>3 DEF MailInv, SentIsSomewhere
<1> QED BY <1>4, <1>5, <1>6, <1>7 DEF MailInv

(* ... into the queue of a busy one ... *)
LEMMA MailQueued ==
  ASSUME TypeOK, MailInv, NEW m \in Msgs, DeliverBusy(m)
  PROVE  MailInv'
<1>0. /\ m \in unsent /\ unsent' = unsent \ {m} /\ unsent \subseteq Msgs
      /\ UNCHANGED <<turn, history, parked>>
  BY DEF DeliverBusy, TypeOK
<1>1. \A u \in Tasks, x \in Msgs :
        (Carries(u, x)' <=> Carries(u, x)) /\ (WentDown(u, x)' <=> WentDown(u, x))
  BY <1>0 DEF Carries, WentDown
<1>2. /\ m \notin Range(history) \cup Range(queue) \cup Range(arrivals)
      /\ \A u \in Tasks : ~Carries(u, m)
  BY <1>0 DEF MailInv, UnsentIsNowhere
<1>3. /\ queue' = Append(queue, m) /\ Range(queue') = Range(queue) \cup {m}
      /\ Range(arrivals') = Range(arrivals) \cup {m}
  BY RangeAppend DEF DeliverBusy, TypeOK
<1>4. ThreadIsApart'
  BY <1>0, <1>2, <1>3, InjectiveAppend DEF MailInv, ThreadIsApart, TypeOK
<1>5. CarriedAlone'
  BY <1>0, <1>1, <1>2, <1>3 DEF MailInv, CarriedAlone
<1>6. UnsentIsNowhere'
  BY <1>0, <1>1, <1>3 DEF MailInv, UnsentIsNowhere
<1>7. SentIsSomewhere'
  BY <1>0, <1>1, <1>3 DEF MailInv, SentIsSomewhere
<1> QED BY <1>4, <1>5, <1>6, <1>7 DEF MailInv

(* ... or among the parked ones. *)
LEMMA MailParked ==
  ASSUME TypeOK, MailInv, NEW m \in Msgs, DeliverUnroutable(m)
  PROVE  MailInv'
<1>0. /\ m \in unsent /\ unsent' = unsent \ {m} /\ unsent \subseteq Msgs
      /\ parked' = parked \cup {m} /\ UNCHANGED <<turn, history, queue, arrivals>>
  BY DEF DeliverUnroutable, TypeOK, threadVars
<1>1. \A u \in Tasks, x \in Msgs :
        (Carries(u, x)' <=> Carries(u, x)) /\ (WentDown(u, x)' <=> WentDown(u, x))
  BY <1>0 DEF Carries, WentDown
<1>2. ThreadIsApart' /\ CarriedAlone'
  BY <1>0, <1>1 DEF MailInv, ThreadIsApart, CarriedAlone
<1>3. UnsentIsNowhere'
  BY <1>0, <1>1 DEF MailInv, UnsentIsNowhere
<1>4. SentIsSomewhere'
  BY <1>0, <1>1 DEF MailInv, SentIsSomewhere
<1> QED BY <1>2, <1>3, <1>4 DEF MailInv

(* A release hands the oldest queued message to a drain turn. *)
LEMMA MailReleased ==
  ASSUME TypeOK, MailInv, NEW force \in BOOLEAN, ForceIdle(force)
  PROVE  MailInv'
<1> USE DEF mailVars
<1>1. CASE TurnAlive \/ queue = <<>> \/ ~cached
  <2>1. UNCHANGED <<turn, history, queue, unsent, arrivals, parked>>
    BY <1>1 DEF ForceIdle
  <2> QED BY <2>1, MailKept DEF Carries, WentDown, TypeOK
<1>2. CASE ~(TurnAlive \/ queue = <<>> \/ ~cached)
  <2>0. UNCHANGED <<history, unsent, arrivals, parked>>
    BY DEF ForceIdle
  <2> DEFINE m == Head(queue)
  <2>1. PICK t \in Tasks :
          /\ Fresh(t)
          /\ turn' = [turn EXCEPT ![t] = NewTurn("drain", "created", m, None)]
          /\ queue' = Tail(queue)
    BY <1>2 DEF ForceIdle
  <2>2. /\ m \in Msgs /\ queue' \in Seq(Msgs)
        /\ Range(queue) = {m} \cup Range(queue')
    BY <1>2, <2>1, RangeHeadTail DEF TypeOK
  <2>3. IsInjective(queue') /\ m \notin Range(queue')
    BY <1>2, <2>1, InjectiveTail DEF TypeOK, MailInv, ThreadIsApart
  <2> HIDE DEF m
  <2>4. \A u \in Tasks, x \in Msgs :
          /\ Carries(u, x)' <=> (IF u = t THEN m = x ELSE Carries(u, x))
          /\ WentDown(u, x) => WentDown(u, x)'
          /\ Carries(u, x) => u # t
    <3>1. Fresh(t) /\ turn' = [turn EXCEPT ![t] = NewTurn("drain", "created", m, None)]
      BY <2>1 DEF m
    <3> QED BY ONLY TypeOK, t \in Tasks, <3>1, NewCarries
  <2>5. \A u \in Tasks : ~Carries(u, m)
    BY <2>2 DEF MailInv, CarriedAlone
  <2>6. ThreadIsApart'
    BY <2>0, <2>2, <2>3 DEF MailInv, ThreadIsApart
  <2>7. CarriedAlone'
    BY <2>0, <2>2, <2>3, <2>4, <2>5 DEF MailInv, CarriedAlone, ThreadIsApart
  <2>8. UnsentIsNowhere'
    BY <2>0, <2>2, <2>4 DEF MailInv, UnsentIsNowhere, TypeOK
  <2>9. SentIsSomewhere'
    BY <2>0, <2>2, <2>4 DEF MailInv, SentIsSomewhere
  <2> QED BY <2>6, <2>7, <2>8, <2>9 DEF MailInv
<1> QED BY <1>1, <1>2

(* Every action keeps the mail's invariant. *)
LEMMA MailStep ==
  ASSUME TypeOK, BackgroundCarries, MailInv, [Next]_vars
  PROVE  MailInv'
<1> USE DEF threadVars, mailVars
<1>0. unsent \subseteq Msgs
  BY DEF TypeOK
<1>1. CASE UNCHANGED <<turn, history, queue, unsent, arrivals, parked>>
  BY <1>0, <1>1, MailKept DEF Carries, WentDown
<1>2. ASSUME NEW s \in Sockets, NEW t \in Tasks, RetryFrame(s, t) PROVE MailInv'
  <2>1. \A u \in Tasks, x \in Msgs :
          /\ Carries(u, x)' <=> Carries(u, x)
          /\ WentDown(u, x) => WentDown(u, x)'
    BY <1>2, NewCarries, TurnsAssumption DEF RetryFrame, ClaimTurn
  <2> QED BY <1>0, <1>2, <2>1, MailKept DEF RetryFrame, ClaimTurn
<1>3. ASSUME NEW s \in Sockets, NEW t \in Tasks, NEW m \in Msgs, UserMessage(s, t, m)
      PROVE  MailInv'
  BY <1>3, MailSentToTurn DEF UserMessage, ClaimTurn
<1>4. ASSUME NEW t \in Tasks, StartSocketTurn(t) \/ StartDrainTurn(t) PROVE MailInv'
  BY <1>4, MailOpens DEF StartSocketTurn, StartDrainTurn
<1>5. ASSUME NEW t \in Tasks, InjectSteering(t) PROVE MailInv'
  BY <1>5, MailInjected
<1>6. ASSUME NEW t \in Tasks, NEW p \in Phases \ {"created"}, Enter(t, p),
             UNCHANGED <<history, queue, unsent, arrivals>>,
             turn[t].phase # "created" \/ p \in {"cancelled", "crashed"}
                \/ turn[t].msg = None,
             parked \subseteq parked',
             turn[t].phase \in {"cancelled", "crashed"} => turn[t].msg \in parked'
      PROVE  MailInv'
  <2>1. \A u \in Tasks, x \in Msgs :
          /\ Carries(u, x)' => Carries(u, x)
          /\ Carries(u, x) => Carries(u, x)' \/ WentDown(u, x)'
          /\ WentDown(u, x) => WentDown(u, x)' \/ x \in parked'
    <3> SUFFICES ASSUME NEW u \in Tasks, NEW x \in Msgs
                 PROVE  /\ Carries(u, x)' => Carries(u, x)
                        /\ Carries(u, x) => Carries(u, x)' \/ WentDown(u, x)'
                        /\ WentDown(u, x) => WentDown(u, x)' \/ x \in parked'
      OBVIOUS
    <3>1. CASE u = t
      BY <1>6, <3>1, EnterCarries, TurnsAssumption DEF Carries, WentDown
    <3>2. CASE u # t
      BY <1>6, <3>2, EnterCarries
    <3> QED BY <3>1, <3>2
  <2> QED BY <1>0, <1>6, <2>1, MailKept
<1>7. ASSUME NEW t \in Tasks, EndSocketTurn(t) PROVE MailInv'
  BY <1>6, <1>7 DEF EndSocketTurn, Phases
<1>8. ASSUME NEW t \in Tasks, EndBackgroundTurn(t) PROVE MailInv'
  BY <1>6, <1>8 DEF EndBackgroundTurn, Phases
<1>9. ASSUME NEW t \in Tasks, EndResume(t) PROVE MailInv'
  BY <1>6, <1>9 DEF EndResume, Phases
<1>10. ASSUME NEW t \in Tasks, CloseTurn(t) PROVE MailInv'
  BY <1>6, <1>10 DEF CloseTurn, Phases
<1>11. ASSUME NEW t \in Tasks, DrainFinished(t) PROVE MailInv'
  BY <1>6, <1>11 DEF DrainFinished, Phases
<1>12. ASSUME NEW t \in Tasks, NEW how \in Ways, FinishStream(t, how) PROVE MailInv'
  <2>1. parked \subseteq parked'
    BY <1>12 DEF FinishStream
  <2> QED BY <1>6, <1>12, <2>1 DEF FinishStream, Phases
<1>13. ASSUME NEW t \in Tasks, CancelSocketTurn(t) PROVE MailInv'
  BY <1>6, <1>13 DEF CancelSocketTurn, Phases
<1>14. ASSUME NEW t \in Tasks, CrashDrainTurn(t) PROVE MailInv'
  BY <1>6, <1>14 DEF CrashDrainTurn, Phases
<1>15. ASSUME NEW m \in Msgs, DeliverBusy(m) \/ DeliverUnroutable(m) PROVE MailInv'
  BY <1>15, MailQueued, MailParked
<1>16. ASSUME NEW m \in Msgs, NEW t \in Tasks, DeliverIdle(m, t) PROVE MailInv'
  BY <1>16, MailDelivered
<1>17. ASSUME NEW t \in Tasks, Resume(t) PROVE MailInv'
  <2>1. \A u \in Tasks, x \in Msgs :
          /\ Carries(u, x)' <=> Carries(u, x)
          /\ WentDown(u, x) => WentDown(u, x)'
    BY <1>17, NewCarries DEF Resume
  <2> QED BY <1>0, <1>17, <2>1, MailKept DEF Resume
<1>18. ASSUME NEW force \in BOOLEAN, ForceIdle(force) PROVE MailInv'
  BY <1>18, MailReleased
<1> QED
  BY <1>1, <1>2, <1>3, <1>4, <1>5, <1>7, <1>8, <1>9, <1>10, <1>11, <1>12, <1>13,
     <1>14, <1>15, <1>16, <1>17, <1>18
     DEF Next, TurnStep, vars, Connect, Interrupt, Disconnect, Backstop

(* What was counted as a place. *)
LEMMA OccursOnce ==
  ASSUME NEW S, NEW s \in Seq(S), IsInjective(s), NEW m
  PROVE  Occurrences(m, s) = IF m \in Range(s) THEN 1 ELSE 0
<1> DEFINE P == {i \in DOMAIN s : s[i] = m}
<1>1. CASE m \in Range(s)
  <2>1. PICK i \in DOMAIN s : s[i] = m
    BY <1>1 DEF Range
  <2>2. P = {i}
    BY <2>1 DEF IsInjective
  <2> QED BY <1>1, <2>2, FS_Singleton DEF Occurrences
<1>2. CASE m \notin Range(s)
  <2>1. P = {}
    BY <1>2 DEF Range
  <2> QED BY <1>2, <2>1, FS_EmptySet DEF Occurrences
<1> QED BY <1>1, <1>2

LEMMA MailIsPlaced ==
  ASSUME TypeOK, MailInv PROVE MessageInOnePlace
<1> SUFFICES ASSUME NEW m \in Msgs \ unsent
             PROVE LET carried == {t \in Tasks : turn[t].msg = m /\ turn[t].phase = "created"}
                       places  == Occurrences(m, history) + Occurrences(m, queue)
                                    + Cardinality(carried)
                       dead    == \E t \in Tasks : /\ turn[t].msg = m
                                    /\ turn[t].phase \in {"cancelled", "crashed"}
                   IN \/ places = 1
                      \/ places = 0 /\ (m \in parked \/ dead)
  BY DEF MessageInOnePlace
<1> DEFINE carried == {t \in Tasks : turn[t].msg = m /\ turn[t].phase = "created"}
<1>1. /\ Occurrences(m, history) = IF m \in Range(history) THEN 1 ELSE 0
      /\ Occurrences(m, queue) = IF m \in Range(queue) THEN 1 ELSE 0
  BY OccursOnce DEF TypeOK, MailInv, ThreadIsApart
<1>2. ~(m \in Range(history) /\ m \in Range(queue))
  BY DEF MailInv, ThreadIsApart
<1>3. CASE \E t \in Tasks : Carries(t, m)
  <2>1. PICK t \in Tasks : Carries(t, m)
    BY <1>3
  <2>2. carried = {t} /\ m \notin Range(history) \cup Range(queue)
    BY <2>1 DEF MailInv, CarriedAlone, Carries
  <2>3. Cardinality(carried) = 1
    BY <2>2, FS_Singleton
  <2> QED BY <1>1, <2>2, <2>3
<1>4. CASE \A t \in Tasks : ~Carries(t, m)
  <2>1. carried = {}
    BY <1>4 DEF Carries
  <2>2. Cardinality(carried) = 0
    BY <2>1, FS_EmptySet
  <2>3. CASE m \in Range(history) \cup Range(queue)
    BY <1>1, <1>2, <2>2, <2>3
  <2>4. CASE m \notin Range(history) \cup Range(queue)
    <3>1. m \in parked \/ \E t \in Tasks : WentDown(t, m)
      BY <1>4, <2>4 DEF MailInv, SentIsSomewhere
    <3> QED BY <1>1, <2>2, <2>4, <3>1 DEF WentDown
  <2> QED BY <2>3, <2>4
<1> QED BY <1>3, <1>4

LEMMA MailInductive == Spec => []MailInv
<1>1. Init => MailInv
  <2> SUFFICES ASSUME Init PROVE MailInv
    OBVIOUS
  <2>1. history = <<>> /\ queue = <<>> /\ arrivals = <<>> /\ unsent = Msgs
        /\ \A t \in Tasks : turn[t].phase = "unused"
    BY DEF Init, NoTurn, NewTurn
  <2> QED
    BY <2>1, RangeEmpty, InjectiveEmpty DEF MailInv, ThreadIsApart, CarriedAlone, Carries,
       UnsentIsNowhere, SentIsSomewhere
<1>2. IInv /\ MailInv /\ [Next]_vars => MailInv'
  BY MailStep DEF IInv
<1> QED
  BY <1>1, <1>2, Inductive, PTL DEF Spec

(* Every message sent is in exactly one place. *)
THEOREM OnePlace == Spec => []MessageInOnePlace
<1>1. IInv /\ MailInv => MessageInOnePlace
  BY MailIsPlaced DEF IInv
<1> QED
  BY <1>1, Inductive, MailInductive, PTL

-----------------------------------------------------------------------------
(* The order of the queued messages. *)

(* A sequence keeps the order of arrival a; one group comes before another. *)
Ordered(s, a) ==
  \A i, j \in DOMAIN s, p, q \in DOMAIN a : i < j /\ s[i] = a[p] /\ s[j] = a[q] => p < q
Ahead(S, T, a) ==
  \A p, q \in DOMAIN a : a[p] \in S /\ a[q] \in T => p < q

Line == history \o DrainHead \o queue

(* What a user typed was not in the queue. *)
TypedIsNotQueued ==
  \A t \in Tasks : turn[t].kind = "socket" /\ turn[t].phase = "created" =>
                      turn[t].msg \notin Range(arrivals)

(* A sequence in two halves. *)
LEMMA OrderedHalves ==
  ASSUME NEW S, NEW s \in Seq(S), NEW r \in Seq(S), NEW a
  PROVE  Ordered(s \o r, a) <=>
           Ordered(s, a) /\ Ordered(r, a) /\ Ahead(Range(s), Range(r), a)
<1>1. /\ s \o r \in Seq(S) /\ Len(s \o r) = Len(s) + Len(r)
      /\ \A i \in 1..Len(s) : (s \o r)[i] = s[i] /\ i \in DOMAIN (s \o r)
      /\ \A i \in 1..Len(r) : (s \o r)[Len(s) + i] = r[i] /\ Len(s) + i \in DOMAIN (s \o r)
      /\ DOMAIN s = 1..Len(s) /\ DOMAIN r = 1..Len(r)
      /\ \A i \in DOMAIN (s \o r) : i \in 1..Len(s) \/ i - Len(s) \in 1..Len(r)
  BY ConcatProperties
<1> DEFINE u == s \o r
<1> HIDE DEF u
<1>2. ASSUME Ordered(u, a)
      PROVE  Ordered(s, a) /\ Ordered(r, a) /\ Ahead(Range(s), Range(r), a)
  <2>1. Ordered(s, a)
    BY <1>1, <1>2 DEF Ordered, u
  <2>2. Ordered(r, a)
    <3> SUFFICES ASSUME NEW i \in DOMAIN r, NEW j \in DOMAIN r,
                        NEW p \in DOMAIN a, NEW q \in DOMAIN a,
                        i < j, r[i] = a[p], r[j] = a[q]
                 PROVE  p < q
      BY DEF Ordered
    <3>1. Len(s) + i < Len(s) + j
      OBVIOUS
    <3> QED BY <1>1, <1>2, <3>1 DEF Ordered, u
  <2>3. Ahead(Range(s), Range(r), a)
    <3> SUFFICES ASSUME NEW i \in DOMAIN s, NEW j \in DOMAIN r,
                        NEW p \in DOMAIN a, NEW q \in DOMAIN a, s[i] = a[p], r[j] = a[q]
                 PROVE  p < q
      BY DEF Ahead, Range
    <3>1. i < Len(s) + j
      OBVIOUS
    <3> QED BY <1>1, <1>2, <3>1 DEF Ordered, u
  <2> QED BY <2>1, <2>2, <2>3
<1>3. ASSUME Ordered(s, a), Ordered(r, a), Ahead(Range(s), Range(r), a)
      PROVE  Ordered(u, a)
  <2> SUFFICES ASSUME NEW i \in DOMAIN u, NEW j \in DOMAIN u,
                      NEW p \in DOMAIN a, NEW q \in DOMAIN a,
                      i < j, u[i] = a[p], u[j] = a[q]
               PROVE  p < q
    BY DEF Ordered
  <2>0. i \in Nat /\ j \in Nat /\ Len(s) \in Nat
    BY <1>1 DEF u
  <2>1. CASE i \in 1..Len(s) /\ j \in 1..Len(s)
    BY <1>1, <1>3, <2>1 DEF Ordered, u
  <2>2. CASE i \in 1..Len(s) /\ j - Len(s) \in 1..Len(r)
    <3>1. u[i] \in Range(s) /\ u[j] \in Range(r)
      <4>1. u[i] = s[i] /\ i \in DOMAIN s
        BY <1>1, <2>2 DEF u
      <4>2. u[j] = r[j - Len(s)] /\ j - Len(s) \in DOMAIN r
        <5>1. j = Len(s) + (j - Len(s))
          BY <2>0
        <5> QED BY <1>1, <2>2, <5>1 DEF u
      <4> QED BY <4>1, <4>2 DEF Range
    <3> QED BY <1>3, <3>1 DEF Ahead
  <2>3. CASE i - Len(s) \in 1..Len(r) /\ j - Len(s) \in 1..Len(r)
    <3>1. i = Len(s) + (i - Len(s)) /\ j = Len(s) + (j - Len(s)) /\ i - Len(s) < j - Len(s)
      BY <2>0
    <3>2. u[i] = r[i - Len(s)] /\ u[j] = r[j - Len(s)]
      BY <1>1, <2>3, <3>1 DEF u
    <3>3. i - Len(s) \in DOMAIN r /\ j - Len(s) \in DOMAIN r
      BY <1>1, <2>3
    <3>4. \A k, l \in DOMAIN r, x, y \in DOMAIN a :
            k < l /\ r[k] = a[x] /\ r[l] = a[y] => x < y
      BY <1>3 DEF Ordered
    <3>5. r[i - Len(s)] = a[p] /\ r[j - Len(s)] = a[q]
      BY <3>2
    <3> HIDE DEF u
    <3> QED BY <3>1, <3>3, <3>4, <3>5
  <2>4. CASE i - Len(s) \in 1..Len(r) /\ j \in 1..Len(s)
    BY <2>0, <2>4
  <2> QED BY <1>1, <2>1, <2>2, <2>3, <2>4 DEF u
<1> QED BY <1>2, <1>3 DEF u

(* A message that never was in the queue stands anywhere. *)
LEMMA OrderedInsert ==
  ASSUME NEW s \in Seq(Msgs), NEW r \in Seq(Msgs), NEW a, NEW m \in Msgs,
         m \notin Range(a), Ordered(s \o r, a)
  PROVE  Ordered(Append(s, m) \o r, a)
<1>1. Append(s, m) \in Seq(Msgs) /\ Range(Append(s, m)) = Range(s) \cup {m}
      /\ Append(s, m) = s \o <<m>> /\ <<m>> \in Seq(Msgs)
  BY RangeAppend, AppendIsConcat, AppendProperties
<1>2. Ordered(s, a) /\ Ordered(r, a) /\ Ahead(Range(s), Range(r), a)
  BY OrderedHalves
<1>3. Ordered(<<m>>, a) /\ Ahead(Range(s), Range(<<m>>), a)
  BY DEF Ordered, Ahead, Range
<1>4. Ordered(Append(s, m), a)
  BY <1>1, <1>2, <1>3, OrderedHalves
<1>5. Ahead(Range(Append(s, m)), Range(r), a)
  BY <1>1, <1>2 DEF Ahead, Range
<1> QED BY <1>1, <1>2, <1>4, <1>5, OrderedHalves

(* The message that joins the queue is the last to arrive. *)
LEMMA OrderedArrival ==
  ASSUME NEW s \in Seq(Msgs), NEW a \in Seq(Msgs), NEW m \in Msgs,
         m \notin Range(s), m \notin Range(a), Ordered(s, a)
  PROVE  Ordered(Append(s, m), Append(a, m))
<1> DEFINE b == Append(a, m)
           u == Append(s, m)
<1>1. /\ DOMAIN u = 1..(Len(s) + 1) /\ u[Len(s) + 1] = m /\ Len(s) \in Nat
      /\ \A i \in 1..Len(s) : u[i] = s[i] /\ u[i] # m
  BY AppendProperties DEF Range
<1>2. /\ DOMAIN b = 1..(Len(a) + 1) /\ b[Len(a) + 1] = m /\ Len(a) \in Nat
      /\ \A i \in 1..Len(a) : b[i] = a[i] /\ b[i] # m
  BY AppendProperties DEF Range
<1> HIDE DEF b, u
<1> SUFFICES ASSUME NEW i \in DOMAIN u, NEW j \in DOMAIN u,
                    NEW p \in DOMAIN b, NEW q \in DOMAIN b,
                    i < j, u[i] = b[p], u[j] = b[q]
             PROVE  p < q
  BY DEF Ordered, u, b
<1>3. i \in 1..Len(s) /\ p \in 1..Len(a)
  BY <1>1, <1>2
<1>4. CASE j = Len(s) + 1
  BY <1>1, <1>2, <1>3, <1>4
<1>5. CASE j # Len(s) + 1
  <2>1. j \in 1..Len(s) /\ q \in 1..Len(a)
    BY <1>1, <1>2, <1>5
  <2>2. s[i] = a[p] /\ s[j] = a[q] /\ i \in DOMAIN s /\ j \in DOMAIN s
        /\ p \in DOMAIN a /\ q \in DOMAIN a
    BY <1>1, <1>2, <1>3, <2>1
  <2> QED BY <2>2 DEF Ordered
<1> QED BY <1>4, <1>5

LEMMA OrderIs == QueuedKeepOrder <=> (~usurped => Ordered(Line, arrivals))
  BY DEF QueuedKeepOrder, Ordered, Line

(* While no live claim was cleared, one turn is live at most. *)
LEMMA OneIsLive ==
  ASSUME IInv, ~usurped, NEW t \in Tasks, Live(t), NEW u \in Tasks, Live(u)
  PROVE  u = t
  BY DEF IInv, FlagInv, FlagIsOwned

LEMMA IdleHasNoLive ==
  ASSUME IInv, ~usurped, ~running, NEW t \in Tasks
  PROVE  ~Live(t)
  BY NoneIsNoTask DEF IInv, FlagInv, FlagIsOwned

(* The message of a waiting drain turn, if there is one. *)
LEMMA DrainHeadIs ==
  ASSUME NEW t \in Tasks, Draining(t), \A u \in Tasks : Draining(u) => u = t
  PROVE  DrainHead = <<turn[t].msg>>
  BY DEF DrainHead

LEMMA NoDrainHead ==
  ASSUME \A u \in Tasks : ~Draining(u) PROVE DrainHead = <<>>
  BY DEF DrainHead

(* A live turn that is no waiting drain leaves none. *)
LEMMA OtherIsLive ==
  ASSUME IInv, ~usurped, NEW t \in Tasks, Live(t), ~Draining(t)
  PROVE  DrainHead = <<>>
<1>1. \A u \in Tasks : Draining(u) => Live(u)
  BY DEF Draining, Live
<1> QED BY <1>1, OneIsLive, NoDrainHead

LEMMA NobodyIsLive ==
  ASSUME \A u \in Tasks : ~Live(u) PROVE DrainHead = <<>>
<1>1. \A u \in Tasks : Draining(u) => Live(u)
  BY DEF Draining, Live
<1> QED BY <1>1, NoDrainHead

LEMMA DrainHeadType ==
  ASSUME IInv PROVE DrainHead \in Seq(Msgs)
<1>1. CASE \E t \in Tasks : Draining(t)
  <2> DEFINE t == CHOOSE t \in Tasks : Draining(t)
  <2>1. t \in Tasks /\ Draining(t)
    BY <1>1
  <2>2. turn[t].msg \in Msgs
    BY <2>1 DEF IInv, BackgroundCarries, Background, Draining
  <2> QED BY <1>1, <2>2 DEF DrainHead
<1>2. CASE ~ \E t \in Tasks : Draining(t)
  BY <1>2 DEF DrainHead
<1> QED BY <1>1, <1>2

(* The same waiting drains have the same message. *)
LEMMA SameDrainHead ==
  ASSUME IInv, ~usurped,
         \A u \in Tasks : /\ Draining(u)' <=> Draining(u)
                          /\ Draining(u) => turn'[u].msg = turn[u].msg
  PROVE  DrainHead' = DrainHead
<1>1. CASE \E t \in Tasks : Draining(t)
  <2>1. PICK t \in Tasks : Draining(t)
    BY <1>1
  <2>2. \A u \in Tasks : Draining(u) => u = t
    <3>1. \A u \in Tasks : Draining(u) => Live(u)
      BY DEF Draining, Live
    <3> QED BY <2>1, <3>1, OneIsLive
  <2>3. DrainHead = <<turn[t].msg>>
    BY <2>1, <2>2, DrainHeadIs
  <2>4. DrainHead' = <<turn'[t].msg>>
    <3>1. Draining(t)' /\ \A u \in Tasks : Draining(u)' => u = t
      BY <2>1, <2>2
    <3> QED BY <3>1 DEF DrainHead
  <2> QED BY <2>1, <2>3, <2>4
<1>2. CASE \A t \in Tasks : ~Draining(t)
  <2>1. DrainHead = <<>>
    BY <1>2, NoDrainHead
  <2>2. DrainHead' = <<>>
    BY <1>2 DEF DrainHead
  <2> QED BY <2>1, <2>2
<1> QED BY <1>1, <1>2

(* The types of the line's pieces. *)
LEMMA LineTypes ==
  ASSUME IInv
  PROVE  /\ history \in Seq(Msgs) /\ DrainHead \in Seq(Msgs) /\ queue \in Seq(Msgs)
         /\ history \o DrainHead \in Seq(Msgs) /\ Line \in Seq(Msgs)
         /\ Range(Line) = Range(history) \cup Range(DrainHead) \cup Range(queue)
<1>1. history \in Seq(Msgs) /\ DrainHead \in Seq(Msgs) /\ queue \in Seq(Msgs)
  BY DrainHeadType DEF IInv, TypeOK
<1>2. history \o DrainHead \in Seq(Msgs)
      /\ Range(history \o DrainHead) = Range(history) \cup Range(DrainHead)
  BY <1>1, RangeConcatenation
<1>3. Line \in Seq(Msgs) /\ Range(Line) = Range(history \o DrainHead) \cup Range(queue)
  <2> DEFINE front == history \o DrainHead
  <2>1. front \in Seq(Msgs) /\ Line = front \o queue
    BY <1>2 DEF Line
  <2> HIDE DEF front
  <2>2. Line \in Seq(Msgs) /\ Range(Line) = Range(front) \cup Range(queue)
    BY <1>1, <2>1, ConcatProperties, RangeConcatenation
  <2> QED BY <2>2 DEF front
<1> QED BY <1>1, <1>2, <1>3

(* A step that leaves the line, or drops the head of a drain. *)
LEMMA LineKept ==
  ASSUME IInv, QueuedKeepOrder, ~usurped, UNCHANGED arrivals,
         Line' = Line \/ (DrainHead' = <<>> /\ UNCHANGED <<history, queue>>)
  PROVE  Ordered(Line, arrivals)'
<1>1. Ordered(Line, arrivals)
  BY OrderIs
<1>2. CASE Line' = Line
  BY <1>1, <1>2
<1>3. CASE DrainHead' = <<>> /\ UNCHANGED <<history, queue>>
  <2>1. Ordered(history \o DrainHead, arrivals) /\ Ordered(queue, arrivals)
        /\ Ahead(Range(history \o DrainHead), Range(queue), arrivals)
    BY <1>1, LineTypes, OrderedHalves DEF Line
  <2>2. Ordered(history, arrivals) /\ Range(history \o DrainHead) = Range(history) \cup Range(DrainHead)
    BY <2>1, LineTypes, OrderedHalves, RangeConcatenation
  <2>3. Ahead(Range(history), Range(queue), arrivals)
    BY <2>1, <2>2 DEF Ahead
  <2>4. Ordered(history \o queue, arrivals)
    BY <2>1, <2>2, <2>3, LineTypes, OrderedHalves
  <2>5. Line' = history \o queue
    <3>1. history \o <<>> = history
      BY LineTypes, ConcatEmptySeq
    <3> QED BY <1>3, <3>1 DEF Line
  <2> QED BY <2>4, <2>5
<1> QED BY <1>2, <1>3

(* A message that was never queued joins the thread. *)
LEMMA LineInserted ==
  ASSUME IInv, QueuedKeepOrder, ~usurped, NEW m \in Msgs, m \notin Range(arrivals),
         DrainHead = <<>>, DrainHead' = <<>>, UNCHANGED <<queue, arrivals>>,
         history' = Append(history, m)
  PROVE  Ordered(Line, arrivals)'
<1>1. Line = history \o queue /\ Line' = Append(history, m) \o queue
  <2>1. history \o <<>> = history /\ Append(history, m) \o <<>> = Append(history, m)
    BY LineTypes, AppendProperties, ConcatEmptySeq
  <2> QED BY <2>1 DEF Line
<1> QED BY <1>1, LineTypes, OrderIs, OrderedInsert

OrderInv == TypedIsNotQueued /\ QueuedKeepOrder

(* What becomes of the waiting drains when a turn enters a phase. *)
LEMMA EnterDraining ==
  ASSUME TypeOK, NEW t \in Tasks, NEW p \in Phases, Enter(t, p), ~Draining(t), p # "created",
         NEW u \in Tasks
  PROVE  /\ Draining(u)' <=> Draining(u)
         /\ Draining(u) => turn'[u].msg = turn[u].msg
  BY DEF TypeOK, Enter, TurnRecord, Draining

LEMMA NewDraining ==
  ASSUME TypeOK, NEW t \in Tasks, Fresh(t), NEW k \in {"socket", "inbound", "resume"},
         NEW p, NEW m, NEW s,
         turn' = [turn EXCEPT ![t] = NewTurn(k, p, m, s)], NEW u \in Tasks
  PROVE  /\ Draining(u)' <=> Draining(u)
         /\ Draining(u) => turn'[u].msg = turn[u].msg
<1>1. turn[t].phase = "unused"
  BY FreshIsUnused
<1> QED
  BY <1>1 DEF TypeOK, NewTurn, TurnRecord, Draining

(* Every action keeps the line in order. *)
LEMMA LineStep ==
  ASSUME IInv, MailInv, OrderInv, [Next]_vars, ~usurped'
  PROVE  Ordered(Line, arrivals)'
<1> USE DEF threadVars, mailVars
<1>0. ~usurped /\ TypeOK /\ QueuedKeepOrder
  BY UsurpedForGood DEF IInv, OrderInv
<1>1. CASE UNCHANGED <<turn, history, queue, arrivals>>
  BY <1>0, <1>1, LineKept DEF Line, DrainHead, Draining
<1>2. ASSUME UNCHANGED <<history, queue, arrivals>>, NEW t \in Tasks, NEW p \in Phases,
             p # "created", ~Draining(t), Enter(t, p)
      PROVE  Ordered(Line, arrivals)'
  <2>1. DrainHead' = DrainHead
    BY <1>0, <1>2, EnterDraining, SameDrainHead
  <2> QED BY <1>0, <1>2, <2>1, LineKept DEF Line
<1>3. ASSUME UNCHANGED <<history, queue, arrivals>>, NEW t \in Tasks, Fresh(t),
             NEW k \in {"socket", "inbound", "resume"}, NEW p, NEW m, NEW s,
             turn' = [turn EXCEPT ![t] = NewTurn(k, p, m, s)]
      PROVE  Ordered(Line, arrivals)'
  <2>1. DrainHead' = DrainHead
    BY <1>0, <1>3, NewDraining, SameDrainHead
  <2> QED BY <1>0, <1>3, <2>1, LineKept DEF Line
<1>4. ASSUME NEW s \in Sockets, NEW t \in Tasks,
             RetryFrame(s, t) \/ \E m \in Msgs : UserMessage(s, t, m)
      PROVE  Ordered(Line, arrivals)'
  BY <1>3, <1>4 DEF RetryFrame, UserMessage, ClaimTurn
<1>5. ASSUME NEW t \in Tasks, Resume(t) PROVE Ordered(Line, arrivals)'
  BY <1>3, <1>5 DEF Resume
<1>6. ASSUME NEW t \in Tasks, EndSocketTurn(t) PROVE Ordered(Line, arrivals)'
  BY <1>2, <1>6 DEF EndSocketTurn, Draining, Phases
<1>7. ASSUME NEW t \in Tasks, EndBackgroundTurn(t) \/ EndResume(t) \/ CloseTurn(t)
      PROVE  Ordered(Line, arrivals)'
  BY <1>2, <1>7 DEF EndBackgroundTurn, EndResume, CloseTurn, Draining, Phases
<1>8. ASSUME NEW t \in Tasks, DrainFinished(t) PROVE Ordered(Line, arrivals)'
  BY <1>2, <1>8 DEF DrainFinished, Draining, Phases
<1>9. ASSUME NEW t \in Tasks, NEW how \in Ways, FinishStream(t, how)
      PROVE  Ordered(Line, arrivals)'
  BY <1>2, <1>9 DEF FinishStream, Draining, Phases
<1>10. ASSUME NEW t \in Tasks, CancelSocketTurn(t) PROVE Ordered(Line, arrivals)'
  BY <1>2, <1>10 DEF CancelSocketTurn, Draining, Phases
<1>11. ASSUME NEW t \in Tasks, CrashDrainTurn(t) PROVE Ordered(Line, arrivals)'
  <2>1. Live(t) /\ \A u \in Tasks : Draining(u) => Live(u)
    BY <1>11 DEF CrashDrainTurn, Draining, Live
  <2>2. \A u \in Tasks : ~Draining(u)'
    <3>1. \A u \in Tasks \ {t} : ~Draining(u)
      BY <1>0, <2>1, OneIsLive
    <3> QED BY <1>0, <1>11, <3>1 DEF CrashDrainTurn, Enter, Draining, TypeOK, TurnRecord
  <2>3. DrainHead' = <<>>
    BY <2>2 DEF DrainHead
  <2> QED BY <1>0, <1>11, <2>3, LineKept DEF CrashDrainTurn
<1>12. ASSUME NEW t \in Tasks, StartSocketTurn(t) PROVE Ordered(Line, arrivals)'
  <2>1. Live(t) /\ ~Draining(t)
    BY <1>12 DEF StartSocketTurn, Draining, Live
  <2>2. DrainHead = <<>>
    BY <1>0, <2>1, OtherIsLive
  <2>3. DrainHead' = DrainHead
    BY <1>0, <1>12, <2>1, EnterDraining, SameDrainHead DEF StartSocketTurn, Phases
  <2>4. CASE turn[t].msg = None
    BY <1>0, <1>12, <2>3, <2>4, LineKept DEF StartSocketTurn, OpenRun, Line
  <2>5. CASE turn[t].msg # None
    <3>1. turn[t].msg \in Msgs /\ turn[t].msg \notin Range(arrivals)
      BY <1>0, <1>12, <2>5 DEF StartSocketTurn, OrderInv, TypedIsNotQueued, TypeOK, TurnRecord
    <3> QED BY <1>0, <1>12, <2>2, <2>3, <2>5, <3>1, LineInserted DEF StartSocketTurn, OpenRun
  <2> QED BY <2>4, <2>5
<1>13. ASSUME NEW t \in Tasks, StartDrainTurn(t) PROVE Ordered(Line, arrivals)'
  <2>1. Draining(t) /\ Live(t) /\ \A u \in Tasks : Draining(u) => Live(u)
    BY <1>13 DEF StartDrainTurn, Draining, Live
  <2>2. DrainHead = <<turn[t].msg>>
    BY <1>0, <2>1, OneIsLive, DrainHeadIs
  <2>3. \A u \in Tasks : ~Draining(u)'
    <3>1. \A u \in Tasks \ {t} : ~Draining(u)
      BY <1>0, <2>1, OneIsLive
    <3> QED BY <1>0, <1>13, <3>1 DEF StartDrainTurn, Enter, Draining, TypeOK, TurnRecord
  <2>4. DrainHead' = <<>>
    BY <2>3 DEF DrainHead
  <2>5. turn[t].msg \in Msgs /\ turn[t].msg # None
    BY <2>1, TurnsAssumption DEF IInv, BackgroundCarries, Background, Draining
  <2>6. history' = Append(history, turn[t].msg) /\ queue' = queue /\ arrivals' = arrivals
    BY <1>13, <2>5 DEF StartDrainTurn, OpenRun
  <2>7. Line' = Line
    <3>1. Append(history, turn[t].msg) = history \o <<turn[t].msg>>
      BY <2>5, LineTypes, AppendIsConcat
    <3>2. Append(history, turn[t].msg) \o <<>> = Append(history, turn[t].msg)
      BY <2>5, LineTypes, AppendProperties, ConcatEmptySeq
    <3> QED BY <2>2, <2>4, <2>6, <3>1, <3>2 DEF Line
  <2> QED BY <1>0, <2>6, <2>7, LineKept
<1>14. ASSUME NEW t \in Tasks, InjectSteering(t) PROVE Ordered(Line, arrivals)'
  <2>1. Live(t) /\ ~Draining(t)
    BY <1>14 DEF InjectSteering, Draining, Live
  <2>2. DrainHead = <<>> /\ DrainHead' = DrainHead
    BY <1>0, <1>14, <2>1, OtherIsLive DEF InjectSteering, DrainHead, Draining
  <2>3. Line' = Line
    <3>1. history \o <<>> = history /\ (history \o queue) \o <<>> = history \o queue
          /\ history \o queue \in Seq(Msgs)
      BY LineTypes, ConcatProperties, ConcatEmptySeq
    <3> QED BY <1>14, <2>2, <3>1 DEF Line, InjectSteering
  <2> QED BY <1>0, <1>14, <2>3, LineKept DEF InjectSteering
<1>15. ASSUME NEW m \in Msgs, NEW t \in Tasks, DeliverIdle(m, t) PROVE Ordered(Line, arrivals)'
  <2>1. m \in unsent /\ m # None /\ m \notin Range(arrivals)
    BY <1>15, TurnsAssumption DEF DeliverIdle, MailInv, UnsentIsNowhere
  <2>2. DrainHead = <<>>
    BY <1>0, <1>15, IdleHasNoLive, NobodyIsLive DEF DeliverIdle, Claim
  <2>3. DrainHead' = DrainHead
    BY <1>0, <1>15, NewDraining, SameDrainHead DEF DeliverIdle
  <2> QED BY <1>0, <1>15, <2>1, <2>2, <2>3, LineInserted DEF DeliverIdle, OpenRun
<1>16. ASSUME NEW m \in Msgs, DeliverBusy(m) PROVE Ordered(Line, arrivals)'
  <2>1. m \in unsent /\ arrivals \in Seq(Msgs)
    BY <1>0, <1>16 DEF DeliverBusy, TypeOK
  <2>2. m \notin Range(history) \cup Range(queue) \cup Range(arrivals)
        /\ \A t \in Tasks : ~Carries(t, m)
    BY <2>1 DEF MailInv, UnsentIsNowhere
  <2>3. m \notin Range(DrainHead)
    <3>1. CASE \E t \in Tasks : Draining(t)
      <4> DEFINE t == CHOOSE t \in Tasks : Draining(t)
      <4>1. t \in Tasks /\ Draining(t)
        BY <3>1
      <4>2. turn[t].msg # m
        BY <2>2, <4>1 DEF Carries, Draining
      <4> HIDE DEF t
      <4>3. DrainHead = <<turn[t].msg>>
        BY <3>1 DEF DrainHead, t
      <4> QED BY <4>2, <4>3 DEF Range
    <3>2. CASE \A t \in Tasks : ~Draining(t)
      BY <3>2, NoDrainHead, RangeEmpty
    <3> QED BY <3>1, <3>2
  <2>4. DrainHead' = DrainHead
    BY <1>16 DEF DeliverBusy, DrainHead, Draining
  <2>5. Line' = Append(Line, m)
    <3>1. (history \o DrainHead) \o Append(queue, m) = Append((history \o DrainHead) \o queue, m)
      BY LineTypes, AppendProperties, ConcatProperties
    <3> QED BY <1>16, <2>4, <3>1 DEF DeliverBusy, Line
  <2>6. Ordered(Line, arrivals) /\ m \notin Range(Line)
    BY <1>0, <2>2, <2>3, LineTypes, OrderIs
  <2>7. Ordered(Append(Line, m), Append(arrivals, m))
    BY <2>1, <2>2, <2>6, LineTypes, OrderedArrival
  <2> QED BY <1>16, <2>5, <2>7 DEF DeliverBusy
<1>17. ASSUME NEW m \in Msgs, DeliverUnroutable(m) PROVE Ordered(Line, arrivals)'
  BY <1>1, <1>17 DEF DeliverUnroutable
<1>18. ASSUME NEW force \in BOOLEAN, ForceIdle(force) PROVE Ordered(Line, arrivals)'
  <2>1. CASE TurnAlive \/ queue = <<>> \/ ~cached
    BY <1>1, <1>18, <2>1 DEF ForceIdle
  <2>2. CASE ~(TurnAlive \/ queue = <<>> \/ ~cached)
    <3>1. PICK t \in Tasks :
            /\ Fresh(t)
            /\ owner' = t /\ running' = TRUE
            /\ usurped' = Usurps(None)
            /\ turn' = [turn EXCEPT ![t] = NewTurn("drain", "created", Head(queue), None)]
            /\ queue' = Tail(queue)
      BY <1>18, <2>2 DEF ForceIdle
    <3>2. \A u \in Tasks : ~Live(u)
      BY <1>0, <3>1, NoneIsNoTask DEF Usurps, IInv, FlagInv, FlagIsOwned
    <3>3. DrainHead = <<>>
      BY <3>2, NobodyIsLive
    <3>4. DrainHead' = <<Head(queue)>>
      <4>1. /\ turn'[t].kind = "drain" /\ turn'[t].phase = "created" /\ turn'[t].msg = Head(queue)
            /\ \A u \in Tasks \ {t} : turn'[u] = turn[u]
        BY <1>0, <3>1 DEF TypeOK, NewTurn
      <4>2. Draining(t)' /\ \A u \in Tasks : Draining(u)' => u = t
        BY <3>2, <4>1 DEF Draining, Live
      <4> QED BY <4>1, <4>2 DEF DrainHead
    <3>5. Line' = Line
      <4>1. queue = <<Head(queue)>> \o Tail(queue) /\ <<Head(queue)>> \in Seq(Msgs)
            /\ Tail(queue) \in Seq(Msgs)
        BY <1>0, <2>2, HeadTailProperties DEF TypeOK
      <4>2. history \o <<>> = history
        BY LineTypes, ConcatEmptySeq
      <4>3. (history \o <<Head(queue)>>) \o Tail(queue) = history \o (<<Head(queue)>> \o Tail(queue))
        BY <4>1, LineTypes, ConcatAssociative
      <4>4. history' = history
        BY <1>18 DEF ForceIdle
      <4> QED BY <3>1, <3>3, <3>4, <4>1, <4>2, <4>3, <4>4 DEF Line
    <3> QED BY <1>0, <1>18, <3>5, LineKept DEF ForceIdle
  <2> QED BY <2>1, <2>2
<1> QED
  BY <1>1, <1>4, <1>5, <1>6, <1>7, <1>8, <1>9, <1>10, <1>11, <1>12, <1>13, <1>14,
     <1>15, <1>16, <1>17, <1>18
     DEF Next, TurnStep, vars, Connect, Interrupt, Disconnect, Backstop

(* What a user typed stays apart from what was queued. *)
LEMMA TypedStep ==
  ASSUME IInv, MailInv, TypedIsNotQueued, [Next]_vars
  PROVE  TypedIsNotQueued'
<1> USE DEF threadVars, mailVars
<1> DEFINE Typed(t) == turn[t].kind = "socket" /\ turn[t].phase = "created"
<1>0. TypeOK
  BY DEF IInv
<1>1. ASSUME UNCHANGED arrivals,
             \A t \in Tasks : Typed(t)' => Typed(t) /\ turn'[t].msg = turn[t].msg
      PROVE  TypedIsNotQueued'
  BY <1>1 DEF TypedIsNotQueued
<1>2. ASSUME NEW t \in Tasks, NEW p \in Phases, Enter(t, p), p # "created", UNCHANGED arrivals
      PROVE  TypedIsNotQueued'
  BY <1>0, <1>1, <1>2 DEF TypeOK, Enter, TurnRecord
<1>3. ASSUME NEW t \in Tasks, Fresh(t), NEW k, NEW p, NEW m, NEW s, UNCHANGED arrivals,
             turn' = [turn EXCEPT ![t] = NewTurn(k, p, m, s)],
             k = "socket" /\ p = "created" => m \notin Range(arrivals)
      PROVE  TypedIsNotQueued'
  BY <1>0, <1>3 DEF TypeOK, NewTurn, TypedIsNotQueued
<1>4. ASSUME NEW m \in Msgs, DeliverBusy(m) PROVE TypedIsNotQueued'
  <2>1. m \in unsent /\ Range(arrivals') = Range(arrivals) \cup {m} /\ turn' = turn
    BY <1>0, <1>4, RangeAppend DEF DeliverBusy, TypeOK
  <2>2. \A t \in Tasks : ~Carries(t, m)
    BY <2>1 DEF MailInv, UnsentIsNowhere
  <2> QED BY <2>1, <2>2 DEF TypedIsNotQueued, Carries
<1>5. ASSUME NEW s \in Sockets, NEW t \in Tasks,
             RetryFrame(s, t) \/ \E m \in Msgs : UserMessage(s, t, m)
      PROVE  TypedIsNotQueued'
  <2>1. None \notin Range(arrivals)
    BY <1>0, TurnsAssumption DEF TypeOK, Range
  <2>2. \A m \in unsent : m \notin Range(arrivals)
    BY DEF MailInv, UnsentIsNowhere
  <2> QED BY <1>3, <1>5, <2>1, <2>2 DEF RetryFrame, UserMessage, ClaimTurn
<1>6. ASSUME NEW m \in Msgs, NEW t \in Tasks, DeliverIdle(m, t) PROVE TypedIsNotQueued'
  BY <1>3, <1>6 DEF DeliverIdle
<1>7. ASSUME NEW t \in Tasks, Resume(t) PROVE TypedIsNotQueued'
  BY <1>3, <1>7 DEF Resume
<1>8. ASSUME NEW force \in BOOLEAN, ForceIdle(force) PROVE TypedIsNotQueued'
  <2>1. CASE UNCHANGED turn
    BY <1>1, <1>8, <2>1 DEF ForceIdle
  <2>2. CASE ~UNCHANGED turn
    <3>1. PICK t \in Tasks :
            /\ Fresh(t)
            /\ turn' = [turn EXCEPT ![t] = NewTurn("drain", "created", Head(queue), None)]
      BY <1>8, <2>2 DEF ForceIdle
    <3> QED BY <1>3, <1>8, <3>1 DEF ForceIdle
  <2> QED BY <2>1, <2>2
<1>9. CASE UNCHANGED <<turn, arrivals>>
  BY <1>1, <1>9
<1>10. ASSUME NEW t \in Tasks, StartSocketTurn(t) \/ StartDrainTurn(t) \/ EndSocketTurn(t)
                \/ EndBackgroundTurn(t) \/ EndResume(t) \/ CloseTurn(t) \/ DrainFinished(t)
       PROVE  TypedIsNotQueued'
  BY <1>2, <1>10 DEF StartSocketTurn, StartDrainTurn, EndSocketTurn, EndBackgroundTurn,
     EndResume, CloseTurn, DrainFinished, Phases
<1>11. ASSUME NEW t \in Tasks, NEW how \in Ways, FinishStream(t, how) PROVE TypedIsNotQueued'
  BY <1>2, <1>11 DEF FinishStream, Phases
<1>12. ASSUME NEW t \in Tasks, CancelSocketTurn(t) \/ CrashDrainTurn(t) PROVE TypedIsNotQueued'
  BY <1>2, <1>12 DEF CancelSocketTurn, CrashDrainTurn, Phases
<1> QED
  BY <1>4, <1>5, <1>6, <1>7, <1>8, <1>9, <1>10, <1>11, <1>12
     DEF Next, TurnStep, vars, Connect, Interrupt, Disconnect, Backstop, InjectSteering,
         DeliverUnroutable

(* Messages that were queued reach the thread in the order they arrived.   *)
THEOREM QueueKeepsOrder == Spec => []QueuedKeepOrder
<1>1. Init => OrderInv
  <2> SUFFICES ASSUME Init PROVE OrderInv
    OBVIOUS
  <2>1. arrivals = <<>> /\ \A t \in Tasks : turn[t].phase = "unused"
    BY DEF Init, NoTurn, NewTurn
  <2>2. QueuedKeepOrder
    BY <2>1 DEF QueuedKeepOrder
  <2> QED BY <2>1, <2>2 DEF OrderInv, TypedIsNotQueued
<1>2. IInv /\ MailInv /\ OrderInv /\ [Next]_vars => OrderInv'
  <2> SUFFICES ASSUME IInv, MailInv, OrderInv, [Next]_vars PROVE OrderInv'
    OBVIOUS
  <2>1. TypedIsNotQueued'
    BY TypedStep DEF OrderInv
  <2>2. QueuedKeepOrder'
    BY LineStep, OrderIs DEF QueuedKeepOrder, Ordered, Line
  <2> QED BY <2>1, <2>2 DEF OrderInv
<1>3. OrderInv => QueuedKeepOrder
  BY DEF OrderInv
<1> QED
  BY <1>1, <1>2, <1>3, Inductive, MailInductive, PTL DEF Spec

=============================================================================
