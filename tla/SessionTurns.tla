---------------------------- MODULE SessionTurns ----------------------------
(***************************************************************************)
(* Who may run a session's engine, and what becomes of the messages that   *)
(* reach a session somebody else is already running.                       *)
(*                                                                         *)
(* One session is modelled: the running flag, the task binding, the engine *)
(* and its steering queue are all keyed by the session id, so sessions do  *)
(* not meet here.  Its drivers are                                         *)
(*   - the GUI sockets viewing it (server/app.py, ws_session),             *)
(*   - out-of-band deliveries: chat messages, self-wakes, subscriptions    *)
(*     (server/manager.py, deliver_to_session),                            *)
(*   - the durable resume after a restart (manager._durable_resume),       *)
(*   - the operator's release of a stuck flag (manager.force_idle).        *)
(* Everything runs on one asyncio loop: an action is the code between two  *)
(* awaits.  TurnEngine's own steps are summarised by the three that touch  *)
(* the shared state: start, inject the queue, finish (see Prompts).       *)
(***************************************************************************)
EXTENDS Naturals, Sequences, FiniteSets, SequencesExt

CONSTANTS
  Msgs,        (* message texts; each one is sent once                     *)
  Sockets,     (* GUI sockets that may view the session                    *)
  MaxTurns,    (* bound: turn tasks ever created                           *)
  MaxFaults,   (* bound: tasks the loop kills before their first step      *)
  None         (* no task, no message, no socket                           *)

Tasks == 1..MaxTurns

ASSUME TurnsAssumption ==
  /\ MaxTurns \in Nat
  /\ MaxFaults \in Nat
  /\ None \notin Tasks \cup Msgs \cup Sockets

VARIABLES
  running,   (* session_id \in manager._running_sessions                   *)
  bound,     (* manager._turn_tasks[session_id]                            *)
  turn,      (* the asyncio tasks driving a turn                           *)
  queue,     (* engine._steering                                           *)
  history,   (* user messages in engine.messages, oldest first             *)
  tail,      (* how the thread ends: an error notice, an open prompt       *)
  cancel,    (* engine._cancel                                             *)
  cached,    (* an engine is in manager._engines                           *)
  parked,    (* messages in manager.unrouted, the dead-letter store        *)
  unsent,    (* messages nobody has sent yet                               *)
  sock,      (* per socket: connection state and the turn_task dict        *)
  hooks,     (* tasks carrying a disconnect done-callback, not yet run     *)
  faults,    (* faults so far                                              *)
  owner,     (* history: the task whose claim set the flag                 *)
  usurped,   (* history: a live claim was cleared by somebody else         *)
  arrivals   (* history: the messages queued, in order of arrival          *)

flagVars == <<running, bound, owner, usurped>>
threadVars == <<queue, history, tail, cancel>>
mailVars == <<parked, unsent, arrivals>>
sockVars == <<sock, hooks>>
vars == <<flagVars, turn, threadVars, cached, mailVars, sockVars, faults>>

-----------------------------------------------------------------------------
(* Turn tasks. *)

Kinds == {"socket", "inbound", "drain", "resume"}
Phases == {"unused", "created", "streaming", "ending", "closing",
           "done", "cancelled", "crashed"}

NewTurn(k, p, m, s) == [kind |-> k, phase |-> p, msg |-> m, sock |-> s]
NoTurn == NewTurn("socket", "unused", None, None)

(* A turn between its claim of the flag and its own mark_idle. *)
Live(t) == turn[t].phase \in {"created", "streaming", "ending"}
(* An engine run in progress on the session's one engine. *)
OnEngine(t) == turn[t].phase \in {"streaming", "ending"}
(* task.done() *)
Finished(t) == turn[t].phase \in {"done", "cancelled", "crashed"}

(* Tasks are used in order; which id a task gets is immaterial. *)
Fresh(t) == \A u \in Tasks : turn[u].phase = "unused" <=> u >= t

Enter(t, p) == turn' = [turn EXCEPT ![t].phase = p]

(***************************************************************************)
(* The running flag.                                                       *)
(***************************************************************************)

(* Mutant of TurnAlive: the binding alone, task.done() forgotten. *)
TurnBound == bound # None

(* manager.turn_alive *)
TurnAlive == bound # None /\ ~Finished(bound)

(* mark_running: claims whatever the flag says. *)
MarkRunning(t) ==
  /\ running' = TRUE
  /\ owner' = t
  /\ UNCHANGED usurped

(* try_mark_running by the turn t: only an idle session is claimed. *)
Claim(t) ==
  /\ ~running
  /\ running' = TRUE
  /\ owner' = t
  /\ UNCHANGED usurped

(* _forget_turn_task: only the bound task itself or a finished one drops   *)
(* the binding.                                                            *)
BoundAfterIdle(current) ==
  IF bound = None \/ bound = current \/ ~TurnAlive THEN None ELSE bound

Usurps(current) == usurped \/ (owner \notin {None, current} /\ Live(owner))

(* mark_idle, run by the task `current` (None: by no turn of this session) *)
MarkIdle(current) ==
  /\ running' = FALSE
  /\ owner' = None
  /\ bound' = BoundAfterIdle(current)
  /\ usurped' = Usurps(current)

-----------------------------------------------------------------------------
(* Sockets. *)

(* A socket opens the session; get_engine builds and caches the engine. *)
Connect(s) ==
  /\ sock[s].state = "new"
  /\ sock' = [sock EXCEPT ![s].state = "open"]
  /\ cached' = TRUE
  /\ UNCHANGED <<flagVars, turn, threadVars, mailVars, hooks, faults>>

(* claim_turn: claim the flag, schedule run_turn, bind it, in one step.    *)
(* A busy session rejects the frame and nothing changes.                   *)
ClaimTurn(s, t, m) ==
  /\ sock[s].state = "open"
  /\ Fresh(t)
  /\ Claim(t)
  /\ bound' = t
  /\ turn' = [turn EXCEPT ![t] = NewTurn("socket", "created", m, s)]
  /\ sock' = [sock EXCEPT ![s] = [@ EXCEPT !.task = t, !.released = FALSE]]
  /\ UNCHANGED <<threadVars, cached, parked, arrivals, hooks, faults>>

UserMessage(s, t, m) ==
  /\ m \in unsent
  /\ ClaimTurn(s, t, m)
  /\ unsent' = unsent \ {m}

RetryFrame(s, t) ==
  /\ ClaimTurn(s, t, None)
  /\ UNCHANGED unsent

Interrupt(s) ==
  /\ sock[s].state = "open"
  /\ ~cancel
  /\ cancel' = TRUE
  /\ UNCHANGED <<flagVars, turn, queue, history, tail, cached, mailVars,
                 sockVars, faults>>

(* The socket closes.  A turn of it that is not over keeps going, with a   *)
(* done-callback as the backstop for its claim.                            *)
Disconnect(s) ==
  /\ sock[s].state = "open"
  /\ sock' = [sock EXCEPT ![s].state = "closed"]
  /\ hooks' = IF sock[s].task # None /\ ~Finished(sock[s].task)
              THEN hooks \cup {sock[s].task} ELSE hooks
  /\ UNCHANGED <<flagVars, turn, threadVars, cached, mailVars, faults>>

(* Mutant of Backstop: the callback does not look at `released`. *)
BackstopBlindly(t) ==
  /\ t \in hooks
  /\ Finished(t)
  /\ hooks' = hooks \ {t}
  /\ MarkIdle(None)
  /\ UNCHANGED <<turn, threadVars, cached, mailVars, sock, faults>>

(* The callback: release, unless run_turn's finally already did.           *)
Backstop(t) ==
  /\ t \in hooks
  /\ Finished(t)
  /\ hooks' = hooks \ {t}
  /\ IF sock[turn[t].sock].released THEN UNCHANGED flagVars ELSE MarkIdle(None)
  /\ UNCHANGED <<turn, threadVars, cached, mailVars, sock, faults>>

-----------------------------------------------------------------------------
(* Turns on the engine. *)

(* TurnEngine.run's first step: the message joins the thread and an old    *)
(* Stop is forgotten.                                                      *)
OpenRun(m) ==
  /\ history' = IF m = None THEN history ELSE Append(history, m)
  /\ tail' = "other"
  /\ cancel' = FALSE

(* run_turn starts; a retry needs an error notice at the tail. *)
StartSocketTurn(t) ==
  /\ turn[t].kind = "socket"
  /\ turn[t].phase = "created"
  /\ turn[t].msg # None \/ tail = "error"
  /\ Enter(t, "streaming")
  /\ OpenRun(turn[t].msg)
  /\ UNCHANGED <<flagVars, queue, cached, mailVars, sockVars, faults>>

(* A drain turn starts with the backlog's oldest message. *)
StartDrainTurn(t) ==
  /\ turn[t].kind = "drain"
  /\ turn[t].phase = "created"
  /\ Enter(t, "streaming")
  /\ bound' = t
  /\ OpenRun(turn[t].msg)
  /\ UNCHANGED <<running, owner, usurped, queue, cached, mailVars, sockVars,
                 faults>>

(* Between two model calls the whole queue joins the thread, in order.     *)
InjectSteering(t) ==
  /\ turn[t].phase = "streaming"
  /\ queue # <<>>
  /\ history' = history \o queue
  /\ queue' = <<>>
  /\ tail' = "other"
  /\ UNCHANGED <<flagVars, turn, cancel, cached, mailVars, sockVars, faults>>

(* Mutant of Background: a durable resume parks its message too. *)
NotFromSocket(t) == turn[t].kind # "socket"

(* A turn run by deliver_to_session. *)
Background(t) == turn[t].kind \in {"inbound", "drain"}

(* The engine's last event, whose broadcast is awaited with the flag still *)
(* held.  "completed" and "unparsed" come after a reply without tool calls *)
(* and an empty queue; the other ends do not look at the queue.  A         *)
(* background turn that errs or raises parks its message.                  *)
FinishStream(t, how) ==
  /\ turn[t].phase = "streaming"
  /\ how \in {"completed", "unparsed"} => queue = <<>>
  /\ how = "interrupted" => cancel
  /\ Enter(t, "ending")
  /\ tail' = IF how \in {"error", "unparsed"} THEN "error" ELSE "other"
  /\ parked' = IF Background(t) /\ how \in {"error", "unparsed", "raised"}
               THEN parked \cup {turn[t].msg} ELSE parked
  /\ UNCHANGED <<flagVars, queue, history, cancel, cached, unsent, arrivals,
                 sockVars, faults>>

Ways == {"completed", "unparsed", "error", "interrupted", "max", "raised"}

(* run_turn's finally: released first, then mark_idle; the turn_done       *)
(* broadcast is still to come.  A retry with nothing to retry ends here.   *)
EndSocketTurn(t) ==
  /\ turn[t].kind = "socket"
  /\ \/ turn[t].phase = "ending"
     \/ turn[t].phase = "created" /\ turn[t].msg = None /\ tail # "error"
  /\ Enter(t, "closing")
  /\ sock' = [sock EXCEPT ![turn[t].sock].released = TRUE]
  /\ MarkIdle(t)
  /\ UNCHANGED <<threadVars, cached, mailVars, hooks, faults>>

(* deliver_to_session's finally. *)
EndBackgroundTurn(t) ==
  /\ Background(t)
  /\ turn[t].phase = "ending"
  /\ Enter(t, "closing")
  /\ MarkIdle(t)
  /\ UNCHANGED <<threadVars, cached, mailVars, sockVars, faults>>

(* The turn_done broadcast is over and the task with it. *)
CloseTurn(t) ==
  /\ turn[t].phase = "closing"
  /\ Enter(t, "done")
  /\ UNCHANGED <<flagVars, threadVars, cached, mailVars, sockVars, faults>>

-----------------------------------------------------------------------------
(* Out-of-band deliveries. *)

(* deliver_to_session on an idle session: claim, bind, run. *)
DeliverIdle(m, t) ==
  /\ m \in unsent
  /\ Fresh(t)
  /\ Claim(t)
  /\ bound' = t
  /\ turn' = [turn EXCEPT ![t] = NewTurn("inbound", "streaming", m, None)]
  /\ OpenRun(m)
  /\ cached' = TRUE
  /\ unsent' = unsent \ {m}
  /\ UNCHANGED <<queue, parked, arrivals, sockVars, faults>>

(* Mutant of DeliverBusy: push_steering_front in place of queue_steering. *)
DeliverBusyInFront(m) ==
  /\ m \in unsent
  /\ running
  /\ queue' = <<m>> \o queue
  /\ arrivals' = Append(arrivals, m)
  /\ cached' = TRUE
  /\ unsent' = unsent \ {m}
  /\ UNCHANGED <<flagVars, turn, history, tail, cancel, parked, sockVars,
                 faults>>

(* ... on a busy one: steer the message into the live turn. *)
DeliverBusy(m) ==
  /\ m \in unsent
  /\ running
  /\ queue' = Append(queue, m)
  /\ arrivals' = Append(arrivals, m)
  /\ cached' = TRUE
  /\ unsent' = unsent \ {m}
  /\ UNCHANGED <<flagVars, turn, history, tail, cancel, parked, sockVars,
                 faults>>

(* ... and when no engine can be built: park it. *)
DeliverUnroutable(m) ==
  /\ m \in unsent
  /\ ~cached
  /\ parked' = parked \cup {m}
  /\ unsent' = unsent \ {m}
  /\ UNCHANGED <<flagVars, turn, threadVars, cached, arrivals, sockVars,
                 faults>>

-----------------------------------------------------------------------------
(* Durable resume. *)

(* An Inbox answer reaches an idle session whose thread ends in an open    *)
(* prompt: mark_running and engine.resume.  The turn is never bound.       *)
Resume(t) ==
  /\ ~running
  /\ tail = "prompt"
  /\ Fresh(t)
  /\ MarkRunning(t)
  /\ turn' = [turn EXCEPT ![t] = NewTurn("resume", "streaming", None, None)]
  /\ tail' = "other"
  /\ cancel' = FALSE
  /\ cached' = TRUE
  /\ UNCHANGED <<bound, queue, history, mailVars, sockVars, faults>>

EndResume(t) ==
  /\ turn[t].kind = "resume"
  /\ turn[t].phase = "ending"
  /\ Enter(t, "done")
  /\ MarkIdle(t)
  /\ UNCHANGED <<threadVars, cached, mailVars, sockVars, faults>>

-----------------------------------------------------------------------------
(* The operator's release, and faults. *)

(* force_idle, with its drain: the flag is cleared, and if no bound turn   *)
(* is alive the oldest queued message claims it back for a turn of its own *)
(* before anything else can run.                                           *)
ForceIdle(force) ==
  /\ TurnAlive => force
  /\ IF TurnAlive \/ queue = <<>> \/ ~cached
     THEN MarkIdle(None) /\ UNCHANGED <<turn, queue>>
     ELSE \E t \in Tasks :
            /\ Fresh(t)
            /\ running' = TRUE
            /\ owner' = t
            /\ bound' = t
            /\ usurped' = Usurps(None)
            /\ turn' = [turn EXCEPT ![t] =
                          NewTurn("drain", "created", Head(queue), None)]
            /\ queue' = Tail(queue)
  /\ UNCHANGED <<history, tail, cancel, cached, mailVars, sockVars, faults>>

(* A socket turn cancelled before its first step: its finally never runs.  *)
CancelSocketTurn(t) ==
  /\ faults < MaxFaults
  /\ turn[t].kind = "socket"
  /\ turn[t].phase = "created"
  /\ Enter(t, "cancelled")
  /\ faults' = faults + 1
  /\ UNCHANGED <<flagVars, threadVars, cached, mailVars, sockVars>>

(* A drain turn that raises before its own cleanup is in place. *)
CrashDrainTurn(t) ==
  /\ faults < MaxFaults
  /\ turn[t].kind = "drain"
  /\ turn[t].phase = "created"
  /\ Enter(t, "crashed")
  /\ faults' = faults + 1
  /\ UNCHANGED <<flagVars, threadVars, cached, mailVars, sockVars>>

(* Mutants of DrainFinished: the message is not parked; the flag is kept.  *)
DrainFinishedSilently(t) ==
  /\ turn[t].kind = "drain"
  /\ turn[t].phase = "crashed"
  /\ Enter(t, "done")
  /\ IF bound = t THEN MarkIdle(None) ELSE UNCHANGED flagVars
  /\ UNCHANGED <<threadVars, cached, mailVars, sockVars, faults>>

DrainFinishedHoldingFlag(t) ==
  /\ turn[t].kind = "drain"
  /\ turn[t].phase = "crashed"
  /\ Enter(t, "done")
  /\ parked' = parked \cup {turn[t].msg}
  /\ UNCHANGED <<flagVars, threadVars, cached, unsent, arrivals, sockVars,
                 faults>>

(* _drain_finished: park the message, and give the flag back if the        *)
(* binding is still this task.                                             *)
DrainFinished(t) ==
  /\ turn[t].kind = "drain"
  /\ turn[t].phase = "crashed"
  /\ Enter(t, "done")
  /\ parked' = parked \cup {turn[t].msg}
  /\ IF bound = t THEN MarkIdle(None) ELSE UNCHANGED flagVars
  /\ UNCHANGED <<threadVars, cached, unsent, arrivals, sockVars, faults>>

-----------------------------------------------------------------------------

(* A fresh process: nothing is running, and the thread on disk may end in  *)
(* the prompt the last process was blocked on.                             *)
Init ==
  /\ running = FALSE
  /\ bound = None
  /\ turn = [t \in Tasks |-> NoTurn]
  /\ queue = <<>>
  /\ history = <<>>
  /\ tail \in {"other", "prompt"}
  /\ cancel = FALSE
  /\ cached = FALSE
  /\ parked = {}
  /\ unsent = Msgs
  /\ sock = [s \in Sockets |-> [state |-> "new", task |-> None,
                                released |-> FALSE]]
  /\ hooks = {}
  /\ faults = 0
  /\ owner = None
  /\ usurped = FALSE
  /\ arrivals = <<>>

TurnStep(t) ==
  \/ StartSocketTurn(t)
  \/ StartDrainTurn(t)
  \/ InjectSteering(t)
  \/ EndSocketTurn(t)
  \/ EndBackgroundTurn(t)
  \/ EndResume(t)
  \/ CloseTurn(t)
  \/ Backstop(t)
  \/ DrainFinished(t)

Next ==
  \/ \E s \in Sockets : Connect(s) \/ Interrupt(s) \/ Disconnect(s)
  \/ \E s \in Sockets, t \in Tasks :
       RetryFrame(s, t) \/ \E m \in Msgs : UserMessage(s, t, m)
  \/ \E t \in Tasks : TurnStep(t)
  \/ \E t \in Tasks, how \in Ways : FinishStream(t, how)
  \/ \E m \in Msgs : DeliverBusy(m) \/ DeliverUnroutable(m)
  \/ \E m \in Msgs, t \in Tasks : DeliverIdle(m, t)
  \/ \E t \in Tasks : Resume(t) \/ CancelSocketTurn(t) \/ CrashDrainTurn(t)
  \/ \E force \in BOOLEAN : ForceIdle(force)

Spec == Init /\ [][Next]_vars

(***************************************************************************)
(* Fairness: the loop runs every ready task and callback, and an engine    *)
(* run ends (max_iterations caps its rounds; a model call ends or errs; a  *)
(* blocked prompt is answered or stopped).  People's actions are not fair. *)
(***************************************************************************)
FairSpec ==
  /\ Spec
  /\ \A t \in Tasks : /\ WF_vars(TurnStep(t))
                      /\ WF_vars(\E how \in Ways : FinishStream(t, how))

-----------------------------------------------------------------------------
(* Properties. *)

TurnRecord == [kind : Kinds, phase : Phases, msg : Msgs \cup {None},
               sock : Sockets \cup {None}]
SockRecord == [state : {"new", "open", "closed"}, task : Tasks \cup {None},
               released : BOOLEAN]

(* The values each variable ranges over. *)
TypeOK ==
  /\ running \in BOOLEAN
  /\ bound \in Tasks \cup {None}
  /\ turn \in [Tasks -> TurnRecord]
  /\ queue \in Seq(Msgs)
  /\ history \in Seq(Msgs)
  /\ tail \in {"other", "error", "prompt"}
  /\ cancel \in BOOLEAN
  /\ cached \in BOOLEAN
  /\ parked \subseteq Msgs
  /\ unsent \subseteq Msgs
  /\ sock \in [Sockets -> SockRecord]
  /\ hooks \subseteq Tasks
  /\ faults \in 0..MaxFaults
  /\ owner \in Tasks \cup {None}
  /\ usurped \in BOOLEAN
  /\ arrivals \in Seq(Msgs)

(* The engine has no lock: unless a live claim was cleared from outside,   *)
(* no two turns are ever on the session's engine at once, whatever sockets,*)
(* deliveries, resumes and drains do.                                      *)
OneRunAtATime ==
  ~usurped => \A t, u \in Tasks : OnEngine(t) /\ OnEngine(u) => t = u

(* A flag nobody alive will clear is never shielded by the binding: a      *)
(* plain force_idle frees it (histories with a forced release apart).      *)
StuckFlagIsReleasable ==
  ~usurped /\ running /\ ~Live(owner) => ~TurnAlive

Occurrences(m, s) == Cardinality({i \in DOMAIN s : s[i] = m})

(* Every message sent is in exactly one place: the thread, the queue or    *)
(* the hands of a turn about to start; or it was parked, or went down with *)
(* a task the loop killed.                                                 *)
MessageInOnePlace ==
  \A m \in Msgs \ unsent :
    LET carried == {t \in Tasks : turn[t].msg = m /\ turn[t].phase = "created"}
        places  == Occurrences(m, history) + Occurrences(m, queue)
                     + Cardinality(carried)
        dead    == \E t \in Tasks : /\ turn[t].msg = m
                                    /\ turn[t].phase \in {"cancelled", "crashed"}
    IN \/ places = 1
       \/ places = 0 /\ (m \in parked \/ dead)

(* The message a drain has in hand (one drain at most, while nobody's claim *)
(* was cleared).                                                           *)
Draining(t) == turn[t].kind = "drain" /\ turn[t].phase = "created"
DrainHead ==
  IF \E t \in Tasks : Draining(t)
  THEN <<turn[CHOOSE t \in Tasks : Draining(t)].msg>> ELSE <<>>

(* Messages that were queued reach the thread in the order they arrived,   *)
(* through injections, releases and drains.                                *)
QueuedKeepOrder ==
  ~usurped =>
    LET line == history \o DrainHead \o queue
    IN \A i, j \in DOMAIN line, p, q \in DOMAIN arrivals :
         i < j /\ line[i] = arrivals[p] /\ line[j] = arrivals[q] => p < q

(* Only three things clear the claim of a turn that is still live: a       *)
(* release that says force, any release under a durable resume (which is   *)
(* never bound), and the backstop of a socket turn that was cancelled.     *)
OnlyKnownUsurpers ==
  [][ ~usurped /\ usurped' =>
        \/ TurnAlive /\ ForceIdle(TRUE)
        \/ turn[owner].kind = "resume"
        \/ \E t \in hooks \ hooks' : turn[t].phase = "cancelled" ]_vars

(* A claim is given back: the flag stays set for ever only for a socket    *)
(* turn cancelled before its first step while its socket was open.         *)
ClaimsAreReturned ==
  running ~> \/ ~running
             \/ owner # None /\ turn[owner].phase = "cancelled" /\ owner \notin hooks

(* The session as seen from its engine: the run on it, if there is one. *)
Holder ==
  IF \E t \in Tasks : OnEngine(t) THEN CHOOSE t \in Tasks : OnEngine(t) ELSE None

Lock == INSTANCE TurnLock WITH
  Runs <- Tasks, Idle <- None,
  holder <- Holder, broken <- usurped, thread <- history

(* All of the session's drivers together implement the lock: the engine    *)
(* goes from run to run through a free state, and only the run on it adds  *)
(* to the thread, which never shrinks or changes.                          *)
ImplementsLock == Lock!Spec

(* What the documentation says and the code does not do. *)

(* force_idle: "A live turn is refused unless `force` is set."  A durable  *)
(* resume is a live turn no binding stands for, so a plain release clears  *)
(* the flag under it and the next message starts a second run.             *)
ReleaseRefusesLiveTurn ==
  [][ForceIdle(FALSE) => ~(owner # None /\ Live(owner))]_vars

(* deliver_to_session steers a message for a busy session "into the live   *)
(* turn at its next step": so no message should be left in the queue of an *)
(* idle session, where only another run or a release will find it (a       *)
(* forced release aside: the turn under it still injects the queue).       *)
NothingStranded == ~running /\ ~usurped => queue = <<>>

=============================================================================
