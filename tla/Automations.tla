---------------------------- MODULE Automations ----------------------------
(***************************************************************************)
(* The scheduler (automation/scheduler.py), the record of one automation   *)
(* in the TaskStore (automation/store.py), the requests that edit it       *)
(* (server/manager.py, automation/tools.py) and the self-wakes the same    *)
(* tick resumes (selfwake.py).                                             *)
(*                                                                         *)
(* Scheduler, runs and wakes share the event loop; requests, and the store *)
(* calls of a finished run, run on threads.  The store locks each call, so *)
(* an edit is two steps: get a copy, save the edited copy.  Automations    *)
(* meet only in the order of a tick's spawns, so one is modelled.          *)
(***************************************************************************)
EXTENDS Naturals, Sequences, FiniteSets, SequencesExt

CONSTANTS
  Slots,       (* times the cron schedule names; also a one-shot's fire_at *)
  MaxTime,     (* bound: the clock                                         *)
  Cap,         (* max_runs, or None                                        *)
  MaxJobs,     (* bound: run_task coroutines at a time                     *)
  Requests,    (* threads serving requests                                 *)
  MaxEdits,    (* bound: requests that get a copy to edit it               *)
  Timers,      (* self-wakes on a timer                                    *)
  JobWakes,    (* self-wakes on a background job                           *)
  WakeAt,      (* when the timers fire                                     *)
  MaxCrashes,  (* bound: process deaths                                    *)
  None         (* no time, no record, no cap                               *)

Jobs == 1..MaxJobs
Wakes == Timers \cup JobWakes
Times == Slots \cup {None}
Record == [enabled : BOOLEAN, kind : {"once", "cron"}, next : Times,
           count : Nat, attempted : BOOLEAN, granted : BOOLEAN]

ASSUME AutomationsAssumption ==
  /\ Slots \subseteq Nat /\ Slots # {}
  /\ {MaxTime, MaxJobs, MaxEdits, WakeAt, MaxCrashes} \subseteq Nat
  /\ Cap \in Nat \cup {None}
  /\ None \notin Nat /\ None \notin Record /\ None \notin Requests
  /\ Timers \cap JobWakes = {} /\ IsFiniteSet(Wakes)

VARIABLES
  clock,      (* now                                                       *)
  row,        (* the task's row in scheduled_tasks, None when deleted      *)
  manual,     (* the run history's row of a manual run                     *)
  guard,      (* task.id \in scheduler._running_ids                        *)
  jobs,       (* run_task coroutines                                       *)
  reqs,       (* requests between their get and their save                 *)
  edits,      (* such requests so far                                      *)
  wakes,      (* WakeStore: the state of each wake (saved at once)         *)
  waking,     (* wakes this tick still has to resume; the first is at it   *)
  exited,     (* background jobs that have ended                           *)
  crashes,    (* deaths so far                                             *)
  fired,      (* history: the firings that started a run                   *)
  oks,        (* history: runs that ended well                             *)
  delivered,  (* history: how often each wake was delivered                *)
  revoked,    (* history: the last decision on the grant took it back      *)
  deleted,    (* history: the task was deleted                             *)
  lost        (* history: a save overwrote one it had not seen             *)

wakeVars == <<wakes, waking, exited, delivered>>
consentVars == <<revoked, deleted>>
vars == <<clock, row, manual, guard, jobs, reqs, edits, wakeVars, crashes,
          fired, oks, consentVars, lost>>

-----------------------------------------------------------------------------
(* The record. *)

(* Mutant of ComputeNext: a one-shot is over only when a run succeeded. *)
ComputeNextRetrying(rec) ==
  LET later == {s \in Slots : s > clock}
  IN IF \/ rec.kind = "once" /\ rec.count > 0
        \/ rec.kind = "cron" /\ (later = {} \/ (Cap # None /\ rec.count >= Cap))
     THEN None
     ELSE IF rec.kind = "once" THEN Min(Slots) ELSE Min(later)

(* Mutant of ComputeNext: a one-shot that failed is tried again soon. *)
ComputeNextSoon(rec) ==
  LET later == {s \in Slots : s > clock}
  IN CASE rec.kind = "once" -> CASE rec.count > 0 -> None
                                 [] rec.attempted -> clock + 1
                                 [] OTHER -> Min(Slots)
       [] OTHER -> IF later = {} THEN None ELSE Min(later)

(* compute_next_run.  A one-shot keeps its time, past or not, until it was *)
(* attempted.  Past the last slot there is None: the bound on time.        *)
ComputeNext(rec) ==
  LET later == {s \in Slots : s > clock}
  IN IF \/ rec.kind = "once" /\ (rec.count > 0 \/ rec.attempted)
        \/ rec.kind = "cron" /\ (later = {} \/ (Cap # None /\ rec.count >= Cap))
     THEN None
     ELSE IF rec.kind = "once" THEN Min(Slots) ELSE Min(later)

(* TaskStore.save: every save computes next_run anew. *)
Saved(rec) ==
  [rec EXCEPT !.next = IF rec.enabled THEN ComputeNext(rec) ELSE None]

(* TaskStore.due *)
IsDue == row # None /\ row.enabled /\ row.next # None /\ row.next <= clock

NoJob == [phase |-> "free", firing |-> None, beside |-> FALSE, ok |-> FALSE,
          copy |-> None, stale |-> FALSE]
NoReq == [op |-> "none", copy |-> None, stale |-> FALSE]

(* History: a copy read before somebody else's write is stale. *)
Outdated(x) == IF x.copy = None THEN x ELSE [x EXCEPT !.stale = TRUE]
OthersOutdated(f, except) == [x \in DOMAIN f |-> IF x = except THEN f[x]
                                                 ELSE Outdated(f[x])]

(* A request on the event loop runs to its end before anything else there. *)
LoopFree == \A q \in Requests : reqs[q].op # "mint"

-----------------------------------------------------------------------------
(* The scheduler. *)

Advance ==
  /\ clock < MaxTime
  /\ clock' = clock + 1
  /\ UNCHANGED <<row, manual, guard, jobs, reqs, edits, wakeVars, crashes,
                 fired, oks, consentVars, lost>>

FirstFree(j) == /\ jobs[j].phase = "free"
                /\ \A k \in Jobs : k < j => jobs[k].phase # "free"

(* Mutant of DueWakes: strictly after the time. *)
DueWakesLate ==
  {w \in Wakes : \/ w \in Timers /\ wakes[w] = "pending" /\ WakeAt < clock
                 \/ w \in JobWakes /\ wakes[w] = "due"}

(* WakeStore.due.  Nothing in the program calls complete_job, so a wake on *)
(* a job stays pending.                                                    *)
DueWakes ==
  {w \in Wakes : \/ w \in Timers /\ wakes[w] = "pending" /\ WakeAt <= clock
                 \/ w \in JobWakes /\ wakes[w] = "due"}

(* The head of the tick's wakes is delivered as soon as it is the head. *)
Deliver(ws) ==
  /\ waking' = ws
  /\ delivered' = IF ws = <<>> THEN delivered
                  ELSE [delivered EXCEPT ![Head(ws)] = @ + 1]

(* _tick: spawn the run of a due task, then resume the due wakes, one      *)
(* whole turn after the other.  What one tick spawned has started before   *)
(* the next tick: the loop is first in, first out.                         *)
Tick ==
  /\ waking = <<>>
  /\ LoopFree
  /\ \A j \in Jobs : jobs[j].phase # "spawned"
  /\ IF IsDue
     THEN \E j \in Jobs :
            /\ FirstFree(j)
            /\ jobs' = [jobs EXCEPT ![j] =
                 [NoJob EXCEPT !.phase = "spawned", !.firing = row.next,
                    !.beside = \E k \in Jobs : jobs[k].phase # "free"]]
     ELSE UNCHANGED jobs
  /\ Deliver(SetToSeq(DueWakes))
  /\ UNCHANGED <<clock, row, manual, guard, reqs, edits, wakes, exited,
                 crashes, fired, oks, consentVars, lost>>

(* Mutant of EndWake: mark_fired is forgotten. *)
EndWakeUnmarked(w) ==
  /\ waking # <<>> /\ w = Head(waking)
  /\ LoopFree
  /\ Deliver(Tail(waking))
  /\ UNCHANGED <<clock, row, manual, guard, jobs, reqs, edits, wakes, exited,
                 crashes, fired, oks, consentVars, lost>>

(* The turn of a wake is over, well or not: it is marked fired. *)
EndWake(w) ==
  /\ waking # <<>> /\ w = Head(waking)
  /\ LoopFree
  /\ wakes' = [wakes EXCEPT ![w] = "fired"]
  /\ Deliver(Tail(waking))
  /\ UNCHANGED <<clock, row, manual, guard, jobs, reqs, edits, exited,
                 crashes, fired, oks, consentVars, lost>>

JobExits(w) ==
  /\ exited' = exited \cup {w}
  /\ UNCHANGED <<clock, row, manual, guard, jobs, reqs, edits, wakes, waking,
                 delivered, crashes, fired, oks, consentVars, lost>>

(* Mutant of JobStart: the overlap guard is set but not looked at. *)
JobStartUnguarded(j) ==
  /\ jobs[j].phase = "spawned"
  /\ LoopFree
  /\ guard' = TRUE
  /\ fired' = fired \cup {jobs[j].firing}
  /\ jobs' = [jobs EXCEPT ![j] = [NoJob EXCEPT !.phase = "running"]]
  /\ UNCHANGED <<clock, row, manual, reqs, edits, wakeVars, crashes, oks,
                 consentVars, lost>>

(* run_task: skip on overlap, else hold the guard and run. *)
JobStart(j) ==
  /\ jobs[j].phase = "spawned"
  /\ LoopFree
  /\ IF guard
     THEN jobs' = [jobs EXCEPT ![j] = NoJob] /\ UNCHANGED <<guard, fired>>
     ELSE /\ guard' = TRUE
          /\ fired' = fired \cup {jobs[j].firing}
          /\ jobs' = [jobs EXCEPT ![j] = [NoJob EXCEPT !.phase = "running"]]
  /\ UNCHANGED <<clock, row, manual, reqs, edits, wakeVars, crashes, oks,
                 consentVars, lost>>

(* Mutant of RunnerDone: the guard is dropped only after a good run. *)
RunnerDoneGuarded(j, ok) ==
  /\ jobs[j].phase = "running"
  /\ LoopFree
  /\ guard' = ~ok
  /\ oks' = IF ok /\ ~lost THEN oks + 1 ELSE oks
  /\ jobs' = [jobs EXCEPT ![j] = [@ EXCEPT !.phase = "fetching", !.ok = ok]]
  /\ UNCHANGED <<clock, row, manual, reqs, edits, wakeVars, crashes, fired,
                 consentVars, lost>>

(* The run is over, well or with an error, and so is the guard. *)
RunnerDone(j, ok) ==
  /\ jobs[j].phase = "running"
  /\ LoopFree
  /\ guard' = FALSE
  /\ oks' = IF ok /\ ~lost THEN oks + 1 ELSE oks
  /\ jobs' = [jobs EXCEPT ![j] = [@ EXCEPT !.phase = "fetching", !.ok = ok]]
  /\ UNCHANGED <<clock, row, manual, reqs, edits, wakeVars, crashes, fired,
                 consentVars, lost>>

(* On a thread: get the record afresh. *)
JobFetch(j) ==
  /\ jobs[j].phase = "fetching"
  /\ jobs' = [jobs EXCEPT ![j] = IF row = None THEN NoJob
                ELSE [@ EXCEPT !.phase = "saving", !.copy = row]]
  /\ UNCHANGED <<clock, row, manual, guard, reqs, edits, wakeVars, crashes,
                 fired, oks, consentVars, lost>>

(* Mutants of Advanced: an error consumes max_runs; the grant is the one   *)
(* the run started with.                                                   *)
AdvancedByErrors(rec, ok) ==
  [rec EXCEPT !.count = @ + 1, !.attempted = TRUE]
AdvancedWithGrant(rec, ok) ==
  [rec EXCEPT !.count = IF ok THEN @ + 1 ELSE @, !.attempted = TRUE,
              !.granted = TRUE]

(* What a run does to its task: an error does not consume max_runs. *)
Advanced(rec, ok) ==
  [rec EXCEPT !.count = IF ok THEN @ + 1 ELSE @, !.attempted = TRUE]

(* On a thread: save the advanced record. *)
JobSave(j) ==
  /\ jobs[j].phase = "saving"
  /\ row' = Saved(Advanced(jobs[j].copy, jobs[j].ok))
  /\ lost' = (lost \/ jobs[j].stale)
  /\ jobs' = [OthersOutdated(jobs, j) EXCEPT ![j] = NoJob]
  /\ reqs' = OthersOutdated(reqs, None)
  /\ UNCHANGED <<clock, manual, guard, edits, wakeVars, crashes, fired, oks,
                 consentVars>>

-----------------------------------------------------------------------------
(* Requests. *)

(* mark_automation_seen, update_automation and update_scheduled_task,      *)
(* mint_task_rule.  An edit leaves every other field as it was read.       *)
Ops == {"seen", "enable", "disable", "recron", "revoke", "mint"}
Edited(rec, op) ==
  CASE op = "seen"    -> rec
    [] op = "enable"  -> [rec EXCEPT !.enabled = TRUE]
    [] op = "disable" -> [rec EXCEPT !.enabled = FALSE]
    [] op = "recron"  -> [rec EXCEPT !.kind = "cron"]
    [] op = "revoke"  -> [rec EXCEPT !.granted = FALSE]
    [] op = "mint"    -> [rec EXCEPT !.granted = TRUE]

(* A standing rule is minted on a run's approval card, unless it is there. *)
(* Of the edits that change nothing, which all save alike, one is kept.    *)
Get(q, op) ==
  /\ reqs[q].op = "none"
  /\ edits < MaxEdits
  /\ edits' = edits + 1
  /\ row # None
  /\ op \in {"seen", "revoke"} \/ Edited(row, op) # row
  /\ op = "mint" => LoopFree
  /\ reqs' = [reqs EXCEPT ![q] = [op |-> op, copy |-> row, stale |-> FALSE]]
  /\ UNCHANGED <<clock, row, manual, guard, jobs, wakeVars, crashes, fired,
                 oks, consentVars, lost>>

Put(q, rec) ==
  /\ row' = Saved(rec)
  /\ lost' = (lost \/ reqs[q].stale)
  /\ jobs' = OthersOutdated(jobs, None)
  /\ reqs' = [OthersOutdated(reqs, q) EXCEPT ![q] = NoReq]

SaveEdit(q) ==
  /\ reqs[q].op \in Ops
  /\ Put(q, Edited(reqs[q].copy, reqs[q].op))
  /\ revoked' = (reqs[q].op = "revoke" \/ (revoked /\ reqs[q].op # "mint"))
  /\ UNCHANGED <<clock, manual, guard, edits, wakeVars, crashes, fired, oks,
                 deleted>>

(* delete_automation, delete_scheduled_task: one locked call; the task's   *)
(* run history goes too.                                                   *)
Delete ==
  /\ row # None
  /\ row' = None
  /\ manual' = "none"
  /\ deleted' = TRUE
  /\ jobs' = OthersOutdated(jobs, None)
  /\ reqs' = OthersOutdated(reqs, None)
  /\ UNCHANGED <<clock, guard, edits, wakeVars, crashes, fired, oks, revoked,
                 lost>>

(* prepare_manual_run: a run the GUI drives as a session turn.  It holds   *)
(* no overlap guard.                                                       *)
PrepareManual ==
  /\ row # None
  /\ manual = "none"
  /\ manual' = "running"
  /\ UNCHANGED <<clock, row, guard, jobs, reqs, edits, wakeVars, crashes,
                 fired, oks, consentVars, lost>>

(* finalize_manual_run: a run still marked running counts, once. *)
GetFinalize(q) ==
  /\ reqs[q].op = "none"
  /\ edits < MaxEdits
  /\ edits' = edits + 1
  /\ row # None
  /\ manual = "running"
  /\ reqs' = [reqs EXCEPT ![q] = [op |-> "finalize", copy |-> row,
                                  stale |-> FALSE]]
  /\ UNCHANGED <<clock, row, manual, guard, jobs, wakeVars, crashes, fired,
                 oks, consentVars, lost>>

SaveFinalize(q) ==
  /\ reqs[q].op = "finalize"
  /\ Put(q, Advanced(reqs[q].copy, TRUE))
  /\ manual' = "ok"
  /\ oks' = IF lost' THEN oks ELSE oks + 1
  /\ UNCHANGED <<clock, guard, edits, wakeVars, crashes, fired, consentVars>>

-----------------------------------------------------------------------------

(* The process dies; the store and the wakes are on disk. *)
Crash ==
  /\ crashes < MaxCrashes
  /\ crashes' = crashes + 1
  /\ guard' = FALSE
  /\ jobs' = [j \in Jobs |-> NoJob]
  /\ reqs' = [q \in Requests |-> NoReq]
  /\ waking' = <<>>
  /\ UNCHANGED <<clock, row, manual, edits, wakes, exited, delivered, fired,
                 oks, consentVars, lost>>

(* A task just created, and wakes an agent asked for. *)
Init ==
  /\ clock = 0
  /\ \E kind \in {"once", "cron"} :
       row = Saved([enabled |-> TRUE, kind |-> kind, next |-> None, count |-> 0,
                    attempted |-> FALSE, granted |-> TRUE])
  /\ manual = "none"
  /\ guard = FALSE
  /\ jobs = [j \in Jobs |-> NoJob]
  /\ reqs = [q \in Requests |-> NoReq]
  /\ edits = 0
  /\ wakes = [w \in Wakes |-> "pending"]
  /\ waking = <<>>
  /\ exited = {}
  /\ crashes = 0
  /\ fired = {}
  /\ oks = 0
  /\ delivered = [w \in Wakes |-> 0]
  /\ revoked = FALSE
  /\ deleted = FALSE
  /\ lost = FALSE

JobStep(j) == JobStart(j) \/ JobFetch(j) \/ JobSave(j)

Next ==
  \/ Advance
  \/ Tick
  \/ \E w \in Wakes : EndWake(w)
  \/ \E w \in JobWakes : JobExits(w)
  \/ \E j \in Jobs : JobStep(j)
  \/ \E j \in Jobs, ok \in BOOLEAN : RunnerDone(j, ok)
  \/ \E q \in Requests, op \in Ops : Get(q, op)
  \/ \E q \in Requests : SaveEdit(q) \/ GetFinalize(q) \/ SaveFinalize(q)
  \/ Delete
  \/ PrepareManual
  \/ Crash

Spec == Init /\ [][Next]_vars

(* The loop ticks every tick_seconds, store calls and requests return, and *)
(* a wake's turn ends: the tick awaits it.  A run may wait for an approval *)
(* for ever, and nobody has to ask for anything.                           *)
FairSpec ==
  /\ Spec
  /\ WF_vars(Tick)
  /\ \A w \in Wakes : WF_vars(EndWake(w))
  /\ \A j \in Jobs : WF_vars(JobStep(j))
  /\ \A q \in Requests : WF_vars(SaveEdit(q) \/ SaveFinalize(q))

-----------------------------------------------------------------------------
(* Properties. *)

Records == Record \cup {None}

(* The values each variable ranges over. *)
TypeOK ==
  /\ clock \in 0..MaxTime
  /\ row \in Records
  /\ manual \in {"none", "running", "ok"}
  /\ guard \in BOOLEAN
  /\ jobs \in [Jobs -> [phase : {"free", "spawned", "running", "fetching", "saving"},
                        firing : Times, beside : BOOLEAN, ok : BOOLEAN,
                        copy : Records, stale : BOOLEAN]]
  /\ reqs \in [Requests -> [op : Ops \cup {"none", "finalize"},
                            copy : Records, stale : BOOLEAN]]
  /\ edits \in 0..MaxEdits
  /\ wakes \in [Wakes -> {"pending", "due", "fired"}]
  /\ waking \in Seq(Wakes)
  /\ exited \subseteq JobWakes
  /\ crashes \in 0..MaxCrashes
  /\ fired \subseteq Slots
  /\ oks \in Nat
  /\ delivered \in [Wakes -> Nat]
  /\ {revoked, deleted, lost} \subseteq BOOLEAN

(* Skip on overlap: two scheduled runs of a task never go at once, and the *)
(* guard is up exactly while one goes.                                     *)
NoOverlap ==
  /\ guard <=> \E j \in Jobs : jobs[j].phase = "running"
  /\ \A j, k \in Jobs : jobs[j].phase = "running" /\ jobs[k].phase = "running"
                          => j = k

(* A firing starts one run, however long the run is and whatever is edited *)
(* meanwhile, unless a crash cut the run, an edit undid its record, or the *)
(* tick that started it again came before the first run was recorded.      *)
FiringStartsOnce ==
  [][\A j \in Jobs :
       /\ jobs[j].phase = "spawned" /\ jobs'[j].phase = "running"
       /\ jobs[j].firing \in fired
       => crashes > 0 \/ lost \/ jobs[j].beside]_vars

(* run_count is the number of runs that ended well, scheduled or manual,   *)
(* those not recorded yet apart; errors do not consume max_runs.           *)
CountIsRuns ==
  ~lost /\ crashes = 0 /\ row # None =>
    row.count + Cardinality({j \in Jobs : /\ jobs[j].phase \in {"fetching", "saving"}
                                          /\ jobs[j].ok}) = oks

(* A revoked grant comes back, and a deleted task reappears, only when a   *)
(* save writes back a copy read before.                                    *)
DecisionsStick ==
  ~lost => (deleted => row = None) /\ (revoked /\ row # None => ~row.granted)

(* A due firing starts a run, unless a save moves it, a run that goes on   *)
(* for ever holds the guard, or the task is disabled or deleted.           *)
DueRuns ==
  \A n \in Slots :
    (IsDue /\ row.next = n) ~> \/ n \in fired
                               \/ ~IsDue \/ row.next # n
                               \/ \E j \in Jobs : jobs[j].phase = "running"

(* A timer wake reaches its session, and only a crash delivers it twice. *)
WakesFire ==
  \A w \in Timers : clock >= WakeAt ~> wakes[w] = "fired"
WakesFireOnce ==
  \A w \in Wakes : delivered[w] <= 1 + crashes

(* What the documentation says and the code does not do. *)

(* resume_due_wakes: "A suspended agent (it called sleep_for / wake_on /   *)
(* wake_on_event and ended its turn) is re-invoked".  Nobody reports the   *)
(* end of a job to the WakeStore, so an agent that called wake_on is not.  *)
JobWakesFire ==
  \A w \in JobWakes : w \in exited ~> wakes[w] = "fired"

=============================================================================
