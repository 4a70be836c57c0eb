---------------------------- MODULE Engine_proofs ----------------------------
(***************************************************************************)
(* What holds of an engine put together, for any values of the constants.  *)
(* What is proved of the permission layer and of the turn holds of it,     *)
(* since a behaviour of Engine is a behaviour of each part.  The other     *)
(* parts are proved about here, under their names in Engine: the store of  *)
(* approvals (Store!...), the compaction (Compact!...), the log (Log!...)  *)
(* and the ids of calls (Id!...), and last the types of all of them.       *)
(***************************************************************************)
EXTENDS Engine, SeqLemmas

Proved == INSTANCE Permissions_proofs

(* The two instances of Permissions take the same steps.                   *)
LEMMA SameSteps == Permit!Next => Proved!Next
  BY DEF Permit!Next, Proved!Next, Permit!Ask, Proved!Ask, Permit!Answer, Proved!Answer,
         Permit!Once, Proved!Once, Permit!AlwaysTool, Proved!AlwaysTool,
         Permit!AlwaysCommand, Proved!AlwaysCommand, Permit!AlwaysPersistent,
         Proved!AlwaysPersistent, Permit!AlwaysTask, Proved!AlwaysTask,
         Permit!Answered, Proved!Answered, Permit!Decide, Proved!Decide,
         Permit!SetMode, Proved!SetMode, Permit!Checkpoint, Proved!Checkpoint,
         Permit!Build, Proved!Build, Permit!RevokePermanent,
         Proved!RevokePermanent, Permit!RevokeRule, Proved!RevokeRule,
         Permit!SetTrust, Proved!SetTrust, Permit!Crash, Proved!Crash,
         Permit!Evaluate, Proved!Evaluate, Permit!SessionGrant,
         Proved!SessionGrant, Permit!PermanentGrant, Proved!PermanentGrant,
         Permit!StandingRule, Proved!StandingRule, Permit!Configured,
         Proved!Configured, Permit!Consequential, Proved!Consequential,
         Permit!Shell, Proved!Shell, Permit!Candidate, Proved!Candidate,
         Permit!BlanketIneligible, Proved!BlanketIneligible, Permit!Scope,
         Proved!Scope, Permit!Consent, Proved!Consent, Permit!Modes,
         Proved!Modes, Permit!engineVars, Proved!engineVars, Permit!storedVars,
         Proved!storedVars, Permit!permissionVars, Proved!permissionVars

(* A behaviour of the engine is one of its permission layer.               *)
LEMMA EngineHasPermissions == Spec => Proved!Spec
<1>1. Init => Proved!Init
  BY DEF Init, Permit!Init, Proved!Init, Permit!Nothing, Proved!Nothing
<1>2. [Next]_<<part, turnVars, compactVars, permitVars, approvalVars, logVars, idVars>>
        => [Permit!Next]_permitVars
  BY DEF Next, TurnStep, CompactStep, PermitStep, ApprovalStep, LogStep, IdStep
<1>3. UNCHANGED permitVars => UNCHANGED Proved!permissionVars
  BY DEF permitVars, Proved!permissionVars, Proved!engineVars, Proved!storedVars
<1> QED
  BY <1>1, <1>2, <1>3, SameSteps, PTL DEF Spec, Proved!Spec

(* PermissionEngine.evaluate, in any engine: a call with effects           *)
(* passes without a prompt only under an approval that the user gave and   *)
(* has not revoked, or the user's own mode, config or trusted workspace.   *)
THEOREM EngineAsksForConsent == Spec => []AllowedOnlyByConsent
<1>1. Permit!PermissionsAssumption
  BY PartsAssumption
<1>2. Proved!PermissionsAssumption
  BY <1>1 DEF Permit!PermissionsAssumption, Proved!PermissionsAssumption
<1>3. Proved!Spec => []Proved!AllowedOnlyByConsent
  BY <1>2, Proved!ConsentHolds
<1>4. Proved!AllowedOnlyByConsent => AllowedOnlyByConsent
  BY 
     DEF AllowedOnlyByConsent, Permit!AllowedOnlyByConsent, Proved!AllowedOnlyByConsent,
         Permit!Approved,
         Proved!Approved, Permit!Covers, Proved!Covers, Permit!Evaluate,
         Proved!Evaluate, Permit!SessionGrant, Proved!SessionGrant,
         Permit!PermanentGrant, Proved!PermanentGrant, Permit!StandingRule,
         Proved!StandingRule, Permit!Configured, Proved!Configured,
         Permit!Consequential, Proved!Consequential, Permit!Shell,
         Proved!Shell, Permit!Candidate, Proved!Candidate,
         Permit!BlanketIneligible, Proved!BlanketIneligible, Permit!Consent,
         Proved!Consent
<1> QED
  BY EngineHasPermissions, <1>3, <1>4, PTL

-----------------------------------------------------------------------------
(* The turn. *)

ProvedTurn == INSTANCE EngineTurn_proofs

(* The two instances of EngineTurn take the same steps.                    *)
LEMMA SameTurnSteps == Turn!Next => ProvedTurn!Next
  BY 
     DEF Turn!Next, ProvedTurn!Next, Turn!RunStep, ProvedTurn!RunStep, Turn!CallStep,
         ProvedTurn!CallStep, Turn!ClaimRun, ProvedTurn!ClaimRun, Turn!Begin,
         ProvedTurn!Begin, Turn!Iterate, ProvedTurn!Iterate, Turn!Leave, ProvedTurn!Leave,
         Turn!ReplyWithCalls, ProvedTurn!ReplyWithCalls, Turn!Blocks, ProvedTurn!Blocks,
         Turn!ReplyWithText, ProvedTurn!ReplyWithText, Turn!StreamOver,
         ProvedTurn!StreamOver, Turn!StartBatch, ProvedTurn!StartBatch, Turn!BatchDone,
         ProvedTurn!BatchDone, Turn!EndIteration, ProvedTurn!EndIteration, Turn!Stop,
         ProvedTurn!Stop, Turn!Steer, ProvedTurn!Steer, Turn!Interrupted,
         ProvedTurn!Interrupted, Turn!Ask, ProvedTurn!Ask, Turn!Clear, ProvedTurn!Clear,
         Turn!Answer, ProvedTurn!Answer, Turn!Return, ProvedTurn!Return, Turn!StartSerial,
         ProvedTurn!StartSerial, Turn!SerialDone, ProvedTurn!SerialDone, Turn!Dealt,
         ProvedTurn!Dealt, Turn!Record, ProvedTurn!Record, Turn!Result, ProvedTurn!Result,
         Turn!Outcomes, ProvedTurn!Outcomes, Turn!Concurrent, ProvedTurn!Concurrent,
         Turn!Started, ProvedTurn!Started, Turn!Kept, ProvedTurn!Kept, Turn!Range,
         ProvedTurn!Range, Turn!IsInjective, ProvedTurn!IsInjective, Turn!callVars,
         ProvedTurn!callVars, Turn!steerVars, ProvedTurn!steerVars, Turn!histVars,
         ProvedTurn!histVars

(* A behaviour of the engine is one of its turn.                           *)
LEMMA EngineHasTurn == Spec => ProvedTurn!Spec
<1>1. Init => ProvedTurn!Init
  BY DEF Init, Turn!Init, ProvedTurn!Init
<1>2. [Next]_<<part, turnVars, compactVars, permitVars, approvalVars, logVars, idVars>>
        => [Turn!Next]_turnVars
  BY DEF Next, TurnStep, CompactStep, PermitStep, ApprovalStep, LogStep, IdStep
<1>3. UNCHANGED turnVars => UNCHANGED ProvedTurn!engineVars
  BY 
     DEF turnVars, ProvedTurn!engineVars, ProvedTurn!callVars, ProvedTurn!steerVars,
         ProvedTurn!histVars
<1> QED
  BY <1>1, <1>2, <1>3, SameTurnSteps, PTL DEF Spec, ProvedTurn!Spec

LEMMA TurnIsProved == ProvedTurn!EngineAssumption
<1>1. Turn!EngineAssumption
  BY PartsAssumption
<1> QED
  BY <1>1 DEF Turn!EngineAssumption, ProvedTurn!EngineAssumption

(* _handle_tool_calls: whatever Stop, refusal or mangled call comes in     *)
(* between, the model is called next on a block each call of which has     *)
(* exactly one result, and a call that ran has its own.                    *)
THEOREM EngineAnswersBlocks == Spec => []BlockIsAnswered
<1>1. ProvedTurn!Spec => []ProvedTurn!BlockIsAnswered
  BY TurnIsProved, ProvedTurn!BlocksAreAnswered
<1>2. ProvedTurn!BlockIsAnswered => BlockIsAnswered
  BY 
     DEF BlockIsAnswered, Turn!BlockIsAnswered, ProvedTurn!BlockIsAnswered, Turn!Range,
         ProvedTurn!Range
<1> QED
  BY EngineHasTurn, <1>1, <1>2, PTL

(* request_interrupt: after a Stop no call with effects starts any more.   *)
THEOREM EngineSparesEffects == Spec => []StopSparesEffects
<1>1. ProvedTurn!Spec => []ProvedTurn!StopSparesEffects
  BY TurnIsProved, ProvedTurn!StopsSpareEffects
<1>2. ProvedTurn!StopSparesEffects => StopSparesEffects
  BY DEF StopSparesEffects, Turn!StopSparesEffects, ProvedTurn!StopSparesEffects
<1> QED
  BY EngineHasTurn, <1>1, <1>2, PTL

-----------------------------------------------------------------------------
(* The store of approvals. *)

Mutates(w) == job[w].op # "load"
Shared(s) == s \notin Engines
(* The cache holds what the file does, unless a load crossed a write of    *)
(* the same store; an engine has its store to itself.                      *)
Fits(s) == cache[s] = file \/ (crossed /\ Shared(s))

LoadLines == {"free", "stat", "read", "cache", "stamp", "done"}
MutateLines == {"drop", "stat", "read", "cache", "stamp", "copy", "replace", "adopt",
                "restamp", "unlock"}

(* Who changes the file holds the lock; an engine does one thing at a time. *)
LockIsHeld ==
  \A w \in Workers : IF Mutates(w) THEN job[w].line = "locking" \/
                            (job[w].line \in MutateLines /\ lock = w)
                     ELSE job[w].line \in LoadLines
EnginesWorkAlone ==
  \A v, w \in Workers :
    /\ job[v].line # "free" /\ job[w].line # "free"
    /\ job[v].store = job[w].store /\ job[v].store \in Engines
    => v = w

(* A cache with the stamp of the file has its content. *)
StampsAreTrue ==
  /\ mtime = 0 => file = {}
  /\ \A s \in Stores : stamp[s] <= mtime /\ (stamp[s] = mtime /\ mtime # 0 => Fits(s))

(* What an operation has read, by where it is. *)
ReadsAreTrue ==
  \A w \in Workers :
    /\ job[w].line \in {"read", "cache", "stamp"} => job[w].saw # 0
    /\ job[w].saw <= mtime
    /\ job[w].line \in {"read", "cache"} /\ job[w].store \in Engines =>
          stamp[job[w].store] < job[w].saw
    /\ job[w].line = "cache" /\ job[w].saw = mtime => job[w].data = file
    /\ job[w].line = "stamp" /\ job[w].saw = mtime => Fits(job[w].store)

(* What a mutation is about to write adds up with what is there. *)
AddsUp(w) ==
  Mutates(w) =>
    /\ job[w].line \in {"cache", "adopt"} => job[w].data = file
    /\ job[w].line \in {"stamp", "copy", "restamp"} => Fits(job[w].store)
    /\ job[w].line = "replace" =>
          job[w].data = Store!Apply(job[w].op, job[w].grant, file) \/ crossed

MutationsAddUp == \A w \in Workers : AddsUp(w)

(* What a load of an engine has seen. *)
IsCurrent(w) ==
  job[w].line # "free" /\ ~Mutates(w) =>
    /\ file \in job[w].seen
    /\ job[w].line = "cache" => job[w].data \in job[w].seen
    /\ job[w].line \in {"stamp", "done"} /\ job[w].store \in Engines =>
          cache[job[w].store] \in job[w].seen

LoadsAreCurrent == \A w \in Workers : IsCurrent(w)

StoreInv ==
  /\ Store!TypeOK /\ LockIsHeld /\ EnginesWorkAlone /\ StampsAreTrue /\ ReadsAreTrue
  /\ MutationsAddUp /\ LoadsAreCurrent
  /\ file = ledger \/ crossed

LEMMA FreeIs ==
  ASSUME Store!StoreAssumption
  PROVE  /\ Store!Free \in Store!Job /\ Store!Free.line = "free"
         /\ Store!Free.op = "load" /\ Store!Free.saw = 0
<1>1. (CHOOSE s \in Stores : TRUE) \in Stores /\ (CHOOSE g \in Grants : TRUE) \in Grants
  BY DEF Store!StoreAssumption
<1>2. 0 \in 0..MaxWrites
  BY DEF Store!StoreAssumption
<1>3. "free" \in Store!Lines
  BY DEF Store!Lines
<1> DEFINE s0 == CHOOSE s \in Stores : TRUE
           g0 == CHOOSE g \in Grants : TRUE
<1>4. s0 \in Stores /\ g0 \in Grants
  BY <1>1
<1>5. Store!Free = [line |-> "free", store |-> s0, op |-> "load", grant |-> g0, saw |-> 0,
              data |-> {}, seen |-> {}]
  BY DEF Store!Free
<1> HIDE DEF s0, g0
<1> QED BY ONLY <1>2, <1>3, <1>4, <1>5 DEF Store!Job

(* What changes of a job keep it one. *)
LEMMA JobMoves ==
  ASSUME NEW j \in Store!Job
  PROVE  /\ \A line \in Store!Lines : [j EXCEPT !.line = line] \in Store!Job
         /\ \A line \in Store!Lines, n \in 0..MaxWrites :
               [j EXCEPT !.saw = n, !.line = line] \in Store!Job
         /\ \A line \in Store!Lines, S \in SUBSET Grants :
               [j EXCEPT !.data = S, !.line = line] \in Store!Job
         /\ \A S \in SUBSET Grants : [j EXCEPT !.seen = @ \cup {S}] \in Store!Job
<1>1. \A line \in Store!Lines : [j EXCEPT !.line = line] \in Store!Job
  BY DEF Store!Job
<1>2. \A line \in Store!Lines, n \in 0..MaxWrites :
         [j EXCEPT !.saw = n, !.line = line] \in Store!Job
  BY DEF Store!Job
<1>3. \A line \in Store!Lines, S \in SUBSET Grants :
         [j EXCEPT !.data = S, !.line = line] \in Store!Job
  BY DEF Store!Job
<1>4. \A S \in SUBSET Grants : [j EXCEPT !.seen = @ \cup {S}] \in Store!Job
  <2> SUFFICES ASSUME NEW S \in SUBSET Grants
               PROVE  [j EXCEPT !.seen = @ \cup {S}] \in Store!Job
    OBVIOUS
  <2>1. j.seen \cup {S} \in SUBSET (SUBSET Grants)
    BY DEF Store!Job
  <2> DEFINE T == j.seen \cup {S}
  <2>2. T \in SUBSET (SUBSET Grants)
    BY <2>1
  <2> HIDE DEF T
  <2>3. [j EXCEPT !.seen = T] \in Store!Job
    BY <2>2 DEF Store!Job
  <2> QED BY <2>3 DEF T
<1> QED BY <1>1, <1>2, <1>3, <1>4

(* Every action keeps the types. *)
LEMMA StoreTypes ==
  ASSUME Store!StoreAssumption, Store!TypeOK, [Store!Next]_approvalVars
  PROVE  Store!TypeOK'
<1> USE DEF Store!past
<1>0. /\ Store!Free \in Store!Job /\ 0 \in 0..MaxWrites /\ MaxWrites \in Nat
      /\ NoWorker \notin Workers
  BY FreeIs DEF Store!StoreAssumption
<1>a. job \in [Workers -> Store!Job] /\ (\A w \in Workers : job[w] \in Store!Job)
  BY DEF Store!TypeOK
<1>b. \A w \in Workers : /\ job[w].store \in Stores /\ job[w].saw \in 0..MaxWrites
                         /\ job[w].data \in SUBSET Grants /\ job[w].grant \in Grants
  BY <1>a DEF Store!Job
<1>1. ASSUME NEW w \in Workers, NEW line \in Store!Lines, Store!Goto(w, line)
      PROVE  job' \in [Workers -> Store!Job]
  BY <1>1, <1>a, JobMoves DEF Store!Goto
<1>l. /\ "locking" \in Store!Lines /\ "drop" \in Store!Lines /\ "stat" \in Store!Lines
      /\ "read" \in Store!Lines /\ "cache" \in Store!Lines /\ "stamp" \in Store!Lines
      /\ "replace" \in Store!Lines /\ "adopt" \in Store!Lines
      /\ "restamp" \in Store!Lines /\ "unlock" \in Store!Lines
      /\ (\A w \in Workers : Store!Loaded(w) \in Store!Lines)
  BY DEF Store!Lines, Store!Loaded
<1>2. ASSUME NEW w \in Workers, Store!Begin(w) PROVE Store!TypeOK'
  <2>0. {file} \in SUBSET (SUBSET Grants)
    BY DEF Store!TypeOK
  <2> DEFINE F == {file}
  <2>1. F \in SUBSET (SUBSET Grants)
    BY <2>0
  <2> HIDE DEF F
  <2>2. ASSUME NEW s \in Stores, Store!BeginLoad(w, s) PROVE Store!TypeOK'
    <3>1. [Store!Free EXCEPT !.line = "stat", !.store = s, !.seen = F] \in Store!Job
      BY <1>0, <1>l, <2>1 DEF Store!Job
    <3>2. job' = [job EXCEPT ![w] = [Store!Free EXCEPT !.line = "stat", !.store = s, !.seen = F]]
      BY <2>2 DEF Store!BeginLoad, F
    <3>3. job' \in [Workers -> Store!Job]
      BY <1>a, <3>1, <3>2
    <3> QED BY <2>2, <3>3 DEF Store!BeginLoad, Store!TypeOK
  <2>3. ASSUME NEW s \in Stores, NEW op \in {"grant", "revoke"}, NEW g \in Grants,
               Store!BeginMutate(w, s, op, g)
        PROVE  Store!TypeOK'
    <3>1. [Store!Free EXCEPT !.line = "locking", !.store = s, !.op = op, !.grant = g,
                       !.seen = F] \in Store!Job
      BY <1>0, <1>l, <2>1 DEF Store!Job
    <3>2. job' = [job EXCEPT ![w] = [Store!Free EXCEPT !.line = "locking", !.store = s, !.op = op,
                                                 !.grant = g, !.seen = F]]
      BY <2>3 DEF Store!BeginMutate, F
    <3>3. job' \in [Workers -> Store!Job]
      BY <1>a, <3>1, <3>2
    <3> QED BY <2>3, <3>3 DEF Store!BeginMutate, Store!TypeOK
  <2> QED BY <1>2, <2>2, <2>3 DEF Store!Begin
<1>3. ASSUME NEW w \in Workers, Store!Lock(w) PROVE Store!TypeOK'
  BY <1>1, <1>3, <1>l DEF Store!Lock, Store!TypeOK
<1>4. ASSUME NEW w \in Workers, Store!Drop(w) PROVE Store!TypeOK'
  BY <1>0, <1>1, <1>4, <1>l DEF Store!Drop, Store!TypeOK
<1>5. ASSUME NEW w \in Workers, Store!Stat(w) PROVE Store!TypeOK'
  <2>1. CASE mtime = 0
    BY <1>0, <1>1, <1>5, <1>l, <2>1 DEF Store!Stat, Store!TypeOK
  <2>2. CASE mtime # 0
    <3>1. PICK line \in Store!Lines : job' = [job EXCEPT ![w].saw = mtime, ![w].line = line]
      BY <1>5, <1>l, <2>2 DEF Store!Stat
    <3>2. job' \in [Workers -> Store!Job]
      BY <1>a, <3>1, JobMoves DEF Store!TypeOK
    <3> QED BY <1>5, <2>2, <3>2 DEF Store!Stat, Store!TypeOK
  <2> QED BY <2>1, <2>2
<1>6. ASSUME NEW w \in Workers, Store!Read(w) PROVE Store!TypeOK'
  <2>1. job' \in [Workers -> Store!Job]
    BY <1>6, <1>a, <1>l, JobMoves DEF Store!Read, Store!TypeOK
  <2> QED BY <1>6, <2>1 DEF Store!Read, Store!TypeOK
<1>7. ASSUME NEW w \in Workers, Store!SetCache(w) PROVE Store!TypeOK'
  <2>1. job' \in [Workers -> Store!Job]
    BY <1>1, <1>7, <1>l DEF Store!SetCache
  <2>2. crossed' \in BOOLEAN
    BY <1>7 DEF Store!SetCache
  <2> QED BY <1>7, <1>b, <2>1, <2>2 DEF Store!SetCache, Store!TypeOK
<1>8. ASSUME NEW w \in Workers, Store!SetStamp(w) PROVE Store!TypeOK'
  BY <1>1, <1>8, <1>l, <1>b DEF Store!SetStamp, Store!TypeOK
<1>9. ASSUME NEW w \in Workers, Store!Done(w) PROVE Store!TypeOK'
  BY <1>0, <1>9 DEF Store!Done, Store!TypeOK
<1>10. ASSUME NEW w \in Workers, Store!Copy(w) PROVE Store!TypeOK'
  <2>1. Store!Apply(job[w].op, job[w].grant, cache[job[w].store]) \in SUBSET Grants
    BY <1>b DEF Store!Apply, Store!TypeOK
  <2>2. job' \in [Workers -> Store!Job]
    BY <1>10, <1>a, <1>l, <2>1, JobMoves DEF Store!Copy
  <2> QED BY <1>10, <2>2 DEF Store!Copy, Store!TypeOK
<1>11. ASSUME NEW w \in Workers, Store!Replace(w) PROVE Store!TypeOK'
  <2>1. /\ file' = job[w].data /\ ledger' = Store!Apply(job[w].op, job[w].grant, ledger)
        /\ mtime' = mtime + 1 /\ mtime < MaxWrites
    BY <1>11 DEF Store!Replace
  <2>2. file' \in SUBSET Grants /\ ledger' \in SUBSET Grants
    BY <1>b, <2>1 DEF Store!TypeOK, Store!Apply
  <2>3. /\ [job[w] EXCEPT !.line = "adopt"] \in Store!Job
        /\ \A v \in Workers : [job[v] EXCEPT !.seen = @ \cup {file'}] \in Store!Job
    BY <1>a, <1>l, <2>2, JobMoves
  <2>4. job' \in [Workers -> Store!Job]
    BY <1>11, <2>3, Zenon DEF Store!Replace
  <2>5. mtime' \in 0..MaxWrites
    BY <1>0, <2>1 DEF Store!TypeOK
  <2> QED BY <1>11, <2>2, <2>4, <2>5 DEF Store!Replace, Store!TypeOK
<1>12. ASSUME NEW w \in Workers, Store!WriteFails(w) PROVE Store!TypeOK'
  BY <1>1, <1>12, <1>l DEF Store!WriteFails, Store!TypeOK
<1>13. ASSUME NEW w \in Workers, Store!Adopt(w) PROVE Store!TypeOK'
  BY <1>1, <1>13, <1>l, <1>b DEF Store!Adopt, Store!TypeOK
<1>14. ASSUME NEW w \in Workers, Store!Restamp(w) PROVE Store!TypeOK'
  BY <1>1, <1>14, <1>l DEF Store!Restamp, Store!TypeOK
<1>15. ASSUME NEW w \in Workers, Store!Unlock(w) PROVE Store!TypeOK'
  BY <1>0, <1>15 DEF Store!Unlock, Store!TypeOK
<1>16. CASE UNCHANGED approvalVars
  BY <1>16 DEF approvalVars, Store!TypeOK
<1> QED
  BY <1>2, <1>3, <1>4, <1>5, <1>6, <1>7, <1>8, <1>9, <1>10, <1>11, <1>12, <1>13, <1>14,
     <1>15,
     <1>16 DEF Store!Next, Store!Step

LedgerIsFile == file = ledger \/ crossed

(* What the actions' proofs use of the types. *)
Facts ==
  /\ Store!Free.line = "free" /\ Store!Free.op = "load" /\ Store!Free.saw = 0
  /\ NoWorker \notin Workers /\ mtime \in Nat
  /\ job \in [Workers -> Store!Job]
  /\ \A w \in Workers :
       job[w] \in Store!Job /\ job[w].store \in Stores /\ job[w].saw \in Nat

LEMMA StoreFacts == ASSUME Store!StoreAssumption, Store!TypeOK PROVE Facts
<1>1. job \in [Workers -> Store!Job] /\ mtime \in Nat
  BY DEF Store!TypeOK, Store!StoreAssumption
<1> QED
  BY <1>1, FreeIs DEF Facts, Store!Job, Store!StoreAssumption

LEMMA LockKeeps ==
  ASSUME Store!StoreAssumption, StoreInv, Store!TypeOK', NEW w \in Workers,
         Store!Lock(w)
  PROVE  StoreInv'
<1> USE DEF Store!past, StoreInv, Facts
<1>1. Facts
  BY StoreFacts
<1>4. LockIsHeld'
  BY <1>1 DEF Store!Lock, Store!Goto, LockIsHeld, LoadLines, MutateLines, Mutates
<1>5. EnginesWorkAlone'
  BY <1>1 DEF Store!Lock, Store!Goto, EnginesWorkAlone
<1>6. StampsAreTrue'
  BY <1>1 DEF Store!Lock, Store!Goto, StampsAreTrue, Fits, Shared
<1>7. ReadsAreTrue'
  BY <1>1 DEF Store!Lock, Store!Goto, ReadsAreTrue, Fits, Shared
<1>8. MutationsAddUp'
  BY <1>1 DEF Store!Lock, Store!Goto, MutationsAddUp, AddsUp, Mutates, Fits, Shared
<1>9. LoadsAreCurrent'
  BY <1>1 DEF Store!Lock, Store!Goto, LoadsAreCurrent, IsCurrent, Mutates
<1>10. LedgerIsFile'
  BY <1>1 DEF Store!Lock, Store!Goto, LedgerIsFile
<1> QED BY <1>4, <1>5, <1>6, <1>7, <1>8, <1>9, <1>10 DEF LedgerIsFile

LEMMA DropKeeps ==
  ASSUME Store!StoreAssumption, StoreInv, Store!TypeOK', NEW w \in Workers,
         Store!Drop(w)
  PROVE  StoreInv'
<1> USE DEF Store!past, StoreInv, Facts
<1>1. Facts
  BY StoreFacts
<1>4. LockIsHeld'
  BY <1>1 DEF Store!Drop, Store!Goto, LockIsHeld, LoadLines, MutateLines, Mutates
<1>5. EnginesWorkAlone'
  BY <1>1 DEF Store!Drop, Store!Goto, EnginesWorkAlone
<1>6. StampsAreTrue'
  BY <1>1 DEF Store!Drop, Store!Goto, StampsAreTrue, Fits, Shared
<1>7. ReadsAreTrue'
  BY <1>1 DEF Store!Drop, Store!Goto, ReadsAreTrue, Fits, Shared
<1>8. MutationsAddUp'
  BY <1>1 DEF Store!Drop, Store!Goto, MutationsAddUp, AddsUp, Mutates, Fits, Shared
<1>9. LoadsAreCurrent'
  BY <1>1 DEF Store!Drop, Store!Goto, LoadsAreCurrent, IsCurrent, Mutates
<1>10. LedgerIsFile'
  BY <1>1 DEF Store!Drop, Store!Goto, LedgerIsFile
<1> QED BY <1>4, <1>5, <1>6, <1>7, <1>8, <1>9, <1>10 DEF LedgerIsFile

LEMMA StatKeeps ==
  ASSUME Store!StoreAssumption, StoreInv, Store!TypeOK', NEW w \in Workers,
         Store!Stat(w)
  PROVE  StoreInv'
<1> USE DEF Store!past, StoreInv
<1>1. job \in [Workers -> Store!Job] /\ (\A v \in Workers : job[v] \in Store!Job) /\ mtime \in Nat
  BY DEF Store!TypeOK, Store!StoreAssumption
<1>2. /\ cache \in [Stores -> SUBSET Grants] /\ stamp \in [Stores -> 0..MaxWrites]
      /\ \A v \in Workers : job[v].store \in Stores /\ job[v].saw \in Nat
      /\ \A t \in Stores : stamp[t] \in Nat
  BY <1>1 DEF Store!TypeOK, Store!Job, Store!StoreAssumption
<1> DEFINE s == job[w].store
           Rest == /\ job'[w].store = s /\ job'[w].op = job[w].op /\ job'[w].grant = job[w].grant
                   /\ job'[w].data = job[w].data /\ job'[w].seen = job[w].seen
                   /\ job[w].line = "stat"
                   /\ \A v \in Workers \ {w} : job'[v] = job[v]
                   /\ UNCHANGED <<file, mtime, lock, ledger, crossed>>
           Next0 == job'[w].line = IF job[w].op = "load" THEN "done" ELSE "copy"
<1>3. CASE mtime = 0
  <2>1. Rest /\ Next0 /\ job'[w].saw = job[w].saw
    BY <1>1, <1>3 DEF Store!Stat, Store!Goto, Store!Loaded, Store!Job
  <2>2. file = {} /\ cache'[s] = {} /\ stamp'[s] = 0
    BY <1>2, <1>3 DEF Store!Stat, StampsAreTrue
  <2>3. \A t \in Stores \ {s} : cache'[t] = cache[t] /\ stamp'[t] = stamp[t]
    BY <1>2, <1>3 DEF Store!Stat
  <2>4. LockIsHeld'
    BY <1>2, <1>3, <2>1, <2>2, <2>3 DEF LockIsHeld, LoadLines, MutateLines, Mutates
  <2>5. EnginesWorkAlone'
    BY <1>2, <1>3, <2>1, <2>2, <2>3 DEF EnginesWorkAlone
  <2>6. StampsAreTrue'
    BY <1>2, <1>3, <2>1, <2>2, <2>3 DEF StampsAreTrue, Fits, Shared
  <2>7. ReadsAreTrue'
    BY <1>2, <1>3, <2>1, <2>2, <2>3 DEF ReadsAreTrue, Fits, Shared, StampsAreTrue
  <2>8. MutationsAddUp'
    BY <1>2, <1>3, <2>1, <2>2, <2>3
       DEF MutationsAddUp, AddsUp, Mutates, Fits, Shared, StampsAreTrue, LockIsHeld,
           LoadLines
  <2>9. LoadsAreCurrent'
    <3>1. ASSUME NEW v \in Workers \ {w} PROVE IsCurrent(v)'
      <4>1. IsCurrent(v)
        BY DEF LoadsAreCurrent
      <4>2. cache'[job[v].store] = file \/ cache'[job[v].store] = cache[job[v].store]
        BY <1>2, <2>2, <2>3
      <4> QED BY <2>1, <4>1, <4>2 DEF IsCurrent, Mutates
    <3>2. IsCurrent(w)'
      BY <2>1, <2>2 DEF LoadsAreCurrent, IsCurrent, Mutates
    <3> QED BY <3>1, <3>2 DEF LoadsAreCurrent
  <2>10. LedgerIsFile'
    BY <1>2, <1>3, <2>1, <2>2, <2>3 DEF LedgerIsFile
  <2> QED BY <2>4, <2>5, <2>6, <2>7, <2>8, <2>9, <2>10 DEF LedgerIsFile
<1>4. CASE mtime # 0 /\ mtime = stamp[s]
  <2>1. Rest /\ Next0 /\ job'[w].saw = mtime /\ UNCHANGED <<cache, stamp>>
    <3>1. /\ job' = [job EXCEPT ![w] = [job[w] EXCEPT !.saw = mtime, !.line = Store!Loaded(w)]]
          /\ job[w].line = "stat" /\ UNCHANGED <<file, mtime, lock, cache, stamp, ledger, crossed>>
      BY <1>4 DEF Store!Stat
    <3>2. /\ job'[w] = [job[w] EXCEPT !.saw = mtime, !.line = Store!Loaded(w)]
          /\ \A v \in Workers \ {w} : job'[v] = job[v]
      BY <1>1, <3>1
    <3>3. job[w] \in Store!Job
      BY <1>1
    <3> HIDE DEF s
    <3>4. /\ job'[w].line = Store!Loaded(w) /\ job'[w].saw = mtime /\ job'[w].store = job[w].store
          /\ job'[w].op = job[w].op /\ job'[w].grant = job[w].grant
          /\ job'[w].data = job[w].data /\ job'[w].seen = job[w].seen
      <4> DEFINE j == job[w]
                 k == job'[w]
      <4>1. j \in Store!Job /\ k = [j EXCEPT !.saw = mtime, !.line = Store!Loaded(w)]
        BY <3>2, <3>3
      <4> HIDE DEF j, k
      <4>2. /\ k.line = Store!Loaded(w) /\ k.saw = mtime /\ k.store = j.store /\ k.op = j.op
            /\ k.grant = j.grant /\ k.data = j.data /\ k.seen = j.seen
        BY ONLY <4>1 DEF Store!Job
      <4> QED BY <4>2 DEF j, k
    <3> QED BY <3>1, <3>2, <3>4 DEF Store!Loaded, s
  <2>4. LockIsHeld'
    BY <1>2, <1>4, <2>1 DEF LockIsHeld, LoadLines, MutateLines, Mutates
  <2>5. EnginesWorkAlone'
    BY <1>2, <1>4, <2>1 DEF EnginesWorkAlone
  <2>6. StampsAreTrue'
    BY <1>2, <1>4, <2>1 DEF StampsAreTrue, Fits, Shared
  <2>7. ReadsAreTrue'
    BY <1>2, <1>4, <2>1 DEF ReadsAreTrue, Fits, Shared, StampsAreTrue
  <2>8. MutationsAddUp'
    BY <1>2, <1>4, <2>1
       DEF MutationsAddUp, AddsUp, Mutates, Fits, Shared, StampsAreTrue, LockIsHeld,
           LoadLines
  <2>9. LoadsAreCurrent'
    BY <1>2, <1>4, <2>1
       DEF LoadsAreCurrent, IsCurrent, Mutates, LockIsHeld, MutateLines, StampsAreTrue,
           Fits, Shared
  <2>10. LedgerIsFile'
    BY <1>2, <1>4, <2>1 DEF LedgerIsFile
  <2> QED BY <2>4, <2>5, <2>6, <2>7, <2>8, <2>9, <2>10 DEF LedgerIsFile
<1>5. CASE mtime # 0 /\ mtime # stamp[s]
  <2>1. Rest /\ job'[w].line = "read" /\ job'[w].saw = mtime /\ UNCHANGED <<cache, stamp>>
    <3>1. /\ job' = [job EXCEPT ![w] = [job[w] EXCEPT !.saw = mtime, !.line = "read"]]
          /\ job[w].line = "stat" /\ UNCHANGED <<file, mtime, lock, cache, stamp, ledger, crossed>>
      BY <1>5 DEF Store!Stat
    <3>2. /\ job'[w] = [job[w] EXCEPT !.saw = mtime, !.line = "read"]
          /\ \A v \in Workers \ {w} : job'[v] = job[v]
      BY <1>1, <3>1
    <3>3. job[w] \in Store!Job
      BY <1>1
    <3> HIDE DEF s
    <3>4. /\ job'[w].line = "read" /\ job'[w].saw = mtime /\ job'[w].store = job[w].store
          /\ job'[w].op = job[w].op /\ job'[w].grant = job[w].grant
          /\ job'[w].data = job[w].data /\ job'[w].seen = job[w].seen
      <4> DEFINE j == job[w]
                 k == job'[w]
      <4>1. j \in Store!Job /\ k = [j EXCEPT !.saw = mtime, !.line = "read"]
        BY <3>2, <3>3
      <4> HIDE DEF j, k
      <4>2. /\ k.line = "read" /\ k.saw = mtime /\ k.store = j.store /\ k.op = j.op
            /\ k.grant = j.grant /\ k.data = j.data /\ k.seen = j.seen
        BY ONLY <4>1 DEF Store!Job
      <4> QED BY <4>2 DEF j, k
    <3> QED BY <3>1, <3>2, <3>4 DEF Store!Loaded, s
  <2>4. LockIsHeld'
    BY <1>2, <1>5, <2>1 DEF LockIsHeld, LoadLines, MutateLines, Mutates
  <2>5. EnginesWorkAlone'
    BY <1>2, <1>5, <2>1 DEF EnginesWorkAlone
  <2>6. StampsAreTrue'
    BY <1>2, <1>5, <2>1 DEF StampsAreTrue, Fits, Shared
  <2>7. ReadsAreTrue'
    <3>1. stamp[s] < mtime
      BY <1>1, <1>2, <1>5 DEF StampsAreTrue
    <3> QED BY <1>1, <1>2, <1>5, <2>1, <3>1 DEF ReadsAreTrue, Fits, Shared
  <2>8. MutationsAddUp'
    BY <1>2, <1>5, <2>1
       DEF MutationsAddUp, AddsUp, Mutates, Fits, Shared, StampsAreTrue, LockIsHeld,
           LoadLines
  <2>9. LoadsAreCurrent'
    BY <1>2, <1>5, <2>1
       DEF LoadsAreCurrent, IsCurrent, Mutates, LockIsHeld, MutateLines, StampsAreTrue,
           Fits, Shared
  <2>10. LedgerIsFile'
    BY <1>2, <1>5, <2>1 DEF LedgerIsFile
  <2> QED BY <2>4, <2>5, <2>6, <2>7, <2>8, <2>9, <2>10 DEF LedgerIsFile
<1> QED BY <1>3, <1>4, <1>5

LEMMA ReadKeeps ==
  ASSUME Store!StoreAssumption, StoreInv, Store!TypeOK', NEW w \in Workers,
         Store!Read(w)
  PROVE  StoreInv'
<1> USE DEF Store!past, StoreInv, Facts
<1>1. Facts
  BY StoreFacts
<1>4. LockIsHeld'
  BY <1>1 DEF Store!Read, LockIsHeld, LoadLines, MutateLines, Mutates
<1>5. EnginesWorkAlone'
  BY <1>1 DEF Store!Read, EnginesWorkAlone
<1>6. StampsAreTrue'
  BY <1>1 DEF Store!Read, StampsAreTrue, Fits, Shared
<1>7. ReadsAreTrue'
  BY <1>1 DEF Store!Read, ReadsAreTrue, Fits, Shared
<1>8. MutationsAddUp'
  BY <1>1 DEF Store!Read, MutationsAddUp, AddsUp, Mutates, Fits, Shared
<1>9. LoadsAreCurrent'
  BY <1>1 DEF Store!Read, LoadsAreCurrent, IsCurrent, Mutates
<1>10. LedgerIsFile'
  BY <1>1 DEF Store!Read, LedgerIsFile
<1> QED BY <1>4, <1>5, <1>6, <1>7, <1>8, <1>9, <1>10 DEF LedgerIsFile

LEMMA SetCacheKeeps ==
  ASSUME Store!StoreAssumption, StoreInv, Store!TypeOK', NEW w \in Workers,
         Store!SetCache(w)
  PROVE  StoreInv'
<1> USE DEF Store!past, StoreInv, Facts
<1>1. Facts
  BY StoreFacts
<1>4. LockIsHeld'
  BY <1>1 DEF Store!SetCache, Store!Goto, LockIsHeld, LoadLines, MutateLines, Mutates
<1>5. EnginesWorkAlone'
  BY <1>1 DEF Store!SetCache, Store!Goto, EnginesWorkAlone
<1>6. StampsAreTrue'
  <2>1. CASE job[w].data = file
    BY <1>1, <2>1 DEF Store!SetCache, Store!TypeOK, StampsAreTrue, Fits
  <2>2. CASE job[w].data # file /\ job[w].store \in Engines
    BY <1>1, <2>2 DEF Store!SetCache, Store!TypeOK, StampsAreTrue, Fits, ReadsAreTrue
  <2>3. CASE job[w].data # file /\ job[w].store \notin Engines
    <3>1. crossed'
      BY <2>3, Zenon DEF Store!SetCache
    <3> QED BY <1>1, <2>3, <3>1 DEF Store!SetCache, StampsAreTrue, Fits, Shared
  <2> QED BY <2>1, <2>2, <2>3
<1>7. ReadsAreTrue'
  <2>1. CASE job[w].data = file
    BY <1>1, <2>1
       DEF Store!SetCache, Store!Goto, Store!TypeOK, Store!Job, ReadsAreTrue, Fits,
           Shared, EnginesWorkAlone
  <2>2. CASE job[w].data # file /\ job[w].store \in Engines
    BY <1>1, <2>2
       DEF Store!SetCache, Store!Goto, Store!TypeOK, Store!Job, ReadsAreTrue, Fits,
           Shared, EnginesWorkAlone
  <2>3. CASE job[w].data # file /\ job[w].store \notin Engines
    <3>1. crossed'
      BY <2>3, Zenon DEF Store!SetCache
    <3> QED
      BY <1>1, <2>3, <3>1
         DEF Store!SetCache, Store!Goto, Store!TypeOK, Store!Job, ReadsAreTrue, Fits,
             Shared, EnginesWorkAlone
  <2> QED BY <2>1, <2>2, <2>3
<1>8. MutationsAddUp'
  <2>1. CASE job[w].data = file
    BY <1>1, <2>1
       DEF Store!SetCache, Store!Goto, Store!TypeOK, Store!Job, MutationsAddUp, AddsUp,
           Mutates, Fits, Shared, EnginesWorkAlone
  <2>2. CASE job[w].data # file /\ job[w].store \in Engines
    BY <1>1, <2>2
       DEF Store!SetCache, Store!Goto, Store!TypeOK, Store!Job, MutationsAddUp, AddsUp,
           Mutates, Fits, Shared, EnginesWorkAlone
  <2>3. CASE job[w].data # file /\ job[w].store \notin Engines
    <3>1. crossed'
      BY <2>3, Zenon DEF Store!SetCache
    <3> QED
      BY <1>1, <2>3, <3>1
         DEF Store!SetCache, Store!Goto, Store!TypeOK, Store!Job, MutationsAddUp, AddsUp,
             Mutates, Fits, Shared, EnginesWorkAlone
  <2> QED BY <2>1, <2>2, <2>3
<1>9. LoadsAreCurrent'
  BY <1>1
     DEF Store!SetCache, Store!Goto, Store!TypeOK, Store!Job, LoadsAreCurrent, IsCurrent,
         Mutates, EnginesWorkAlone
<1>10. LedgerIsFile'
  BY <1>1 DEF Store!SetCache, Store!Goto, LedgerIsFile
<1> QED BY <1>4, <1>5, <1>6, <1>7, <1>8, <1>9, <1>10 DEF LedgerIsFile

LEMMA SetStampKeeps ==
  ASSUME Store!StoreAssumption, StoreInv, Store!TypeOK', NEW w \in Workers,
         Store!SetStamp(w)
  PROVE  StoreInv'
<1> USE DEF Store!past, StoreInv, Facts
<1>1. Facts
  BY StoreFacts
<1>4. LockIsHeld'
  BY <1>1
     DEF Store!SetStamp, Store!Loaded, Store!Goto, LockIsHeld, LoadLines, MutateLines,
         Mutates
<1>5. EnginesWorkAlone'
  BY <1>1 DEF Store!SetStamp, Store!Loaded, Store!Goto, EnginesWorkAlone
<1>6. StampsAreTrue'
  BY <1>1 DEF Store!SetStamp, StampsAreTrue, Fits, ReadsAreTrue
<1>7. ReadsAreTrue'
  BY <1>1
     DEF Store!SetStamp, Store!Loaded, Store!Goto, Store!TypeOK, Store!Job, ReadsAreTrue,
         Fits, Shared, EnginesWorkAlone
<1>8. MutationsAddUp'
  BY <1>1
     DEF Store!SetStamp, Store!Loaded, Store!Goto, MutationsAddUp, AddsUp, Mutates, Fits,
         Shared
<1>9. LoadsAreCurrent'
  BY <1>1
     DEF Store!SetStamp, Store!Loaded, Store!Goto, LoadsAreCurrent, IsCurrent, Mutates
<1>10. LedgerIsFile'
  BY <1>1 DEF Store!SetStamp, Store!Loaded, Store!Goto, LedgerIsFile
<1> QED BY <1>4, <1>5, <1>6, <1>7, <1>8, <1>9, <1>10 DEF LedgerIsFile

LEMMA DoneKeeps ==
  ASSUME Store!StoreAssumption, StoreInv, Store!TypeOK', NEW w \in Workers,
         Store!Done(w)
  PROVE  StoreInv'
<1> USE DEF Store!past, StoreInv, Facts
<1>1. Facts
  BY StoreFacts
<1>4. LockIsHeld'
  BY <1>1 DEF Store!Done, LockIsHeld, LoadLines, MutateLines, Mutates
<1>5. EnginesWorkAlone'
  BY <1>1 DEF Store!Done, EnginesWorkAlone
<1>6. StampsAreTrue'
  BY <1>1 DEF Store!Done, StampsAreTrue, Fits, Shared
<1>7. ReadsAreTrue'
  BY <1>1 DEF Store!Done, ReadsAreTrue, Fits, Shared
<1>8. MutationsAddUp'
  BY <1>1 DEF Store!Done, MutationsAddUp, AddsUp, Mutates, Fits, Shared
<1>9. LoadsAreCurrent'
  BY <1>1 DEF Store!Done, LoadsAreCurrent, IsCurrent, Mutates
<1>10. LedgerIsFile'
  BY <1>1 DEF Store!Done, LedgerIsFile
<1> QED BY <1>4, <1>5, <1>6, <1>7, <1>8, <1>9, <1>10 DEF LedgerIsFile

LEMMA CopyKeeps ==
  ASSUME Store!StoreAssumption, StoreInv, Store!TypeOK', NEW w \in Workers,
         Store!Copy(w)
  PROVE  StoreInv'
<1> USE DEF Store!past, StoreInv, Facts
<1>1. Facts
  BY StoreFacts
<1>4. LockIsHeld'
  BY <1>1 DEF Store!Copy, LockIsHeld, LoadLines, MutateLines, Mutates
<1>5. EnginesWorkAlone'
  BY <1>1 DEF Store!Copy, EnginesWorkAlone
<1>6. StampsAreTrue'
  BY <1>1 DEF Store!Copy, StampsAreTrue, Fits, Shared
<1>7. ReadsAreTrue'
  BY <1>1 DEF Store!Copy, ReadsAreTrue, Fits, Shared
<1>8. MutationsAddUp'
  BY <1>1 DEF Store!Copy, MutationsAddUp, AddsUp, Mutates, Fits, Shared
<1>9. LoadsAreCurrent'
  BY <1>1 DEF Store!Copy, LoadsAreCurrent, IsCurrent, Mutates
<1>10. LedgerIsFile'
  BY <1>1 DEF Store!Copy, LedgerIsFile
<1> QED BY <1>4, <1>5, <1>6, <1>7, <1>8, <1>9, <1>10 DEF LedgerIsFile

LEMMA ReplaceKeeps ==
  ASSUME Store!StoreAssumption, StoreInv, Store!TypeOK', NEW w \in Workers,
         Store!Replace(w)
  PROVE  StoreInv'
<1> USE DEF Store!past, StoreInv, Facts
<1>1. Facts
  BY StoreFacts
<1>4. LockIsHeld'
  BY <1>1 DEF Store!Replace, Store!Apply, LockIsHeld, LoadLines, MutateLines, Mutates
<1>5. EnginesWorkAlone'
  BY <1>1 DEF Store!Replace, Store!Apply, EnginesWorkAlone
<1>6. StampsAreTrue'
  BY <1>1
     DEF Store!Replace, Store!Apply, Store!TypeOK, Store!Job, StampsAreTrue, Fits, Shared
<1>7. ReadsAreTrue'
  BY <1>1 DEF Store!Replace, Store!Apply, ReadsAreTrue, Fits, Shared
<1>8. MutationsAddUp'
  <2>1. job'[w].data = file' /\ job'[w].line = "adopt"
    BY <1>1 DEF Store!Replace, Store!Job
  <2>2. \A v \in Workers \ {w} : ~Mutates(v) \/ job[v].line = "locking"
    BY DEF Store!Replace, LockIsHeld, MutateLines, LoadLines, Mutates
  <2>3. \A v \in Workers \ {w} : job'[v].op = job[v].op /\ job'[v].line = job[v].line
    BY <1>1 DEF Store!Replace, Store!Job
  <2> QED BY <2>1, <2>2, <2>3 DEF MutationsAddUp, AddsUp, Mutates
<1>9. LoadsAreCurrent'
  BY <1>1 DEF Store!Replace, LoadsAreCurrent, IsCurrent, Mutates, LockIsHeld, LoadLines
<1>10. LedgerIsFile'
  BY <1>1 DEF Store!Replace, LedgerIsFile, LockIsHeld, LoadLines, MutationsAddUp, AddsUp
<1> QED BY <1>4, <1>5, <1>6, <1>7, <1>8, <1>9, <1>10 DEF LedgerIsFile

LEMMA WriteFailsKeeps ==
  ASSUME Store!StoreAssumption, StoreInv, Store!TypeOK', NEW w \in Workers,
         Store!WriteFails(w)
  PROVE  StoreInv'
<1> USE DEF Store!past, StoreInv, Facts
<1>1. Facts
  BY StoreFacts
<1>4. LockIsHeld'
  BY <1>1 DEF Store!WriteFails, Store!Goto, LockIsHeld, LoadLines, MutateLines, Mutates
<1>5. EnginesWorkAlone'
  BY <1>1 DEF Store!WriteFails, Store!Goto, EnginesWorkAlone
<1>6. StampsAreTrue'
  BY <1>1 DEF Store!WriteFails, Store!Goto, StampsAreTrue, Fits, Shared
<1>7. ReadsAreTrue'
  BY <1>1 DEF Store!WriteFails, Store!Goto, ReadsAreTrue, Fits, Shared
<1>8. MutationsAddUp'
  BY <1>1 DEF Store!WriteFails, Store!Goto, MutationsAddUp, AddsUp, Mutates, Fits, Shared
<1>9. LoadsAreCurrent'
  BY <1>1 DEF Store!WriteFails, Store!Goto, LoadsAreCurrent, IsCurrent, Mutates
<1>10. LedgerIsFile'
  BY <1>1 DEF Store!WriteFails, Store!Goto, LedgerIsFile
<1> QED BY <1>4, <1>5, <1>6, <1>7, <1>8, <1>9, <1>10 DEF LedgerIsFile

LEMMA AdoptKeeps ==
  ASSUME Store!StoreAssumption, StoreInv, Store!TypeOK', NEW w \in Workers,
         Store!Adopt(w)
  PROVE  StoreInv'
<1> USE DEF Store!past, StoreInv, Facts
<1>1. Facts
  BY StoreFacts
<1>4. LockIsHeld'
  BY <1>1 DEF Store!Adopt, Store!Goto, LockIsHeld, LoadLines, MutateLines, Mutates
<1>5. EnginesWorkAlone'
  BY <1>1 DEF Store!Adopt, Store!Goto, EnginesWorkAlone
<1>6. StampsAreTrue'
  BY <1>1
     DEF Store!Adopt, StampsAreTrue, Fits, LockIsHeld, LoadLines, MutationsAddUp, AddsUp
<1>7. ReadsAreTrue'
  BY <1>1
     DEF Store!Adopt, Store!Goto, ReadsAreTrue, Fits, LockIsHeld, LoadLines,
         MutationsAddUp, AddsUp
<1>8. MutationsAddUp'
  BY <1>1
     DEF Store!Adopt, Store!Goto, Store!TypeOK, Store!Job, MutationsAddUp, AddsUp,
         Mutates, Fits, Shared, LockIsHeld, LoadLines, MutateLines
<1>9. LoadsAreCurrent'
  BY <1>1
     DEF Store!Adopt, Store!Goto, Store!TypeOK, Store!Job, LoadsAreCurrent, IsCurrent,
         Mutates, EnginesWorkAlone
<1>10. LedgerIsFile'
  BY <1>1 DEF Store!Adopt, Store!Goto, LedgerIsFile
<1> QED BY <1>4, <1>5, <1>6, <1>7, <1>8, <1>9, <1>10 DEF LedgerIsFile

LEMMA RestampKeeps ==
  ASSUME Store!StoreAssumption, StoreInv, Store!TypeOK', NEW w \in Workers,
         Store!Restamp(w)
  PROVE  StoreInv'
<1> USE DEF Store!past, StoreInv, Facts
<1>1. Facts
  BY StoreFacts
<1>4. LockIsHeld'
  BY <1>1 DEF Store!Restamp, Store!Goto, LockIsHeld, LoadLines, MutateLines, Mutates
<1>5. EnginesWorkAlone'
  BY <1>1 DEF Store!Restamp, Store!Goto, EnginesWorkAlone
<1>6. StampsAreTrue'
  BY <1>1
     DEF Store!Restamp, StampsAreTrue, Fits, LockIsHeld, LoadLines, MutationsAddUp, AddsUp
<1>7. ReadsAreTrue'
  BY <1>1
     DEF Store!Restamp, Store!Goto, Store!TypeOK, Store!Job, ReadsAreTrue, Fits, Shared,
         EnginesWorkAlone
<1>8. MutationsAddUp'
  BY <1>1 DEF Store!Restamp, Store!Goto, MutationsAddUp, AddsUp, Mutates, Fits, Shared
<1>9. LoadsAreCurrent'
  BY <1>1 DEF Store!Restamp, Store!Goto, LoadsAreCurrent, IsCurrent, Mutates
<1>10. LedgerIsFile'
  BY <1>1 DEF Store!Restamp, Store!Goto, LedgerIsFile
<1> QED BY <1>4, <1>5, <1>6, <1>7, <1>8, <1>9, <1>10 DEF LedgerIsFile

LEMMA UnlockKeeps ==
  ASSUME Store!StoreAssumption, StoreInv, Store!TypeOK', NEW w \in Workers,
         Store!Unlock(w)
  PROVE  StoreInv'
<1> USE DEF Store!past, StoreInv, Facts
<1>1. Facts
  BY StoreFacts
<1>4. LockIsHeld'
  BY <1>1 DEF Store!Unlock, LockIsHeld, LoadLines, MutateLines, Mutates
<1>5. EnginesWorkAlone'
  BY <1>1 DEF Store!Unlock, EnginesWorkAlone
<1>6. StampsAreTrue'
  BY <1>1 DEF Store!Unlock, StampsAreTrue, Fits, Shared
<1>7. ReadsAreTrue'
  BY <1>1 DEF Store!Unlock, ReadsAreTrue, Fits, Shared
<1>8. MutationsAddUp'
  BY <1>1 DEF Store!Unlock, MutationsAddUp, AddsUp, Mutates, Fits, Shared
<1>9. LoadsAreCurrent'
  BY <1>1 DEF Store!Unlock, LoadsAreCurrent, IsCurrent, Mutates
<1>10. LedgerIsFile'
  BY <1>1 DEF Store!Unlock, LedgerIsFile
<1> QED BY <1>4, <1>5, <1>6, <1>7, <1>8, <1>9, <1>10 DEF LedgerIsFile

LEMMA BeginKeeps ==
  ASSUME Store!StoreAssumption, StoreInv, Store!TypeOK', NEW w \in Workers,
         Store!Begin(w)
  PROVE  StoreInv'
<1> USE DEF Store!past, StoreInv, Facts
<1>1. Facts
  BY StoreFacts
<1> DEFINE Began(s, op, line) ==
        /\ job[w].line = "free" /\ Store!Available(s)
        /\ op = "load" <=> line = "stat"
        /\ job'[w].line = line /\ job'[w].store = s /\ job'[w].op = op /\ job'[w].saw = 0
        /\ job'[w].seen = {file}
        /\ \A v \in Workers \ {w} : job'[v] = job[v]
        /\ UNCHANGED <<file, mtime, lock, cache, stamp, Store!past>>
<1>a. \E s \in Stores, op \in {"load", "grant", "revoke"}, line \in {"stat", "locking"} :
         Began(s, op, line)
  <2>0. /\ job \in [Workers -> Store!Job]
        /\ Store!Free = [line |-> Store!Free.line, store |-> Store!Free.store,
                          op |-> Store!Free.op, grant |-> Store!Free.grant,
                          saw |-> Store!Free.saw, data |-> Store!Free.data,
                          seen |-> Store!Free.seen]
    BY <1>1 DEF Store!Free
  <2>1. ASSUME NEW s \in Stores, Store!BeginLoad(w, s) PROVE Began(s, "load", "stat")
    BY <1>1, <2>0, <2>1 DEF Store!BeginLoad
  <2>2. ASSUME NEW s \in Stores, NEW op \in {"grant", "revoke"}, NEW g \in Grants,
               Store!BeginMutate(w, s, op, g)
        PROVE  Began(s, op, "locking")
    BY <1>1, <2>0, <2>2 DEF Store!BeginMutate
  <2> QED
    BY <2>1, <2>2 DEF Store!Begin
<1>b. PICK s \in Stores, op \in {"load", "grant", "revoke"}, line \in {"stat", "locking"} :
         Began(s, op, line)
  BY <1>a
<1>4. LockIsHeld'
  BY <1>1, <1>b DEF Store!Available, LockIsHeld, LoadLines, MutateLines, Mutates
<1>5. EnginesWorkAlone'
  BY <1>1, <1>b DEF Store!Available, EnginesWorkAlone
<1>6. StampsAreTrue'
  BY <1>1, <1>b DEF Store!Available, StampsAreTrue, Fits, Shared
<1>7. ReadsAreTrue'
  BY <1>1, <1>b DEF Store!Available, ReadsAreTrue, Fits, Shared
<1>8. MutationsAddUp'
  BY <1>1, <1>b DEF Store!Available, MutationsAddUp, AddsUp, Mutates, Fits, Shared
<1>9. LoadsAreCurrent'
  BY <1>1, <1>b DEF Store!Available, LoadsAreCurrent, IsCurrent, Mutates
<1>10. LedgerIsFile'
  BY <1>1, <1>b DEF Store!Available, LedgerIsFile
<1> QED BY <1>4, <1>5, <1>6, <1>7, <1>8, <1>9, <1>10 DEF LedgerIsFile

LEMMA StoreInit == ASSUME Store!StoreAssumption, Store!Init PROVE StoreInv
<1> USE DEF Store!Init
<1>1. Store!Free \in Store!Job /\ Store!Free.line = "free" /\ Store!Free.op = "load" /\ Store!Free.saw = 0
  BY FreeIs
<1>2. Store!TypeOK
  <2>1. 0 \in 0..MaxWrites
    BY DEF Store!StoreAssumption
  <2> QED BY <1>1, <2>1 DEF Store!TypeOK
<1> QED
  BY <1>1, <1>2
     DEF StoreInv, LockIsHeld, LoadLines, EnginesWorkAlone, StampsAreTrue, ReadsAreTrue,
     MutationsAddUp, AddsUp, LoadsAreCurrent, IsCurrent, Mutates

LEMMA StoreStep ==
  ASSUME Store!StoreAssumption, StoreInv, [Store!Next]_approvalVars PROVE StoreInv'
<1>1. Store!TypeOK'
  BY StoreTypes DEF StoreInv
<1>2. ASSUME NEW w \in Workers, Store!Begin(w) PROVE StoreInv'
  BY <1>1, <1>2, BeginKeeps
<1>3. ASSUME NEW w \in Workers, Store!Step(w) PROVE StoreInv'
  BY <1>1, <1>3, LockKeeps, DropKeeps, StatKeeps, ReadKeeps, SetCacheKeeps, SetStampKeeps,
     DoneKeeps,
     CopyKeeps, ReplaceKeeps, WriteFailsKeeps, AdoptKeeps, RestampKeeps, UnlockKeeps DEF Store!Step
<1>4. CASE UNCHANGED approvalVars
  BY <1>1, <1>4
     DEF approvalVars, StoreInv, LockIsHeld, EnginesWorkAlone, StampsAreTrue,
         ReadsAreTrue,
     MutationsAddUp, AddsUp, LoadsAreCurrent, IsCurrent, Mutates, Fits
<1> QED
  BY <1>2, <1>3, <1>4 DEF Store!Next

(* No writer of the shared file of permanent approvals undoes another      *)
(* one's write, unless a load has put an old content over the cache of a   *)
(* store that threads share, and an engine's check uses a content the file *)
(* had while it was at it (ApprovalStore).                                 *)
THEOREM EnginesGrantsAreCurrent == Spec => []GrantsAreCurrent
<1>1. Store!StoreAssumption
  BY PartsAssumption
<1>2. Init => StoreInv
  BY <1>1, StoreInit DEF Init
<1>3. StoreInv /\ [Next]_<<part, turnVars, compactVars, permitVars, approvalVars, logVars,
                           idVars>>
        => StoreInv'
  <2>1. [Next]_<<part, turnVars, compactVars, permitVars, approvalVars, logVars, idVars>>
          => [Store!Next]_approvalVars
    BY DEF Next, TurnStep, CompactStep, PermitStep, ApprovalStep, LogStep, IdStep
  <2> QED
    BY <1>1, <2>1, StoreStep
<1>4. StoreInv => GrantsAreCurrent
  BY 
     DEF StoreInv, GrantsAreCurrent, Store!GrantsAreCurrent, LoadsAreCurrent, IsCurrent,
         LockIsHeld,
         MutateLines, Mutates
<1> QED
  BY <1>2, <1>3, <1>4, PTL DEF Spec

-----------------------------------------------------------------------------
(* Compaction.  What holds of the session in memory holds of the one on    *)
(* disk, which was the one in memory when it was saved.                    *)

(* Of messages and a state that was reached with them, when `cov` has been *)
(* accounted for: the boundary is before a message that is no result, all  *)
(* that it leaves out is accounted for, the user's words one by one.       *)
Sound(ms, s, cov) ==
  /\ s.boundary <= Len(ms)
  /\ s.boundary > 0 => s.boundary < Len(ms) /\ ms[s.boundary + 1].role # "tool"
  /\ \A i \in 1..s.boundary : ms[i] \in cov
  /\ Len(s.users) + s.dropped = Len(Kept(SubSeq(ms, 1, s.boundary), Compact!FromUser))

CompactInv ==
  /\ Compact!TypeOK
  /\ messages # <<>> /\ disk.messages # <<>>
  /\ ~shifted => Sound(messages, state, covered)
                   /\ Sound(disk.messages, disk.state, covered)

Heads == {"user", "text", "call"}

LEMMA LeastIs ==
  ASSUME NEW P \in SUBSET Nat, P # {}
  PROVE  Compact!Least(P) \in P /\ \A y \in P : Compact!Least(P) <= y
<1>1. PICK n \in P : TRUE
  OBVIOUS
<1>2. \E m \in P : \A k \in P : m <= k
  BY <1>1, LeastNumber
<1> QED
  BY <1>2 DEF Compact!Least

LEMMA GreatestIs ==
  ASSUME NEW n \in Nat, NEW P \in SUBSET (1..n), P # {}
  PROVE  Compact!Greatest(P) \in P
<1> DEFINE Down == {n - k : k \in P}
<1>1. PICK p \in P : TRUE
  OBVIOUS
<1>2. Down \in SUBSET Nat /\ n - p \in Down
  BY <1>1
<1>3. PICK m \in Down : \A k \in Down : m <= k
  <2> HIDE DEF Down
  <2> QED BY <1>2, LeastNumber
<1>4. PICK g \in P : m = n - g
  BY <1>3
<1>5. \A k \in P : k <= g
  <2> SUFFICES ASSUME NEW k \in P PROVE k <= g
    OBVIOUS
  <2>1. n - g <= n - k
    BY <1>3, <1>4
  <2>2. n \in Nat /\ g \in Nat /\ k \in Nat
    OBVIOUS
  <2> QED BY <2>1, <2>2
<1> QED
  BY <1>4, <1>5 DEF Compact!Greatest

(* pick_boundary: a place before a user's message or a reply.              *)
LEMMA PickIs ==
  ASSUME NEW ms \in Seq(Compact!Message), Compact!PickBoundary(ms) # 0
  PROVE  Compact!PickBoundary(ms) \in Compact!Before(ms, Heads)
<1> DEFINE U == Compact!Before(ms, {"user"})
           R == Compact!Before(ms, {"text", "call"})
           I == {b \in R : U # {} /\ b > Compact!Greatest(U)}
           O == IF U # {} THEN I ELSE R
           n == Len(ms)
           H == Compact!Before(ms, Heads)
<1>1. n \in Nat
  OBVIOUS
<1>2. U \subseteq H /\ R \subseteq H /\ H \subseteq 1..n
  BY <1>1 DEF Compact!Before, Heads
<1>3. I \subseteq R /\ O \subseteq H
  BY <1>2
<1> HIDE DEF U, R, I, O, n, H
<1>4. ASSUME NEW P \in SUBSET H
      PROVE  /\ Compact!Fitting(ms, P) # {} => Compact!Least(Compact!Fitting(ms, P)) \in H
             /\ P # {} => Compact!Greatest(P) \in H
  <2>0. Compact!Fitting(ms, P) \subseteq P
    BY DEF Compact!Fitting
  <2>2. P \in SUBSET (1..n)
    BY <1>2
  <2>1. Compact!Fitting(ms, P) \in SUBSET Nat /\ Compact!Fitting(ms, P) \subseteq P
    <3>1. P \subseteq Nat
      BY <1>1, <2>2
    <3> QED BY <2>0, <3>1, Zenon
  <2> QED BY <1>1, <2>1, <2>2, LeastIs, GreatestIs
<1> DEFINE B == IF Compact!Fitting(ms, U) # {} THEN Compact!Least(Compact!Fitting(ms, U))
                ELSE IF Compact!Fitting(ms, O) # {} THEN Compact!Least(Compact!Fitting(ms, O))
                ELSE IF O # {} THEN Compact!Greatest(O)
                ELSE IF U # {} THEN Compact!Greatest(U) ELSE 0
<1>5. B \in H \cup {0}
  BY <1>2, <1>3, <1>4
<1>6. Compact!PickBoundary(ms) = IF B <= 1 THEN 0 ELSE B
  BY DEF Compact!PickBoundary, U, R, I, O
<1> HIDE DEF B
<1> QED
  BY <1>5, <1>6 DEF H

(* trim_state: such a place past the boundary. *)
LEMMA TrimIs ==
  ASSUME Compact!TypeOK, Compact!TrimBoundary # 0
  PROVE  /\ Compact!TrimBoundary \in Compact!Before(messages, Heads)
         /\ Compact!TrimBoundary > state.boundary
<1> DEFINE r == Len(messages) - state.boundary
           m == Compact!Max({1, r \div 10})
           H == Compact!Before(messages, Heads)
           P == {b \in H : b >= state.boundary + m}
<1>1. messages \in Seq(Compact!Message) /\ state.boundary \in Nat /\ Len(messages) \in Nat
  BY DEF Compact!TypeOK, Compact!StateRecord
<1>2. H \subseteq Nat
  BY <1>1 DEF Compact!Before
<1>3. m \in Int /\ m >= 1
  <2>1. r \div 10 \in Int
    BY <1>1
  <2>2. \A x \in Int : x >= 1 \/ 1 >= x
    OBVIOUS
  <2>3. \E x \in {1, r \div 10} : \A y \in {1, r \div 10} : x >= y
    BY <2>1, <2>2
  <2> QED BY <2>1, <2>3 DEF Compact!Max
<1> HIDE DEF m, r, H
<1>4. Compact!TrimBoundary = IF r <= 2 \/ P = {} THEN 0 ELSE Compact!Least(P)
  BY DEF Compact!TrimBoundary, r, m, H, Heads
<1>5. P # {} /\ Compact!TrimBoundary = Compact!Least(P)
  BY <1>4
<1>6. P \in SUBSET Nat
  BY <1>2
<1>7. Compact!Least(P) \in P
  BY <1>5, <1>6, LeastIs
<1>8. Compact!TrimBoundary \in H /\ Compact!TrimBoundary >= state.boundary + m
  BY <1>5, <1>7
<1> QED
  BY <1>1, <1>2, <1>3, <1>8 DEF H

LEMMA SaidIs ==
  ASSUME NEW q \in Seq(Compact!Message)
  PROVE  /\ Compact!Said(q) \in Seq(Nat)
         /\ Len(Compact!Said(q)) = Len(Kept(q, Compact!FromUser))
<1>1. Compact!Kept(q, Compact!FromUser) = Kept(q, Compact!FromUser)
  BY DEF Compact!Kept, Kept
<1> DEFINE k == Kept(q, Compact!FromUser)
<1>2. k \in Seq(Compact!Message)
  BY KeptInSeq
<1>3. Compact!Said(q) = [i \in DOMAIN k |-> k[i].n]
  BY <1>1 DEF Compact!Said
<1> HIDE DEF k
<1>4. \A i \in 1..Len(k) : k[i].n \in Nat
  <2>1. \A i \in 1..Len(k) : k[i] \in Compact!Message
    BY <1>2
  <2> QED BY <2>1 DEF Compact!Message
<1> QED
  BY <1>2, <1>3, <1>4 DEF k

(* A compaction: the span from the boundary to a place past it. *)
LEMMA MoveIsSound ==
  ASSUME Compact!CompactionAssumption,
         NEW ms \in Seq(Compact!Message), NEW s \in Compact!StateRecord,
         NEW cov, NEW b \in Compact!Before(ms, Heads), b > s.boundary,
         NEW q, q = SubSeq(ms, s.boundary + 1, b)
  PROVE  /\ q \in Seq(Compact!Message)
         /\ Compact!UsersAfter(s, q) \in Compact!StateRecord
         /\ Compact!UsersAfter(s, q).boundary = b
         /\ Sound(ms, s, cov) => Sound(ms, Compact!UsersAfter(s, q), cov \cup Compact!ToSet(q))
<1> DEFINE a == s.boundary
           all == s.users \o Compact!Said(q)
           over == IF Len(all) > UsersMax THEN Len(all) - UsersMax ELSE 0
           t == Compact!UsersAfter(s, q)
           F == Compact!FromUser
<1>1. a \in Nat /\ s.users \in Seq(Nat) /\ s.dropped \in Nat /\ UsersMax \in Nat
  BY DEF Compact!StateRecord, Compact!CompactionAssumption
<1>2. b \in 1..(Len(ms) - 1) /\ Len(ms) \in Nat /\ ms[b + 1].role \in Heads
  BY DEF Compact!Before
<1>3. q \in Seq(Compact!Message) /\ Len(q) = b - a
        /\ \A i \in 1..(b - a) : q[i] = ms[a + i]
  <2>1. a \in 0..Len(ms) /\ b \in a..Len(ms)
    BY <1>1, <1>2
  <2> QED BY <2>1, SubSeqIs
<1>4. Compact!Said(q) \in Seq(Nat) /\ Len(Compact!Said(q)) = Len(Kept(q, F))
  BY <1>3, SaidIs
<1>5. all \in Seq(Nat) /\ Len(all) = Len(s.users) + Len(Kept(q, F))
        /\ Len(s.users) \in Nat /\ Len(Kept(q, F)) \in Nat
  <2>1. \A u, w \in Seq(Nat) : /\ u \o w \in Seq(Nat) /\ Len(u \o w) = Len(u) + Len(w)
                              /\ Len(u) \in Nat /\ Len(w) \in Nat
    OBVIOUS
  <2> QED BY <1>1, <1>4, <2>1, Zenon
<1> HIDE DEF all, F
<1>6. over \in Nat /\ over <= Len(all) /\ Len(all) \in Nat
  <2>0. all \in Seq(Nat)
    BY <1>5
  <2>1. Len(all) \in Nat
    BY ONLY <2>0
  <2>2. UsersMax \in Nat
    BY <1>1
  <2> QED BY ONLY <2>1, <2>2
<1> HIDE DEF over
<1>7. SubSeq(all, over + 1, Len(all)) \in Seq(Nat)
        /\ Len(SubSeq(all, over + 1, Len(all))) = Len(all) - over
  <2>1. over \in 0..Len(all) /\ Len(all) \in over..Len(all)
    BY <1>6
  <2> QED BY <1>5, <2>1, SubSeqIs
<1>8. t = [boundary |-> a + Len(q), users |-> SubSeq(all, over + 1, Len(all)),
           dropped |-> s.dropped + over]
  BY DEF Compact!UsersAfter, all, over
<1> DEFINE cut == SubSeq(all, over + 1, Len(all))
<1> HIDE DEF cut, t
<1>9. t.boundary = b /\ t \in Compact!StateRecord
  <2>1. a + Len(q) = b /\ b \in Nat
    BY <1>1, <1>2, <1>3
  <2>2. s.dropped + over \in Nat
    BY <1>1, <1>6
  <2>3. t = [boundary |-> b, users |-> cut, dropped |-> s.dropped + over]
    BY <1>8, <2>1 DEF cut
  <2>4. cut \in Seq(Nat)
    BY <1>7 DEF cut
  <2> QED BY <2>1, <2>2, <2>3, <2>4 DEF Compact!StateRecord
<1>10. Len(t.users) + t.dropped = Len(s.users) + s.dropped + Len(Kept(q, F))
  <2>1. t.users = cut /\ Len(cut) = Len(all) - over /\ t.dropped = s.dropped + over
    <3>1. t.users = cut /\ t.dropped = s.dropped + over
      BY <1>8 DEF cut
    <3>2. Len(cut) = Len(all) - over
      BY <1>7 DEF cut
    <3> QED BY <3>1, <3>2
  <2>2. Len(s.users) \in Nat /\ Len(Kept(q, F)) \in Nat /\ s.dropped \in Nat /\ over \in Nat
          /\ Len(all) = Len(s.users) + Len(Kept(q, F))
    BY <1>1, <1>5, <1>6
  <2> QED BY ONLY <2>1, <2>2
<1> HIDE DEF a
<1>11. ASSUME Sound(ms, s, cov) PROVE Sound(ms, t, cov \cup Compact!ToSet(q))
  <2>1. a <= Len(ms) /\ \A i \in 1..a : ms[i] \in cov
    BY <1>11 DEF Sound, a
  <2>2. \A i \in 1..b : ms[i] \in cov \cup Compact!ToSet(q)
    <3> SUFFICES ASSUME NEW i \in 1..b, ~(i <= a) PROVE ms[i] \in Compact!ToSet(q)
      BY <1>1, <2>1
    <3>1. i - a \in 1..(b - a) /\ a + (i - a) = i
      BY <1>1, <1>2
    <3>2. i - a \in DOMAIN q /\ q[i - a] = ms[i]
      BY <1>3, <3>1
    <3> QED BY <3>2 DEF Compact!ToSet
  <2>3. SubSeq(ms, 1, b) = SubSeq(ms, 1, a) \o q
    <3>1. 1 \in 1..(Len(ms)+1) /\ a \in (1-1)..Len(ms) /\ b \in a..Len(ms)
      BY <1>1, <1>2, <2>1 DEF a
    <3>2. SubSeq(ms, 1, a) \o SubSeq(ms, a + 1, b) = SubSeq(ms, 1, b)
      BY ONLY <3>1, ms \in Seq(Compact!Message), ConcatAdjacentSubSeq
    <3> QED BY <3>2 DEF a
  <2>4. Kept(SubSeq(ms, 1, b), F) = Kept(SubSeq(ms, 1, a), F) \o Kept(q, F)
    <3>1. SubSeq(ms, 1, a) \in Seq(Compact!Message)
      <4>1. a \in 0..Len(ms)
        BY <1>1, <1>2, <2>1
      <4> QED BY <4>1, SeqSplit
    <3>2. q \in Seq(Compact!Message)
      BY <1>3
    <3>3. Kept(SubSeq(ms, 1, a) \o q, F) = Kept(SubSeq(ms, 1, a), F) \o Kept(q, F)
      <4>1. \A x, y \in Seq(Compact!Message) : Kept(x \o y, F) = Kept(x, F) \o Kept(y, F)
        BY KeptConcat
      <4> QED BY <3>1, <3>2, <4>1, Zenon
    <3> QED BY <2>3, <3>3
  <2>5. Len(Kept(SubSeq(ms, 1, b), F)) = Len(Kept(SubSeq(ms, 1, a), F)) + Len(Kept(q, F))
    <3>1. SubSeq(ms, 1, a) \in Seq(Compact!Message)
      <4>1. a \in 0..Len(ms)
        BY <1>1, <1>2, <2>1
      <4> QED BY <4>1, SeqSplit
    <3>2. Kept(SubSeq(ms, 1, a), F) \in Seq(Compact!Message)
            /\ Kept(q, F) \in Seq(Compact!Message)
      BY <1>3, <3>1, KeptInSeq
    <3> QED BY <2>4, <3>2
  <2>6. Len(s.users) + s.dropped = Len(Kept(SubSeq(ms, 1, a), F))
    BY <1>11 DEF Sound, a, F
  <2>7. Len(t.users) + t.dropped = Len(Kept(SubSeq(ms, 1, b), F))
    BY <1>10, <2>5, <2>6
  <2>8. b <= Len(ms) /\ b < Len(ms) /\ ms[b + 1].role # "tool"
    BY <1>2 DEF Heads
  <2> QED BY <1>9, <2>2, <2>7, <2>8 DEF Sound, F
<1> QED
  BY <1>3, <1>9, <1>11 DEF t, a

(* A message more, and more accounted for. *)
LEMMA GrowthIsSound ==
  ASSUME NEW ms \in Seq(Compact!Message), NEW s \in Compact!StateRecord,
         NEW cov, NEW more, cov \subseteq more, NEW m \in Compact!Message, Sound(ms, s, cov)
  PROVE  Sound(ms, s, more) /\ Sound(Append(ms, m), s, more)
<1> DEFINE r == Append(ms, m)
           b == s.boundary
<1>1. r \in Seq(Compact!Message) /\ Len(r) = Len(ms) + 1 /\ Len(ms) \in Nat
        /\ \A i \in 1..Len(ms) : r[i] = ms[i]
  OBVIOUS
<1>2. b \in Nat /\ b <= Len(ms)
  BY DEF Compact!StateRecord, Sound
<1>3. SubSeq(r, 1, b) = SubSeq(ms, 1, b)
  BY <1>1, <1>2
<1> HIDE DEF r
<1>4. Sound(ms, s, more)
  BY DEF Sound
<1>5. b + 1 \in 1..Len(ms) \/ b = Len(ms)
  BY <1>1, <1>2
<1>6. \A i \in 1..b : i \in 1..Len(ms)
  BY <1>1, <1>2
<1>7. /\ b <= Len(r)
      /\ b > 0 => b < Len(r) /\ r[b + 1].role # "tool"
      /\ \A i \in 1..b : r[i] \in more
  <2>1. b > 0 => b < Len(ms) /\ ms[b + 1].role # "tool"
    BY DEF Sound
  <2>2. \A i \in 1..b : ms[i] \in more
    BY <1>4 DEF Sound
  <2> HIDE DEF b
  <2> QED BY <1>1, <1>2, <1>5, <1>6, <2>1, <2>2
<1>8. Sound(r, s, more)
  BY <1>3, <1>4, <1>7 DEF Sound
<1> QED
  BY <1>4, <1>8 DEF r

(* _repair_tool_pairing keeps what comes before the first lost call.       *)
LEMMA RepairIs ==
  ASSUME NEW ms \in Seq(Compact!Message)
  PROVE  /\ Compact!Repaired(ms) \in Seq(Compact!Message)
         /\ ms # <<>> => Compact!Repaired(ms) # <<>>
         /\ \A b \in 0..Len(ms) :
              (\A i \in 1..b : ~Compact!Lost(ms, i)) =>
                 /\ b <= Len(Compact!Repaired(ms))
                 /\ SubSeq(Compact!Repaired(ms), 1, b) = SubSeq(ms, 1, b)
                 /\ b < Len(ms) => /\ b < Len(Compact!Repaired(ms))
                                   /\ Compact!Repaired(ms)[b + 1] = ms[b + 1]
<1> DEFINE M == Compact!Message
           piece(i) == IF Compact!Lost(ms, i) THEN <<ms[i], Compact!Msg("tool", ms[i].n)>>
                                              ELSE <<ms[i]>>
           ss == [i \in DOMAIN ms |-> piece(i)]
           n == Len(ms)
           R == Compact!Repaired(ms)
<1>1. n \in Nat /\ DOMAIN ms = 1..n /\ \A i \in 1..n : ms[i] \in M
  OBVIOUS
<1>2. ASSUME NEW i \in 1..n
      PROVE  /\ piece(i) \in Seq(M) /\ Len(piece(i)) >= 1 /\ piece(i)[1] = ms[i]
             /\ ~Compact!Lost(ms, i) => piece(i) = <<ms[i]>>
  <2>1. ms[i] \in M
    BY <1>1
  <2>2. Compact!Msg("tool", ms[i].n) \in M
    BY <2>1 DEF Compact!Message, Compact!Msg, Compact!Roles
  <2> HIDE DEF M
  <2> QED BY <2>1, <2>2
<1> HIDE DEF piece
<1>3. R = FlattenSeq(ss)
  BY DEF Compact!Repaired, Compact!FlattenSeq, FlattenSeq, piece
<1>4. ss \in Seq(Seq(M)) /\ Len(ss) = n /\ \A i \in 1..n : ss[i] = piece(i)
  <2> DEFINE A == Seq(M)
  <2>1. \A i \in 1..n : piece(i) \in A
    BY <1>2
  <2> HIDE DEF A
  <2> QED BY <1>1, <2>1 DEF A
<1> HIDE DEF ss, R, M
<1>5. R \in Seq(M)
  BY <1>3, <1>4, FlatInSeq
<1>6. ASSUME NEW b \in 0..n, \A i \in 1..b : ~Compact!Lost(ms, i)
      PROVE  /\ b <= Len(R) /\ SubSeq(R, 1, b) = SubSeq(ms, 1, b)
             /\ b < n => b < Len(R) /\ R[b + 1] = ms[b + 1]
  <2> DEFINE p == SubSeq(ms, 1, b)
             q == FlattenSeq(SubSeq(ss, b + 1, n))
  <2>1. p \in Seq(M) /\ Len(p) = b /\ \A i \in 1..b : p[i] = ms[i]
    BY <1>1
  <2>2. SubSeq(ss, 1, b) = [i \in DOMAIN p |-> <<p[i]>>]
    <3>1. SubSeq(ss, 1, b) = [i \in 1..b |-> ss[i]]
      BY <1>4
    <3>2. \A i \in 1..b : ss[i] = <<ms[i]>>
      BY <1>1, <1>2, <1>4, <1>6
    <3> QED BY <2>1, <3>1, <3>2
  <2>3. FlattenSeq(SubSeq(ss, 1, b)) = p
    BY <2>1, <2>2, FlatSingles
  <2>4. R = p \o q /\ q \in Seq(M)
    BY <1>3, <1>4, <2>3, FlatSplit, FlatInSeq
  <2>5. b < n => Len(q) >= 1 /\ q[1] = ms[b + 1]
    <3> SUFFICES ASSUME b < n PROVE Len(q) >= 1 /\ q[1] = ms[b + 1]
      OBVIOUS
    <3> DEFINE rs == SubSeq(ss, b + 1, n)
    <3>1. rs \in Seq(Seq(M)) /\ Len(rs) = n - b /\ rs[1] = ss[b + 1]
      <4> DEFINE A == Seq(M)
      <4>1. ss \in Seq(A) /\ b \in 0..Len(ss) /\ n \in b..Len(ss)
        BY <1>1, <1>4
      <4> HIDE DEF A
      <4>2. rs \in Seq(A) /\ Len(rs) = n - b /\ \A i \in 1..(n - b) : rs[i] = ss[b + i]
        BY ONLY <4>1, SubSeqIs
      <4>3. 1 \in 1..(n - b)
        BY <1>1
      <4> QED BY <4>2, <4>3 DEF A
    <3> HIDE DEF rs
    <3>2. 1 \in DOMAIN rs
      BY <1>1, <3>1
    <3>3. b + 1 \in 1..n
      BY <1>1
    <3>4. rs[1] = piece(b + 1)
      BY <1>4, <3>1, <3>3
    <3>5. Len(rs[1]) >= 1 /\ rs[1][1] = ms[b + 1] /\ rs[1] \in Seq(M)
      BY <1>2, <3>3, <3>4
    <3>6. 1 \in DOMAIN rs[1]
      BY <3>5
    <3>7. Offset(rs, 1) + 1 \in DOMAIN FlattenSeq(rs)
            /\ FlattenSeq(rs)[Offset(rs, 1) + 1] = rs[1][1] /\ Offset(rs, 1) = 0
      BY <3>1, <3>2, <3>6, FlatPlaces
    <3>8. q = FlattenSeq(rs)
      BY DEF rs
    <3> QED BY <2>4, <3>5, <3>7, <3>8
  <2> HIDE DEF p, q
  <2>6. SubSeq(p \o q, 1, b) = p /\ b <= Len(p \o q)
          /\ (Len(q) >= 1 => b < Len(p \o q) /\ (p \o q)[b + 1] = q[1])
    BY <2>1, <2>4
  <2> QED BY <2>4, <2>5, <2>6 DEF p
<1>7. ms # <<>> => R # <<>>
  <2> SUFFICES ASSUME ms # <<>> PROVE R # <<>>
    OBVIOUS
  <2>1. 0 \in 0..n /\ 0 < n
    BY <1>1
  <2>2. 0 < Len(R)
    BY <1>6, <2>1
  <2> QED BY <2>2
<1> QED
  BY <1>5, <1>6, <1>7 DEF R, M

LEMMA RepairIsSound ==
  ASSUME NEW ms \in Seq(Compact!Message), NEW s \in Compact!StateRecord, NEW cov,
         Sound(ms, s, cov), \A i \in 1..s.boundary : ~Compact!Lost(ms, i)
  PROVE  Sound(Compact!Repaired(ms), s, cov)
<1> DEFINE b == s.boundary
           R == Compact!Repaired(ms)
<1>1. b \in 0..Len(ms) /\ b \in Nat
  BY DEF Sound, Compact!StateRecord
<1>2. /\ b <= Len(R) /\ SubSeq(R, 1, b) = SubSeq(ms, 1, b)
      /\ b < Len(ms) => b < Len(R) /\ R[b + 1] = ms[b + 1]
  BY <1>1, RepairIs
<1>3. R \in Seq(Compact!Message)
  BY RepairIs
<1> HIDE DEF R
<1>4. \A i \in 1..b : R[i] = ms[i]
  <2> SUFFICES ASSUME NEW i \in 1..b PROVE R[i] = ms[i]
    OBVIOUS
  <2>1. SubSeq(R, 1, b)[i] = R[i] /\ SubSeq(ms, 1, b)[i] = ms[i]
    BY <1>1, <1>2, <1>3
  <2> QED BY <1>2, <2>1
<1> QED
  BY <1>2, <1>4 DEF Sound, R

(* The invariant is kept, step by step.                                    *)
LEMMA CompactStarts == Compact!CompactionAssumption /\ Compact!Init => CompactInv
<1> SUFFICES ASSUME Compact!CompactionAssumption, Compact!Init PROVE CompactInv
  OBVIOUS
<1> USE DEF Compact!Init
<1> DEFINE m == Compact!Msg("system", 0)
<1>1. m \in Compact!Message
  BY DEF Compact!Msg, Compact!Message, Compact!Roles
<1> HIDE DEF m
<1>2. messages = <<m>> /\ disk = [messages |-> messages, state |-> Compact!NoState]
        /\ state = Compact!NoState
  BY DEF m
<1>3. messages \in Seq(Compact!Message) /\ Len(messages) = 1 /\ messages # <<>>
  BY <1>1, <1>2
<1>4. Compact!NoState \in Compact!StateRecord
  <2>1. <<>> \in Seq(Nat)
    OBVIOUS
  <2> QED BY <2>1 DEF Compact!NoState, Compact!StateRecord
<1>5. Compact!TypeOK
  <2>1. deaths \in 0..MaxCrashes
    BY DEF Compact!CompactionAssumption
  <2>2. disk \in [messages : Seq(Compact!Message), state : Compact!StateRecord]
    BY <1>2, <1>3, <1>4
  <2> QED BY <1>2, <1>3, <1>4, <2>1, <2>2 DEF Compact!TypeOK, Compact!Steps
<1>6. Sound(messages, Compact!NoState, covered)
  <2>1. SubSeq(messages, 1, 0) = <<>> /\ Len(<<>>) = 0
    BY <1>3
  <2>2. Len(Kept(SubSeq(messages, 1, 0), Compact!FromUser)) = 0
    BY <2>1, KeptEmpty
  <2> QED BY <1>3, <2>1, <2>2 DEF Sound, Compact!NoState
<1> QED
  BY <1>2, <1>3, <1>5, <1>6 DEF CompactInv

(* A step that appends a message and keeps the state.                      *)
LEMMA AppendKeeps ==
  ASSUME CompactInv, NEW m \in Compact!Message, messages' = Append(messages, m),
         UNCHANGED <<state, covered, shifted>>,
         \/ UNCHANGED disk
         \/ disk' = [messages |-> messages', state |-> state],
         step' \in Compact!Steps, serial' \in Nat, deaths' \in 0..MaxCrashes
  PROVE  CompactInv'
<1>1. /\ messages \in Seq(Compact!Message) /\ messages' \in Seq(Compact!Message)
      /\ messages' # <<>> /\ state \in Compact!StateRecord
  <2>1. messages \in Seq(Compact!Message) /\ state \in Compact!StateRecord
    BY DEF CompactInv, Compact!TypeOK
  <2>2. Append(messages, m) \in Seq(Compact!Message) /\ Append(messages, m) # <<>>
    BY <2>1
  <2> QED BY <2>1, <2>2
<1>2. /\ disk' \in [messages : Seq(Compact!Message), state : Compact!StateRecord]
      /\ disk'.messages # <<>>
  <2>1. CASE UNCHANGED disk
    BY <2>1 DEF CompactInv, Compact!TypeOK
  <2>2. CASE disk' = [messages |-> messages', state |-> state]
    BY <1>1, <2>2
  <2> QED BY <2>1, <2>2
<1>3. Compact!TypeOK'
  <2>1. state' = state /\ covered' = covered /\ shifted' = shifted
          /\ covered \subseteq Compact!Message /\ shifted \in BOOLEAN
    BY DEF CompactInv, Compact!TypeOK
  <2> QED
    BY <1>1, <1>2, <2>1
       DEF Compact!TypeOK, Compact!Steps, Compact!Message, Compact!StateRecord, Compact!Roles
<1>4. ASSUME ~shifted
      PROVE  Sound(messages', state, covered) /\ Sound(disk'.messages, disk'.state, covered)
  <2>1. Sound(messages, state, covered) /\ Sound(disk.messages, disk.state, covered)
    BY <1>4 DEF CompactInv
  <2>2. Sound(Append(messages, m), state, covered)
    BY <1>1, <2>1, GrowthIsSound
  <2>3. CASE UNCHANGED disk
    BY <2>1, <2>2, <2>3
  <2>4. CASE disk' = [messages |-> messages', state |-> state]
    BY <2>2, <2>4
  <2> QED BY <2>3, <2>4
<1> QED
  BY <1>1, <1>2, <1>3, <1>4 DEF CompactInv, Sound

(* A step that moves the boundary and appends a notice of it.              *)
LEMMA MoveKeeps ==
  ASSUME Compact!CompactionAssumption, CompactInv,
         NEW b \in Compact!Before(messages, Heads), b > state.boundary,
         Compact!MoveTo(b), Compact!Notice,
         UNCHANGED <<disk, shifted, deaths>>, step' \in Compact!Steps
  PROVE  CompactInv' /\ state'.boundary = b
<1> DEFINE q == SubSeq(messages, state.boundary + 1, b)
           m == Compact!Msg("notice", serial)
<1>1. /\ messages \in Seq(Compact!Message) /\ state \in Compact!StateRecord /\ serial \in Nat
      /\ covered \subseteq Compact!Message /\ shifted \in BOOLEAN /\ deaths \in 0..MaxCrashes
      /\ disk \in [messages : Seq(Compact!Message), state : Compact!StateRecord]
  BY DEF CompactInv, Compact!TypeOK
<1>2. m \in Compact!Message
  BY <1>1 DEF Compact!Msg, Compact!Message, Compact!Roles
<1>3. /\ state' = Compact!UsersAfter(state, q) /\ covered' = covered \cup Compact!ToSet(q)
      /\ messages' = Append(messages, m) /\ serial' = serial + 1
  BY DEF Compact!MoveTo, Compact!Notice
<1> HIDE DEF q, m
<1>4. /\ q \in Seq(Compact!Message)
      /\ state' \in Compact!StateRecord /\ state'.boundary = b
      /\ Sound(messages, state, covered) => Sound(messages, state', covered')
  <2>1. /\ q \in Seq(Compact!Message)
        /\ Compact!UsersAfter(state, q) \in Compact!StateRecord
        /\ Compact!UsersAfter(state, q).boundary = b
        /\ Sound(messages, state, covered)
             => Sound(messages, Compact!UsersAfter(state, q), covered \cup Compact!ToSet(q))
    BY <1>1, MoveIsSound DEF q
  <2> QED BY <1>3, <2>1
<1>5. messages' \in Seq(Compact!Message) /\ messages' # <<>>
  <2>1. Append(messages, m) \in Seq(Compact!Message) /\ Append(messages, m) # <<>>
    BY <1>1, <1>2
  <2> QED BY <1>3, <2>1
<1>6. Compact!TypeOK'
  <2>1. Compact!ToSet(q) \subseteq Compact!Message
    BY <1>4 DEF Compact!ToSet
  <2>2. covered' \subseteq Compact!Message /\ serial' \in Nat
    BY <1>1, <1>3, <2>1
  <2>3. shifted' \in BOOLEAN /\ deaths' \in 0..MaxCrashes
          /\ disk' \in [messages : Seq(Compact!Message), state : Compact!StateRecord]
    BY <1>1
  <2> QED BY <1>4, <1>5, <2>2, <2>3
          DEF Compact!TypeOK, Compact!Message, Compact!StateRecord, Compact!Steps, Compact!Roles
<1>7. ASSUME ~shifted
      PROVE  Sound(messages', state', covered') /\ Sound(disk.messages, disk.state, covered')
  <2>1. Sound(messages, state, covered) /\ Sound(disk.messages, disk.state, covered)
    BY <1>7 DEF CompactInv
  <2>2. covered \subseteq covered'
    BY <1>3
  <2>3. Sound(messages, state', covered')
    BY <1>4, <2>1
  <2>4. Sound(Append(messages, m), state', covered')
    BY <1>1, <1>2, <1>4, <2>3, GrowthIsSound
  <2>5. disk.messages \in Seq(Compact!Message) /\ disk.state \in Compact!StateRecord
    BY <1>1
  <2>6. Sound(disk.messages, disk.state, covered')
    BY <1>2, <2>1, <2>2, <2>5, GrowthIsSound
  <2> QED BY <1>3, <2>4, <2>6
<1>8. disk'.messages # <<>>
  BY DEF CompactInv
<1> QED
  BY <1>4, <1>5, <1>6, <1>7, <1>8 DEF CompactInv, Sound

LEMMA RestartKeeps ==
  ASSUME Compact!CompactionAssumption, CompactInv, Compact!Restart
  PROVE  CompactInv'
<1> DEFINE R == Compact!Repaired(disk.messages)
           s == disk.state
<1>1. /\ disk.messages \in Seq(Compact!Message) /\ s \in Compact!StateRecord
      /\ covered \subseteq Compact!Message /\ shifted \in BOOLEAN /\ serial \in Nat
      /\ disk.messages # <<>>
  BY DEF CompactInv, Compact!TypeOK
<1>2. R \in Seq(Compact!Message) /\ R # <<>>
  BY <1>1, RepairIs
<1>3. /\ messages' = R /\ state' = s /\ disk' = [messages |-> R, state |-> s]
      /\ step' = "idle" /\ covered' = covered /\ serial' = serial
      /\ shifted' = (shifted \/ \E i \in 1..s.boundary : Compact!Lost(disk.messages, i))
      /\ deaths' \in 0..MaxCrashes
  <2>1. deaths \in 0..MaxCrashes /\ MaxCrashes \in Nat
    BY DEF CompactInv, Compact!TypeOK, Compact!CompactionAssumption
  <2> QED BY <2>1 DEF Compact!Restart, Compact!Save
<1> HIDE DEF R, s
<1>4. Compact!TypeOK'
  <2>1. disk' \in [messages : Seq(Compact!Message), state : Compact!StateRecord]
    BY <1>1, <1>2, <1>3
  <2>2. shifted' \in BOOLEAN /\ step' \in Compact!Steps
    BY <1>1, <1>3 DEF Compact!Steps
  <2> QED
    BY <1>1, <1>2, <1>3, <2>1, <2>2
       DEF Compact!TypeOK, Compact!Message, Compact!StateRecord, Compact!Steps, Compact!Roles
<1>5. ASSUME ~shifted' PROVE Sound(R, s, covered)
  <2>1. ~shifted /\ \A i \in 1..s.boundary : ~Compact!Lost(disk.messages, i)
    BY <1>3, <1>5
  <2>2. Sound(disk.messages, s, covered)
    BY <2>1 DEF CompactInv, s
  <2> QED BY <1>1, <2>1, <2>2, RepairIsSound DEF R
<1>6. disk'.messages = R /\ disk'.state = s
  BY <1>3
<1> QED
  BY <1>2, <1>3, <1>4, <1>5, <1>6 DEF CompactInv, Sound

(* A step keeps the invariant, and moves the boundary only forward.        *)
LEMMA CompactKeeps ==
  ASSUME Compact!CompactionAssumption, CompactInv, Compact!Next
  PROVE  /\ CompactInv'
         /\ state' # state /\ deaths' = deaths => state'.boundary > state.boundary
         /\ step = "streaming" /\ step' = "top" => state'.boundary > state.boundary
<1>1. /\ messages \in Seq(Compact!Message) /\ messages # <<>> /\ serial \in Nat /\ deaths \in Nat
      /\ deaths \in 0..MaxCrashes /\ serial + 1 \in Nat /\ step \in Compact!Steps
  BY DEF CompactInv, Compact!TypeOK, Compact!CompactionAssumption
<1>2. {"idle", "top", "streaming", "calling"} = Compact!Steps
  BY DEF Compact!Steps
<1>3. \A r \in Compact!Roles, n \in Nat : Compact!Msg(r, n) \in Compact!Message
  BY DEF Compact!Msg, Compact!Message
<1>4. {"user", "text", "call", "tool", "notice"} \subseteq Compact!Roles
  BY DEF Compact!Roles
<1>5. ASSUME Compact!Buildable
      PROVE  /\ Compact!PickBoundary(messages) \in Compact!Before(messages, Heads)
             /\ Compact!PickBoundary(messages) > state.boundary
  BY <1>1, <1>5, PickIs DEF Compact!Buildable
<1>6. ASSUME Compact!TrimBoundary # 0
      PROVE  /\ Compact!TrimBoundary \in Compact!Before(messages, Heads)
             /\ Compact!TrimBoundary > state.boundary
  BY <1>6, TrimIs DEF CompactInv
<1>7. CASE Compact!Send
  <2>1. Compact!Msg("user", serial) \in Compact!Message
    BY <1>1, <1>3, <1>4
  <2>2. CompactInv'
    BY <1>1, <1>2, <1>7, <2>1, AppendKeeps DEF Compact!Send, Compact!Save
  <2> QED BY <1>7, <2>2 DEF Compact!Send
<1>8. CASE Compact!ReplyText
  <2>1. Compact!Msg("text", serial) \in Compact!Message
    BY <1>1, <1>3, <1>4
  <2>2. CompactInv'
    BY <1>1, <1>2, <1>8, <2>1, AppendKeeps DEF Compact!ReplyText, Compact!Save
  <2> QED BY <1>8, <2>2 DEF Compact!ReplyText
<1>9. CASE Compact!ReplyCall
  <2>1. Compact!Msg("call", serial) \in Compact!Message
    BY <1>1, <1>3, <1>4
  <2>2. CompactInv'
    BY <1>1, <1>2, <1>9, <2>1, AppendKeeps DEF Compact!ReplyCall, Compact!Save
  <2> QED BY <1>9, <2>2 DEF Compact!ReplyCall
<1>10. CASE Compact!ToolResult
  <2>1. messages[Len(messages)] \in Compact!Message
    BY <1>1
  <2>2. messages[Len(messages)].n \in Nat
    BY <2>1 DEF Compact!Message
  <2>3. Compact!Msg("tool", messages[Len(messages)].n) \in Compact!Message
    BY <1>3, <1>4, <2>2
  <2>4. CompactInv'
    BY <1>1, <1>2, <1>10, <2>3, AppendKeeps DEF Compact!ToolResult, Compact!Save
  <2> QED BY <1>10, <2>4 DEF Compact!ToolResult
<1>11. CASE Compact!NoCompaction
  <2>1. UNCHANGED <<messages, state, disk, serial, covered, shifted, deaths>>
          /\ step' \in Compact!Steps /\ step' # "top"
    BY <1>2, <1>11 DEF Compact!NoCompaction
  <2>2. Compact!TypeOK'
    BY <2>1 DEF CompactInv, Compact!TypeOK, Compact!Steps, Compact!Message,
                Compact!StateRecord, Compact!Roles
  <2> QED BY <2>1, <2>2 DEF CompactInv, Sound
<1>12. CASE Compact!Summarize
  <2>1. CompactInv' /\ state'.boundary > state.boundary
    BY <1>2, <1>5, <1>12, MoveKeeps DEF Compact!Summarize
  <2> QED BY <2>1
<1>13. CASE Compact!TrimAfterFailure
  <2>1. CASE Compact!TrimBoundary = 0
    <3>1. UNCHANGED <<messages, state, disk, serial, covered, shifted, deaths>>
            /\ step' \in Compact!Steps /\ step' # "top"
      BY <1>2, <1>13, <2>1 DEF Compact!TrimAfterFailure
    <3>2. Compact!TypeOK'
      BY <3>1 DEF CompactInv, Compact!TypeOK, Compact!Steps, Compact!Message,
                  Compact!StateRecord, Compact!Roles
    <3> QED BY <3>1, <3>2 DEF CompactInv, Sound
  <2>2. CASE Compact!TrimBoundary # 0
    <3>1. CompactInv' /\ state'.boundary > state.boundary
      BY <1>2, <1>6, <1>13, <2>2, MoveKeeps DEF Compact!TrimAfterFailure
    <3> QED BY <3>1
  <2> QED BY <2>1, <2>2
<1>14. CASE Compact!Overflow
  <2>1. ASSUME Compact!Buildable, Compact!MoveTo(Compact!PickBoundary(messages)),
               Compact!Notice, step' = "top", UNCHANGED <<disk, shifted, deaths>>
        PROVE  CompactInv' /\ state'.boundary > state.boundary
    BY <1>2, <1>5, <2>1, MoveKeeps
  <2>2. ASSUME Compact!TrimBoundary # 0, Compact!MoveTo(Compact!TrimBoundary),
               Compact!Notice, step' = "top", UNCHANGED <<disk, shifted, deaths>>
        PROVE  CompactInv' /\ state'.boundary > state.boundary
    BY <1>2, <1>6, <2>2, MoveKeeps
  <2>3. ASSUME Compact!Notice, disk' = [messages |-> messages', state |-> state],
               step' = "idle", UNCHANGED <<state, covered, shifted, deaths>>
        PROVE  CompactInv'
    <3>1. Compact!Msg("notice", serial) \in Compact!Message
      BY <1>1, <1>3, <1>4
    <3> QED BY <1>1, <1>2, <2>3, <3>1, AppendKeeps DEF Compact!Notice
  <2> QED
    BY <1>14, <2>1, <2>2, <2>3 DEF Compact!Overflow, Compact!Save
<1>15. CASE Compact!Restart
  <2>1. step' = "idle" /\ deaths' # deaths
    BY <1>1, <1>15 DEF Compact!Restart
  <2> QED BY <1>15, <2>1, RestartKeeps
<1> QED
  BY <1>7, <1>8, <1>9, <1>10, <1>11, <1>12, <1>13, <1>14, <1>15 DEF Compact!Next

(* What the invariant says of the view, and of the user's words.           *)
LEMMA SoundIsEnough == CompactInv => Compact!HeadIsLegal /\ Compact!NothingVanishes
<1> SUFFICES ASSUME CompactInv PROVE Compact!HeadIsLegal /\ Compact!NothingVanishes
  OBVIOUS
<1> DEFINE b == state.boundary
           n == Len(messages)
<1>1. messages \in Seq(Compact!Message) /\ n \in Nat /\ b \in Nat
  BY DEF CompactInv, Compact!TypeOK, Compact!StateRecord
<1>2. ASSUME ~shifted
      PROVE  /\ b <= n
             /\ b > 0 => messages[b + 1].role # "tool"
             /\ \A i \in 1..b : messages[i] \in covered
             /\ Len(state.users) + state.dropped
                  = Len(Kept(SubSeq(messages, 1, b), Compact!FromUser))
  BY <1>2 DEF CompactInv, Sound
<1>3. Compact!HeadIsLegal
  BY <1>2 DEF Compact!HeadIsLegal, Compact!InView
<1>4. ASSUME ~shifted PROVE Compact!Min({b, n}) = b
  <2>1. b <= n /\ b \in {b, n} /\ \A y \in {b, n} : b <= y
    BY <1>1, <1>2, <1>4
  <2>2. \A x \in {b, n} : (\A y \in {b, n} : x <= y) => x = b
    BY <1>1, <2>1
  <2> HIDE DEF b, n
  <2> QED BY <2>1, <2>2 DEF Compact!Min
<1>5. ASSUME ~shifted
      PROVE  Len(state.users) + state.dropped
               = Compact!Cardinality(Compact!UsersIn(Compact!Prefix(messages, state.boundary)))
  <2> DEFINE p == SubSeq(messages, 1, b)
  <2>1. p \in Seq(Compact!Message)
    BY <1>1, <1>2, <1>5, SeqSplit
  <2> HIDE DEF p
  <2>2. Compact!UsersIn(p) = {i \in DOMAIN p : p[i] \in Compact!FromUser}
    <3>1. \A x \in Compact!Message : x.role = "user" <=> x \in Compact!FromUser
      BY DEF Compact!Message, Compact!FromUser
    <3>2. \A i \in DOMAIN p : p[i] \in Compact!Message
      BY <2>1
    <3> QED BY <3>1, <3>2 DEF Compact!UsersIn
  <2>3. Compact!Cardinality(Compact!UsersIn(p)) = Cardinality(Compact!UsersIn(p))
    BY DEF Compact!Cardinality, Cardinality
  <2>4. Len(Kept(p, Compact!FromUser)) = Cardinality({i \in DOMAIN p : p[i] \in Compact!FromUser})
    BY <2>1, KeptLength
  <2>5. Compact!Prefix(messages, state.boundary) = p
    BY DEF Compact!Prefix, p
  <2> QED BY <1>2, <1>5, <2>2, <2>3, <2>4, <2>5 DEF p
<1>6. Compact!NothingVanishes
  BY <1>2, <1>4, <1>5 DEF Compact!NothingVanishes
<1> QED
  BY <1>3, <1>6

LEMMA CompactInductive ==
  /\ Init => CompactInv
  /\ CompactInv /\ [Next]_<<part, turnVars, compactVars, permitVars, approvalVars, logVars,
                            idVars>>
       => CompactInv' /\ [Compact!BoundaryAdvances]_compactVars
<1>1. Compact!CompactionAssumption
  BY PartsAssumption
<1>2. Init => CompactInv
  BY <1>1, CompactStarts DEF Init
<1>3. ASSUME CompactInv,
             [Next]_<<part, turnVars, compactVars, permitVars, approvalVars, logVars, idVars>>
      PROVE  CompactInv' /\ [Compact!BoundaryAdvances]_compactVars
  <2>1. Compact!Next \/ UNCHANGED compactVars
    BY <1>3 DEF Next, TurnStep, CompactStep, PermitStep, ApprovalStep, LogStep, IdStep
  <2>2. CASE Compact!Next
    BY <1>1, <1>3, <2>2, CompactKeeps DEF Compact!BoundaryAdvances
  <2>3. CASE UNCHANGED compactVars
    <3>1. Compact!TypeOK'
      BY <1>3, <2>3
         DEF compactVars, CompactInv, Compact!TypeOK, Compact!Steps, Compact!Message,
             Compact!StateRecord, Compact!Roles
    <3> QED BY <1>3, <2>3, <3>1 DEF compactVars, CompactInv, Sound
  <2> QED BY <2>1, <2>2, <2>3
<1> QED
  BY <1>2, <1>3

(* _compact_now: the view sent to the provider never begins with a result  *)
(* whose call is gone, and no message leaves it that was not summarized or *)
(* trimmed, the user's own words apart, which are kept or counted.         *)
THEOREM EngineSummaries == Spec => []SummaryHolds
<1>1. CompactInv => SummaryHolds
  BY SoundIsEnough DEF SummaryHolds
<1> QED
  BY <1>1, CompactInductive, PTL DEF Spec

(* The overflow retry: a boundary only moves forward, and moves each time  *)
(* the loop goes round for it.                                             *)
THEOREM EngineBoundaries == Spec => BoundaryAdvances
  BY CompactInductive, PTL DEF Spec, BoundaryAdvances

-----------------------------------------------------------------------------
(* The repair that a load makes of a thread (Threads), whatever its        *)
(* messages are and whichever calls they are about: the operators that do  *)
(* not depend on the calls go by their names in the log, Log!....          *)

(* The messages M of threads about the calls C, and what is asked for and  *)
(* answered in a thread of them.                                           *)
Kind(C, M) ==
  /\ \A m \in M : m.calls \in Seq(C) /\ IsInjective(m.calls)
  /\ \A m \in M : m.role = "tool" => \E c \in C : m.calls = <<c>>
  /\ \A c \in C : Log!Placeholder(c) \in M
ToolsOf(M) == {m \in M : m.role = "tool"}
WordsOf(M) == {m \in M : m.role # "tool"}
Issued(C, ms) == {c \in C : \E i \in DOMAIN ms : Log!Asks(ms[i], c)}
Answered(C, ms) == {c \in C : \E i \in DOMAIN ms : Log!Gives(ms[i], c)}

(* What a thread's repair emits for a call, and for a message. *)
ResultOf(C, ms, c) ==
  IF c \in Answered(C, ms) THEN <<ms[Log!FirstResult(ms, c)]>>
  ELSE IF Log!LastAsk(ms, c) = Len(ms) THEN <<>> ELSE <<Log!Placeholder(c)>>
ResultsAt(C, ms, i) == [k \in DOMAIN ms[i].calls |-> ResultOf(C, ms, ms[i].calls[k])]
Moved(C, ms) == {Log!FirstResult(ms, c) : c \in Issued(C, ms)}
Emitted(C, ms, i) ==
  IF ms[i].role = "assistant" THEN <<ms[i]>> \o FlattenSeq(ResultsAt(C, ms, i))
  ELSE IF i \in Moved(C, ms) THEN <<>> ELSE <<ms[i]>>
Pieces(C, ms) == [i \in DOMAIN ms |-> Emitted(C, ms, i)]

Broken(C, ms) ==
  \E c \in Issued(C, ms) :
    IF c \in Answered(C, ms) THEN Log!FirstResult(ms, c) # Log!LastAsk(ms, c) + 1
    ELSE Log!LastAsk(ms, c) # Len(ms)
Mended(C, ms) == IF Broken(C, ms) THEN FlattenSeq(Pieces(C, ms)) ELSE ms

LEMMA MendedIs ==
  ASSUME NEW C, NEW ms
  PROVE  Mended(C, ms) = IF Broken(C, ms) THEN FlattenSeq(Pieces(C, ms)) ELSE ms
  BY DEF Mended

LEMMA KindIs ==
  ASSUME NEW C, NEW M, Kind(C, M)
  PROVE  /\ ToolsOf(M) \subseteq M /\ WordsOf(M) \subseteq M
         /\ M = WordsOf(M) \cup ToolsOf(M) /\ ToolsOf(M) \cap WordsOf(M) = {}
         /\ \A m \in ToolsOf(M) :
              m.role = "tool" /\ \E c \in C : m.calls = <<c>> /\ Log!Gives(m, c)
         /\ \A c \in C :
              Log!Placeholder(c) \in ToolsOf(M) /\ Log!Gives(Log!Placeholder(c), c)
         /\ \A m \in M : \A c : Log!Gives(m, c) => m \in ToolsOf(M)
         /\ \A m \in M : \A c : Log!Asks(m, c) => m \notin ToolsOf(M)
  BY DEF Kind, ToolsOf, WordsOf, Log!Placeholder, Log!Gives, Log!Asks

(* Where a call has its first result, and where it is asked for last. *)
LEMMA FirstIs ==
  ASSUME NEW C, NEW M, Kind(C, M), NEW ms \in Seq(M), NEW c \in C
  PROVE  IF c \in Answered(C, ms)
         THEN /\ Log!FirstResult(ms, c) \in DOMAIN ms
              /\ Log!Gives(ms[Log!FirstResult(ms, c)], c)
         ELSE Log!FirstResult(ms, c) = 0
<1> DEFINE I == {i \in 1..Len(ms) : Log!Gives(ms[i], c)}
<1>1. Log!FirstResult(ms, c) = IF I # {} THEN Log!Min(I) ELSE 0
  BY DEF Log!FirstResult, Log!SelectInSeq
<1>2. c \in Answered(C, ms) <=> I # {}
  BY DEF Answered
<1>3. I \in SUBSET Nat
  OBVIOUS
<1>4. ASSUME I # {} PROVE Log!Min(I) \in I
  <2> HIDE DEF I
  <2>1. PICK n \in I : TRUE
    BY <1>4
  <2>2. \E m \in I : \A k \in I : m <= k
    BY <1>3, <2>1, LeastNumber
  <2> QED BY <2>2 DEF Log!Min
<1> QED
  BY <1>1, <1>2, <1>4

LEMMA MaxIs ==
  ASSUME NEW n \in Nat, NEW I \in SUBSET (1..n), I # {}
  PROVE  Log!Max(I) \in I /\ \A k \in I : k <= Log!Max(I)
<1> DEFINE Down == {n - k : k \in I}
<1>3. PICK p \in I : TRUE
  OBVIOUS
<1>4. Down \in SUBSET Nat /\ n - p \in Down
  BY <1>3
<1>5. PICK m \in Down : \A k \in Down : m <= k
  <2> HIDE DEF Down
  <2> QED BY <1>4, LeastNumber
<1>6. PICK g \in I : m = n - g
  BY <1>5
<1>7. \A k \in I : g >= k
  <2> SUFFICES ASSUME NEW k \in I PROVE g >= k
    OBVIOUS
  <2>1. n - g <= n - k
    BY <1>5, <1>6
  <2>2. n \in Nat /\ g \in Nat /\ k \in Nat
    OBVIOUS
  <2> QED BY <2>1, <2>2
<1> QED
  <2>1. Log!Max(I) \in I /\ \A k \in I : Log!Max(I) >= k
    BY <1>6, <1>7 DEF Log!Max
  <2> DEFINE h == Log!Max(I)
  <2>2. h \in I /\ (\A k \in I : h >= k) /\ I \subseteq Nat
    BY <2>1
  <2> HIDE DEF h
  <2>3. \A k \in I : k <= h
    BY <2>2
  <2> QED BY <2>2, <2>3 DEF h

LEMMA LastIs ==
  ASSUME NEW C, NEW M, Kind(C, M), NEW ms \in Seq(M), NEW c \in Issued(C, ms)
  PROVE  Log!LastAsk(ms, c) \in DOMAIN ms /\ Log!Asks(ms[Log!LastAsk(ms, c)], c)
<1> DEFINE I == {i \in 1..Len(ms) : Log!Asks(ms[i], c)}
<1>1. Log!LastAsk(ms, c) = IF I # {} THEN Log!Max(I) ELSE 0
  BY DEF Log!LastAsk, Log!SelectLastInSeq
<1>2. I # {} /\ Len(ms) \in Nat
  BY DEF Issued
<1>3. Log!Max(I) \in I
  BY <1>2, MaxIs
<1> QED
  BY <1>1, <1>2, <1>3

Results(C, ms, i) == FlattenSeq(ResultsAt(C, ms, i))

LEMMA ResultIs ==
  ASSUME NEW C, NEW M, Kind(C, M), NEW ms \in Seq(M), NEW c \in C
  PROVE  /\ ResultOf(C, ms, c) \in Seq(ToolsOf(M))
         /\ c \in Answered(C, ms) => ResultOf(C, ms, c) = <<ms[Log!FirstResult(ms, c)]>>
         /\ c \notin Answered(C, ms) /\ Log!LastAsk(ms, c) = Len(ms) => ResultOf(C, ms, c) = <<>>
         /\ c \notin Answered(C, ms) /\ Log!LastAsk(ms, c) # Len(ms)
              => ResultOf(C, ms, c) = <<Log!Placeholder(c)>>
         /\ \A k \in DOMAIN ResultOf(C, ms, c) : k = 1 /\ Log!Gives(ResultOf(C, ms, c)[k], c)
<1>1. CASE c \in Answered(C, ms)
  <2>1. Log!FirstResult(ms, c) \in DOMAIN ms /\ Log!Gives(ms[Log!FirstResult(ms, c)], c)
    BY <1>1, FirstIs
  <2>2. ms[Log!FirstResult(ms, c)] \in ToolsOf(M)
    BY <2>1, KindIs
  <2>3. ResultOf(C, ms, c) = <<ms[Log!FirstResult(ms, c)]>>
    BY <1>1 DEF ResultOf
  <2> QED BY <1>1, <2>1, <2>2, <2>3
<1>2. CASE c \notin Answered(C, ms) /\ Log!LastAsk(ms, c) = Len(ms)
  <2>1. ResultOf(C, ms, c) = <<>>
    BY <1>2 DEF ResultOf
  <2> QED BY <1>2, <2>1
<1>3. CASE c \notin Answered(C, ms) /\ Log!LastAsk(ms, c) # Len(ms)
  <2>1. ResultOf(C, ms, c) = <<Log!Placeholder(c)>>
    BY <1>3 DEF ResultOf
  <2>2. Log!Placeholder(c) \in ToolsOf(M) /\ Log!Gives(Log!Placeholder(c), c)
    BY KindIs
  <2> QED BY <1>3, <2>1, <2>2
<1> QED
  BY <1>1, <1>2, <1>3

LEMMA ResultsAre ==
  ASSUME NEW C, NEW M, Kind(C, M), NEW ms \in Seq(M), NEW i \in DOMAIN ms
  PROVE  /\ ms[i] \in M /\ ms[i].calls \in Seq(C)
         /\ ResultsAt(C, ms, i) \in Seq(Seq(ToolsOf(M))) /\ Len(ResultsAt(C, ms, i)) = Len(ms[i].calls)
         /\ DOMAIN ResultsAt(C, ms, i) = DOMAIN ms[i].calls
         /\ Results(C, ms, i) \in Seq(ToolsOf(M))
         /\ \A k \in DOMAIN ms[i].calls :
              ms[i].calls[k] \in C
                /\ ResultsAt(C, ms, i)[k] = ResultOf(C, ms, ms[i].calls[k])
<1> DEFINE cs == ms[i].calls
           n == Len(cs)
           A == Seq(ToolsOf(M))
<1>1. ms[i] \in M
  OBVIOUS
<1>2. cs \in Seq(C)
  BY <1>1 DEF Kind
<1>3. n \in Nat /\ DOMAIN cs = 1..n /\ \A k \in 1..n : cs[k] \in C
  BY <1>2
<1>4. ResultsAt(C, ms, i) = [k \in DOMAIN cs |-> ResultOf(C, ms, cs[k])]
  BY DEF ResultsAt
<1>5. \A k \in 1..n : ResultOf(C, ms, cs[k]) \in A
  BY <1>3, ResultIs
<1> HIDE DEF cs, n, A
<1>6. ResultsAt(C, ms, i) \in Seq(A) /\ Len(ResultsAt(C, ms, i)) = n
  BY ONLY <1>3, <1>4, <1>5
<1>7. ResultsAt(C, ms, i) \in Seq(Seq(ToolsOf(M)))
  BY <1>6 DEF A
<1>8. Results(C, ms, i) \in Seq(ToolsOf(M))
  BY <1>7, FlatInSeq DEF Results
<1> QED
  BY <1>1, <1>2, <1>3, <1>4, <1>6, <1>7, <1>8 DEF cs, n

LEMMA EmittedIs ==
  ASSUME NEW C, NEW M, Kind(C, M), NEW ms \in Seq(M), NEW i \in DOMAIN ms
  PROVE  /\ Emitted(C, ms, i) \in Seq(M)
         /\ ms[i].role = "assistant" => Emitted(C, ms, i) = <<ms[i]>> \o Results(C, ms, i)
         /\ ms[i].role # "assistant" =>
              \/ i \in Moved(C, ms) /\ Emitted(C, ms, i) = <<>> /\ ms[i] \in ToolsOf(M)
              \/ i \notin Moved(C, ms) /\ Emitted(C, ms, i) = <<ms[i]>>
         /\ Kept(Emitted(C, ms, i), WordsOf(M)) = Kept(<<ms[i]>>, WordsOf(M))
<1>1. /\ ms[i] \in M /\ Results(C, ms, i) \in Seq(ToolsOf(M))
      /\ <<ms[i]>> \in Seq(M)
  BY ResultsAre
<1>2. Results(C, ms, i) \in Seq(M)
  BY <1>1, KindIs
<1>3. Kept(Results(C, ms, i), WordsOf(M)) = <<>>
  BY <1>1, KeptNone, KindIs
<1>4. CASE ms[i].role = "assistant"
  <2>1. Emitted(C, ms, i) = <<ms[i]>> \o Results(C, ms, i)
    BY <1>4 DEF Emitted, Results
  <2>2. Kept(<<ms[i]>> \o Results(C, ms, i), WordsOf(M))
          = Kept(<<ms[i]>>, WordsOf(M)) \o Kept(Results(C, ms, i), WordsOf(M))
    <3> DEFINE s == <<ms[i]>>
               r == Results(C, ms, i)
    <3>1. s \in Seq(M) /\ r \in Seq(M)
      BY <1>1, <1>2
    <3> HIDE DEF s, r
    <3>2. Kept(s \o r, WordsOf(M)) = Kept(s, WordsOf(M)) \o Kept(r, WordsOf(M))
      BY <3>1, KeptConcat
    <3> QED BY <3>2 DEF s, r
  <2>3. Kept(<<ms[i]>>, WordsOf(M)) \in Seq(M)
    BY <1>1, KeptInSeq
  <2>4. Kept(<<ms[i]>>, WordsOf(M)) \o <<>> = Kept(<<ms[i]>>, WordsOf(M))
    BY ONLY <2>3
  <2>5. <<ms[i]>> \o Results(C, ms, i) \in Seq(M)
    BY ONLY <1>1, <1>2
  <2> QED BY <1>3, <1>4, <2>1, <2>2, <2>4, <2>5
<1>5. CASE ms[i].role # "assistant" /\ i \in Moved(C, ms)
  <2>1. PICK c \in Issued(C, ms) : i = Log!FirstResult(ms, c)
    BY <1>5 DEF Moved
  <2>2. c \in C /\ Log!FirstResult(ms, c) # 0
    <3>1. i # 0
      OBVIOUS
    <3> QED BY <2>1, <3>1 DEF Issued
  <2>3. Log!Gives(ms[i], c)
    BY <2>1, <2>2, FirstIs
  <2>4. ms[i] \in ToolsOf(M) /\ <<ms[i]>> \in Seq(ToolsOf(M))
    BY <1>1, <2>3, KindIs
  <2>5. Kept(<<ms[i]>>, WordsOf(M)) = <<>>
    <3>1. \A m \in ToolsOf(M) : m \notin WordsOf(M)
      BY DEF ToolsOf, WordsOf
    <3> QED BY <2>4, <3>1, KeptNone
  <2>6. Emitted(C, ms, i) = <<>>
    BY <1>5 DEF Emitted
  <2>7. <<>> \in Seq(M)
    OBVIOUS
  <2> QED BY <1>5, <2>4, <2>5, <2>6, <2>7, KeptEmpty
<1>6. CASE ms[i].role # "assistant" /\ i \notin Moved(C, ms)
  <2>1. Emitted(C, ms, i) = <<ms[i]>>
    BY <1>6 DEF Emitted
  <2> QED BY <1>1, <1>6, <2>1
<1> QED
  BY <1>4, <1>5, <1>6

LEMMA PiecesAre ==
  ASSUME NEW C, NEW M, Kind(C, M), NEW ms \in Seq(M)
  PROVE  /\ Pieces(C, ms) \in Seq(Seq(M)) /\ Len(Pieces(C, ms)) = Len(ms)
         /\ DOMAIN Pieces(C, ms) = DOMAIN ms
         /\ \A i \in DOMAIN ms : Pieces(C, ms)[i] = Emitted(C, ms, i)
<1> DEFINE n == Len(ms)
           A == Seq(M)
<1>1. n \in Nat /\ DOMAIN ms = 1..n
  OBVIOUS
<1>2. \A i \in 1..n : Emitted(C, ms, i) \in A
  BY <1>1, EmittedIs
<1>3. Pieces(C, ms) = [i \in 1..n |-> Emitted(C, ms, i)]
  BY <1>1 DEF Pieces
<1> HIDE DEF n, A
<1>4. Pieces(C, ms) \in Seq(A) /\ Len(Pieces(C, ms)) = n
  BY ONLY <1>1, <1>2, <1>3
<1> QED
  BY <1>1, <1>3, <1>4 DEF A, n

LEMMA MendedInSeq ==
  ASSUME NEW C, NEW M, Kind(C, M), NEW ms \in Seq(M)
  PROVE  Mended(C, ms) \in Seq(M)
<1>1. FlattenSeq(Pieces(C, ms)) \in Seq(M)
  BY PiecesAre, FlatInSeq
<1> QED
  BY <1>1, MendedIs

(* A repair leaves out no word and no real result.                         *)
LEMMA MendKeepsWords ==
  ASSUME NEW C, NEW M, Kind(C, M), NEW ms \in Seq(M)
  PROVE  Kept(Mended(C, ms), WordsOf(M)) = Kept(ms, WordsOf(M))
<1>1. \A i \in DOMAIN ms : Kept(Pieces(C, ms)[i], WordsOf(M)) = Kept(<<ms[i]>>, WordsOf(M))
  BY PiecesAre, EmittedIs
<1>2. Kept(FlattenSeq(Pieces(C, ms)), WordsOf(M)) = Kept(ms, WordsOf(M))
  BY <1>1, PiecesAre, KeptPieces
<1> QED
  BY <1>2, MendedIs

(* What is in a piece is in the repaired thread. *)
LEMMA PieceIsIn ==
  ASSUME NEW C, NEW M, Kind(C, M), NEW ms \in Seq(M), NEW i \in DOMAIN ms, NEW j \in DOMAIN Emitted(C, ms, i)
  PROVE  \E p \in DOMAIN FlattenSeq(Pieces(C, ms)) :
           FlattenSeq(Pieces(C, ms))[p] = Emitted(C, ms, i)[j]
<1>1. Pieces(C, ms) \in Seq(Seq(M)) /\ i \in DOMAIN Pieces(C, ms)
        /\ Pieces(C, ms)[i] = Emitted(C, ms, i)
  BY PiecesAre
<1>2. \A k \in DOMAIN Pieces(C, ms)[i] :
        /\ Offset(Pieces(C, ms), i) + k \in DOMAIN FlattenSeq(Pieces(C, ms))
        /\ FlattenSeq(Pieces(C, ms))[Offset(Pieces(C, ms), i) + k] = Pieces(C, ms)[i][k]
  BY <1>1, FlatPlaces
<1> QED
  BY <1>1, <1>2

ResultsThere(C, ms, i) ==
  \A k \in DOMAIN ms[i].calls : \A j \in DOMAIN ResultOf(C, ms, ms[i].calls[k]) :
    \E p \in DOMAIN Results(C, ms, i) :
      Results(C, ms, i)[p] = ResultOf(C, ms, ms[i].calls[k])[j]

LEMMA ResultIsIn ==
  ASSUME NEW C, NEW M, Kind(C, M), NEW ms \in Seq(M), NEW i \in DOMAIN ms
  PROVE  ResultsThere(C, ms, i)
<1> SUFFICES ASSUME NEW k \in DOMAIN ms[i].calls,
                    NEW j \in DOMAIN ResultOf(C, ms, ms[i].calls[k])
             PROVE  \E p \in DOMAIN Results(C, ms, i) :
                      Results(C, ms, i)[p] = ResultOf(C, ms, ms[i].calls[k])[j]
  BY DEF ResultsThere
<1>1. ResultsAt(C, ms, i) \in Seq(Seq(ToolsOf(M))) /\ k \in DOMAIN ResultsAt(C, ms, i)
        /\ ResultsAt(C, ms, i)[k] = ResultOf(C, ms, ms[i].calls[k])
  BY ResultsAre
<1>2. \A l \in DOMAIN ResultsAt(C, ms, i)[k] :
        /\ Offset(ResultsAt(C, ms, i), k) + l \in DOMAIN FlattenSeq(ResultsAt(C, ms, i))
        /\ FlattenSeq(ResultsAt(C, ms, i))[Offset(ResultsAt(C, ms, i), k) + l] = ResultsAt(C, ms, i)[k][l]
  BY <1>1, FlatPlaces
<1> QED
  BY <1>1, <1>2 DEF Results

LEMMA MendKeepsResults ==
  ASSUME NEW C, NEW M, Kind(C, M), NEW ms \in Seq(M)
  PROVE  Log!RealIn(ms) \subseteq Log!RealIn(Mended(C, ms))
<1>1. CASE ~Broken(C, ms)
  BY <1>1, MendedIs
<1>2. CASE Broken(C, ms)
  <2> DEFINE rs == FlattenSeq(Pieces(C, ms))
  <2>1. Mended(C, ms) = rs
    BY <1>2, MendedIs
  <2>2. ASSUME NEW i \in DOMAIN ms, ms[i].role = "tool", ms[i].real
        PROVE  \E p \in DOMAIN rs : rs[p] = ms[i]
    <3>1. ms[i].role # "assistant" /\ ms[i] \in M
      BY <2>2
    <3>2. CASE i \notin Moved(C, ms)
      <4>1. Emitted(C, ms, i) = <<ms[i]>>
        BY <3>1, <3>2, EmittedIs
      <4>2. 1 \in DOMAIN Emitted(C, ms, i) /\ Emitted(C, ms, i)[1] = ms[i]
        BY <4>1
      <4> QED BY <4>2, PieceIsIn
    <3>3. CASE i \in Moved(C, ms)
      <4>1. PICK c \in Issued(C, ms) : i = Log!FirstResult(ms, c)
        BY <3>3 DEF Moved
      <4>2. c \in C /\ \E j \in DOMAIN ms : Log!Asks(ms[j], c)
        BY DEF Issued
      <4>3. PICK j \in DOMAIN ms : Log!Asks(ms[j], c)
        BY <4>2
      <4>4. ms[j].role = "assistant" /\ \E k \in DOMAIN ms[j].calls : ms[j].calls[k] = c
        BY <4>3 DEF Log!Asks, Log!ToSet
      <4>5. PICK k \in DOMAIN ms[j].calls : ms[j].calls[k] = c
        BY <4>4
      <4>6. c \in Answered(C, ms)
        <5>1. i # 0
          OBVIOUS
        <5> QED BY <4>1, <4>2, <5>1, FirstIs
      <4>7. ResultOf(C, ms, c) = <<ms[i]>>
        BY <4>1, <4>2, <4>6, ResultIs
      <4>8. 1 \in DOMAIN ResultOf(C, ms, ms[j].calls[k]) /\ ResultOf(C, ms, ms[j].calls[k])[1] = ms[i]
        BY <4>5, <4>7
      <4>9. PICK p \in DOMAIN Results(C, ms, j) : Results(C, ms, j)[p] = ms[i]
        <5>1. ResultsThere(C, ms, j)
          BY ResultIsIn
        <5> QED BY <4>8, <5>1 DEF ResultsThere
      <4>10. Emitted(C, ms, j) = <<ms[j]>> \o Results(C, ms, j)
        BY <4>4, EmittedIs
      <4>11. Results(C, ms, j) \in Seq(M) /\ ms[j] \in M
        BY ResultsAre, KindIs
      <4>12. \A s \in Seq(M), x \in M : \A q \in DOMAIN s :
               q + 1 \in DOMAIN (<<x>> \o s) /\ (<<x>> \o s)[q + 1] = s[q]
        OBVIOUS
      <4>13. p + 1 \in DOMAIN Emitted(C, ms, j) /\ Emitted(C, ms, j)[p + 1] = ms[i]
        BY <4>9, <4>10, <4>11, <4>12, Zenon
      <4> QED BY <4>13, PieceIsIn
    <3> QED BY <3>2, <3>3
  <2> HIDE DEF rs
  <2>3. \A m \in Log!RealIn(ms) :
          m.role = "tool" /\ m.real /\ \E i \in DOMAIN ms : ms[i] = m
    BY DEF Log!RealIn, Log!ToSet
  <2>4. \A m \in Log!RealIn(ms) : m.role = "tool" /\ m.real /\ \E p \in DOMAIN rs : rs[p] = m
    BY <2>2, <2>3
  <2> QED BY <2>1, <2>4 DEF Log!RealIn, Log!ToSet
<1> QED
  BY <1>1, <1>2

(* Each call is asked for once, and answered once at most, after that.     *)
Paired(C, ms) ==
  /\ \A i, j \in DOMAIN ms : \A c \in C :
       Log!Asks(ms[i], c) /\ Log!Asks(ms[j], c) => i = j
  /\ \A i, j \in DOMAIN ms : \A c \in C :
       Log!Gives(ms[i], c) /\ Log!Gives(ms[j], c) => i = j
  /\ \A j \in DOMAIN ms : \A c \in C :
       Log!Gives(ms[j], c) => \E i \in 1..(j - 1) : i \in DOMAIN ms /\ Log!Asks(ms[i], c)

(* The block of a matched thread is open at its end, or has every result.  *)
OpenAt(C, ms, i) ==
  /\ i = Len(ms) /\ Results(C, ms, i) = <<>>
  /\ \A k \in DOMAIN ms[i].calls : ms[i].calls[k] \notin Answered(C, ms)
FullAt(C, ms, i) ==
  /\ Len(Results(C, ms, i)) = Len(ms[i].calls)
  /\ \A k \in DOMAIN ms[i].calls : Log!Gives(Results(C, ms, i)[k], ms[i].calls[k])

LEMMA AskedOnce ==
  ASSUME NEW C, NEW M, Kind(C, M), NEW ms \in Seq(M), Paired(C, ms), NEW i \in DOMAIN ms,
         ms[i].role = "assistant", NEW k \in DOMAIN ms[i].calls
  PROVE  /\ ms[i].calls[k] \in Issued(C, ms) /\ Log!Asks(ms[i], ms[i].calls[k])
         /\ Log!LastAsk(ms, ms[i].calls[k]) = i
         /\ i = Len(ms) => ms[i].calls[k] \notin Answered(C, ms)
<1> DEFINE c == ms[i].calls[k]
<1>1. c \in C
  BY ResultsAre
<1>2. Log!Asks(ms[i], c)
  BY DEF Log!Asks, Log!ToSet
<1>3. c \in Issued(C, ms)
  BY <1>1, <1>2 DEF Issued
<1>4. Log!LastAsk(ms, c) \in DOMAIN ms /\ Log!Asks(ms[Log!LastAsk(ms, c)], c)
  BY <1>3, LastIs
<1>5. Log!LastAsk(ms, c) = i
  BY <1>1, <1>2, <1>4 DEF Paired
<1>6. ASSUME i = Len(ms), c \in Answered(C, ms) PROVE FALSE
  <2>1. PICK q \in DOMAIN ms : Log!Gives(ms[q], c)
    BY <1>6 DEF Answered
  <2>2. PICK p \in 1..(q - 1) : p \in DOMAIN ms /\ Log!Asks(ms[p], c)
    BY <1>1, <2>1 DEF Paired
  <2>3. p = i
    BY <1>1, <1>2, <2>2 DEF Paired
  <2>4. q \in 1..Len(ms) /\ Len(ms) \in Nat
    BY <2>1
  <2> QED BY <1>6, <2>2, <2>3, <2>4
<1> QED
  BY <1>2, <1>3, <1>5, <1>6

LEMMA BlockEmitted ==
  ASSUME NEW C, NEW M, Kind(C, M), NEW ms \in Seq(M), Paired(C, ms), NEW i \in DOMAIN ms,
         ms[i].role = "assistant"
  PROVE  OpenAt(C, ms, i) \/ FullAt(C, ms, i)
<1> DEFINE cs == ms[i].calls
           n == Len(cs)
<1>0. cs \in Seq(C)
  BY ResultsAre
<1>1. n \in Nat /\ DOMAIN cs = 1..n
  BY <1>0
<1>2. /\ ResultsAt(C, ms, i) \in Seq(Seq(ToolsOf(M))) /\ DOMAIN ResultsAt(C, ms, i) = DOMAIN cs
      /\ \A k \in DOMAIN cs : cs[k] \in C /\ ResultsAt(C, ms, i)[k] = ResultOf(C, ms, cs[k])
  BY ResultsAre
<1>3. \A k \in DOMAIN cs : Log!LastAsk(ms, cs[k]) = i
  BY AskedOnce
<1>4. i = Len(ms) => \A k \in DOMAIN cs : cs[k] \notin Answered(C, ms)
  BY AskedOnce
<1> HIDE DEF cs, n
<1>5. CASE i = Len(ms)
  <2>1. \A k \in DOMAIN cs : ResultOf(C, ms, cs[k]) = <<>>
    BY <1>2, <1>3, <1>4, <1>5, ResultIs
  <2>2. \A k \in DOMAIN ResultsAt(C, ms, i) : ResultsAt(C, ms, i)[k] = <<>>
    BY <1>2, <2>1
  <2>3. Results(C, ms, i) = <<>>
    BY <1>2, <2>2, FlatNone DEF Results
  <2> QED BY <1>4, <1>5, <2>3 DEF OpenAt, cs
<1>6. CASE i # Len(ms)
  <2> DEFINE t == [k \in 1..n |-> ResultOf(C, ms, cs[k])[1]]
  <2>1. ASSUME NEW k \in 1..n
        PROVE  /\ ResultOf(C, ms, cs[k])[1] \in ToolsOf(M) /\ ResultsAt(C, ms, i)[k] = <<ResultOf(C, ms, cs[k])[1]>>
               /\ Log!Gives(ResultOf(C, ms, cs[k])[1], cs[k])
    <3>a. cs[k] \in C /\ Log!LastAsk(ms, cs[k]) # Len(ms)
      BY <1>1, <1>2, <1>3, <1>6
    <3>b. \/ ResultOf(C, ms, cs[k]) = <<ms[Log!FirstResult(ms, cs[k])]>>
          \/ ResultOf(C, ms, cs[k]) = <<Log!Placeholder(cs[k])>>
      BY <3>a, ResultIs
    <3>1. \E x : ResultOf(C, ms, cs[k]) = <<x>>
      BY <3>b, Zenon
    <3>2. ResultOf(C, ms, cs[k]) \in Seq(ToolsOf(M))
            /\ \A j \in DOMAIN ResultOf(C, ms, cs[k]) : Log!Gives(ResultOf(C, ms, cs[k])[j], cs[k])
      BY <1>1, <1>2, ResultIs
    <3> DEFINE r == ResultOf(C, ms, cs[k])
    <3> HIDE DEF r
    <3>3. (\E x : r = <<x>>) /\ r \in Seq(ToolsOf(M)) => 1 \in DOMAIN r /\ r[1] \in ToolsOf(M) /\ r = <<r[1]>>
      OBVIOUS
    <3> QED BY <1>1, <1>2, <3>1, <3>2, <3>3 DEF r
  <2>2. t \in Seq(ToolsOf(M)) /\ DOMAIN t = 1..n /\ Len(t) = n
    BY <1>1, <2>1
  <2>3. ResultsAt(C, ms, i) = [k \in DOMAIN t |-> <<t[k]>>]
    <3>1. ResultsAt(C, ms, i) = [k \in 1..n |-> ResultsAt(C, ms, i)[k]]
      BY <1>1, <1>2
    <3> QED BY <2>1, <2>2, <3>1
  <2>4. \A k \in 1..n : Log!Gives(t[k], cs[k])
    BY <2>1
  <2> HIDE DEF t
  <2>5. FlattenSeq([k \in DOMAIN t |-> <<t[k]>>]) = t
    BY <2>2, FlatSingles
  <2>6. Results(C, ms, i) = t
    BY <2>3, <2>5 DEF Results
  <2> QED BY <1>1, <2>2, <2>4, <2>6 DEF FullAt, cs, n
<1> QED
  BY <1>5, <1>6

(* What a matched thread's repair leaves where. *)
LEMMA PairedEmitted ==
  ASSUME NEW C, NEW M, Kind(C, M), NEW ms \in Seq(M), Paired(C, ms), NEW i \in DOMAIN ms,
         NEW j \in DOMAIN Emitted(C, ms, i), NEW c \in C
  PROVE  /\ Log!Asks(Emitted(C, ms, i)[j], c) => j = 1 /\ Emitted(C, ms, i)[j] = ms[i]
         /\ Log!Gives(Emitted(C, ms, i)[j], c) =>
              /\ ms[i].role = "assistant" /\ j - 1 \in DOMAIN ms[i].calls
              /\ ms[i].calls[j - 1] = c /\ FullAt(C, ms, i)
<1> DEFINE e == Emitted(C, ms, i)
           r == Results(C, ms, i)
<1>1. ms[i] \in M /\ r \in Seq(ToolsOf(M)) /\ ms[i].calls \in Seq(C)
  BY ResultsAre
<1>2. CASE ms[i].role = "assistant"
  <2>1. e = <<ms[i]>> \o r
    BY <1>2, EmittedIs
  <2> HIDE DEF e, r
  <2>2. /\ DOMAIN r = 1..Len(r) /\ Len(r) \in Nat
        /\ j \in 1..(Len(r) + 1) /\ e[1] = ms[i]
        /\ j # 1 => j - 1 \in DOMAIN r /\ e[j] = r[j - 1] /\ e[j] \in ToolsOf(M)
    <3>1. \A x, s : s \in Seq(ToolsOf(M)) /\ x \in M =>
            /\ Len(s) \in Nat /\ DOMAIN s = 1..Len(s)
            /\ DOMAIN (<<x>> \o s) = 1..(Len(s) + 1) /\ (<<x>> \o s)[1] = x
            /\ \A q \in 2..(Len(s) + 1) : (<<x>> \o s)[q] = s[q - 1] /\ s[q - 1] \in ToolsOf(M)
      OBVIOUS
    <3>2. /\ Len(r) \in Nat /\ DOMAIN r = 1..Len(r)
          /\ DOMAIN e = 1..(Len(r) + 1) /\ e[1] = ms[i]
          /\ \A q \in 2..(Len(r) + 1) : e[q] = r[q - 1] /\ r[q - 1] \in ToolsOf(M)
      BY <1>1, <2>1, <3>1
    <3>3. j \in 1..(Len(r) + 1)
      BY <3>2 DEF e
    <3> QED BY <3>2, <3>3
  <2>3. Log!Asks(e[j], c) => j = 1 /\ e[j] = ms[i]
    BY <2>2, KindIs
  <2>4. ASSUME Log!Gives(e[j], c)
        PROVE  /\ j - 1 \in DOMAIN ms[i].calls
               /\ ms[i].calls[j - 1] = c /\ FullAt(C, ms, i)
    <3>1. j # 1
      BY <1>2, <2>2, <2>4 DEF Log!Gives
    <3>2. ~OpenAt(C, ms, i)
      <4>1. r # <<>>
        BY <2>2, <3>1
      <4> QED BY <4>1 DEF OpenAt, r
    <3>3. FullAt(C, ms, i)
      BY <1>2, <3>2, BlockEmitted
    <3>4. Len(r) = Len(ms[i].calls) /\ DOMAIN ms[i].calls = 1..Len(r)
      BY <1>1, <3>3 DEF FullAt, r
    <3>5. j - 1 \in DOMAIN ms[i].calls
      BY <2>2, <3>1, <3>4
    <3>6. Log!Gives(r[j - 1], ms[i].calls[j - 1])
      BY <3>3, <3>5 DEF FullAt, r
    <3>7. <<ms[i].calls[j - 1]>> = <<c>>
      BY <2>2, <2>4, <3>1, <3>6 DEF Log!Gives
    <3> QED BY <3>3, <3>5, <3>7
  <2> QED BY <1>2, <2>3, <2>4 DEF e
<1>3. CASE ms[i].role # "assistant"
  <2>0. e # <<>>
    OBVIOUS
  <2>1. e = <<ms[i]>> /\ i \notin Moved(C, ms)
    BY <1>3, <2>0, EmittedIs
  <2>2. j = 1 /\ e[j] = ms[i]
    BY <2>1
  <2>3. ASSUME Log!Gives(ms[i], c) PROVE FALSE
    <3>1. PICK p \in DOMAIN ms : Log!Asks(ms[p], c)
      BY <2>3 DEF Paired
    <3>2. c \in Issued(C, ms) /\ c \in Answered(C, ms)
      BY <2>3, <3>1 DEF Issued, Answered
    <3>3. Log!FirstResult(ms, c) \in DOMAIN ms /\ Log!Gives(ms[Log!FirstResult(ms, c)], c)
      BY <3>2, FirstIs
    <3>4. Log!FirstResult(ms, c) = i
      BY <2>3, <3>3 DEF Paired
    <3> QED BY <2>1, <3>2, <3>4 DEF Moved
  <2>4. ~Log!Asks(ms[i], c)
    BY <1>3 DEF Log!Asks
  <2> QED BY <2>2, <2>3, <2>4
<1> QED
  BY <1>2, <1>3

LEMMA PlaceIs ==
  ASSUME NEW C, NEW M, Kind(C, M), NEW ms \in Seq(M), NEW p \in DOMAIN FlattenSeq(Pieces(C, ms))
  PROVE  \E i \in DOMAIN ms : \E j \in DOMAIN Emitted(C, ms, i) :
           /\ p = Offset(Pieces(C, ms), i) + j
           /\ FlattenSeq(Pieces(C, ms))[p] = Emitted(C, ms, i)[j]
<1>1. /\ Pieces(C, ms) \in Seq(Seq(M)) /\ DOMAIN Pieces(C, ms) = DOMAIN ms
      /\ \A i \in DOMAIN ms : Pieces(C, ms)[i] = Emitted(C, ms, i)
  BY PiecesAre
<1>2. PICK i \in DOMAIN Pieces(C, ms) :
        \E j \in DOMAIN Pieces(C, ms)[i] : p = Offset(Pieces(C, ms), i) + j
  BY <1>1, FlatPlaces
<1>3. PICK j \in DOMAIN Pieces(C, ms)[i] : p = Offset(Pieces(C, ms), i) + j
  BY <1>2
<1>4. FlattenSeq(Pieces(C, ms))[p] = Pieces(C, ms)[i][j]
  BY <1>1, <1>2, <1>3, FlatPlaces
<1> QED
  BY <1>1, <1>3, <1>4

LEMMA MendPairs ==
  ASSUME NEW C, NEW M, Kind(C, M), NEW ms \in Seq(M), Paired(C, ms)
  PROVE  Paired(C, Mended(C, ms))
<1>1. CASE ~Broken(C, ms)
  BY <1>1, MendedIs
<1>2. CASE Broken(C, ms)
  <2> DEFINE r == FlattenSeq(Pieces(C, ms))
             o(i) == Offset(Pieces(C, ms), i)
  <2>1. Mended(C, ms) = r
    BY <1>2, MendedIs
  <2>2. ASSUME NEW p \in DOMAIN r, NEW c \in C, Log!Asks(r[p], c)
        PROVE  \E i \in DOMAIN ms : p = o(i) + 1 /\ Log!Asks(ms[i], c)
    <3>1. PICK i \in DOMAIN ms : \E j \in DOMAIN Emitted(C, ms, i) :
            p = o(i) + j /\ r[p] = Emitted(C, ms, i)[j]
      BY PlaceIs
    <3>2. PICK j \in DOMAIN Emitted(C, ms, i) : p = o(i) + j /\ r[p] = Emitted(C, ms, i)[j]
      BY <3>1
    <3>3. j = 1 /\ Emitted(C, ms, i)[j] = ms[i]
      BY <2>2, <3>2, PairedEmitted
    <3> QED BY <2>2, <3>2, <3>3
  <2>3. ASSUME NEW p \in DOMAIN r, NEW c \in C, Log!Gives(r[p], c)
        PROVE  \E i \in DOMAIN ms : \E k \in DOMAIN ms[i].calls :
                 /\ ms[i].role = "assistant" /\ ms[i].calls[k] = c
                 /\ k \in Nat /\ k > 0 /\ o(i) \in Nat /\ p = o(i) + (k + 1)
    <3>1. PICK i \in DOMAIN ms : \E j \in DOMAIN Emitted(C, ms, i) :
            p = o(i) + j /\ r[p] = Emitted(C, ms, i)[j]
      BY PlaceIs
    <3>2. PICK j \in DOMAIN Emitted(C, ms, i) : p = o(i) + j /\ r[p] = Emitted(C, ms, i)[j]
      BY <3>1
    <3>3. ms[i].role = "assistant" /\ j - 1 \in DOMAIN ms[i].calls /\ ms[i].calls[j - 1] = c
      BY <2>3, <3>2, PairedEmitted
    <3>4. Emitted(C, ms, i) \in Seq(M) /\ ms[i].calls \in Seq(C)
      BY EmittedIs, ResultsAre
    <3>5. j \in Nat /\ j - 1 \in Nat /\ j - 1 > 0 /\ j = (j - 1) + 1
      BY <3>3, <3>4
    <3>6. o(i) \in Nat
      BY PiecesAre, FlatPlaces
    <3>7. p = o(i) + ((j - 1) + 1)
      BY <3>2, <3>5
    <3> QED BY <3>3, <3>5, <3>6, <3>7
  <2>4. \A i, l \in DOMAIN ms : \A k \in DOMAIN ms[i].calls : \A n \in DOMAIN ms[l].calls :
          ms[i].role = "assistant" /\ ms[l].role = "assistant" /\ ms[i].calls[k] = ms[l].calls[n]
            => i = l /\ k = n
    <3> SUFFICES ASSUME NEW i \in DOMAIN ms, NEW l \in DOMAIN ms, NEW k \in DOMAIN ms[i].calls,
                        NEW n \in DOMAIN ms[l].calls, ms[i].role = "assistant",
                        ms[l].role = "assistant", ms[i].calls[k] = ms[l].calls[n]
                 PROVE  i = l /\ k = n
      OBVIOUS
    <3>1. Log!Asks(ms[i], ms[i].calls[k]) /\ Log!Asks(ms[l], ms[i].calls[k])
            /\ ms[i].calls[k] \in C
      BY AskedOnce, ResultsAre
    <3>2. i = l
      BY <3>1 DEF Paired
    <3>3. ms[i] \in M
      OBVIOUS
    <3>4. IsInjective(ms[i].calls)
      BY <3>3 DEF Kind
    <3> QED BY <3>2, <3>4 DEF IsInjective
  <2> HIDE DEF r, o
  <2>5. ASSUME NEW p \in DOMAIN r, NEW q \in DOMAIN r, NEW c \in C,
               Log!Asks(r[p], c), Log!Asks(r[q], c)
        PROVE  p = q
    <3>1. PICK i \in DOMAIN ms : p = o(i) + 1 /\ Log!Asks(ms[i], c)
      BY <2>2, <2>5
    <3>2. PICK l \in DOMAIN ms : q = o(l) + 1 /\ Log!Asks(ms[l], c)
      BY <2>2, <2>5
    <3>3. i = l
      BY <3>1, <3>2 DEF Paired
    <3> QED BY <3>1, <3>2, <3>3
  <2>6. ASSUME NEW p \in DOMAIN r, NEW q \in DOMAIN r, NEW c \in C,
               Log!Gives(r[p], c), Log!Gives(r[q], c)
        PROVE  p = q
    <3>1. PICK i \in DOMAIN ms : \E k \in DOMAIN ms[i].calls :
                 /\ ms[i].role = "assistant" /\ ms[i].calls[k] = c
                 /\ p = o(i) + (k + 1)
      BY <2>3, <2>6
    <3>2. PICK l \in DOMAIN ms : \E n \in DOMAIN ms[l].calls :
                 /\ ms[l].role = "assistant" /\ ms[l].calls[n] = c
                 /\ q = o(l) + (n + 1)
      BY <2>3, <2>6
    <3> QED BY <2>4, <3>1, <3>2
  <2>7. ASSUME NEW q \in DOMAIN r, NEW c \in C, Log!Gives(r[q], c)
        PROVE  \E p \in 1..(q - 1) : p \in DOMAIN r /\ Log!Asks(r[p], c)
    <3>a. PICK i \in DOMAIN ms : \E k \in DOMAIN ms[i].calls :
                 /\ ms[i].role = "assistant" /\ ms[i].calls[k] = c
                 /\ k \in Nat /\ k > 0 /\ o(i) \in Nat /\ q = o(i) + (k + 1)
      BY <2>3, <2>7
    <3>1. PICK k \in DOMAIN ms[i].calls :
                 /\ ms[i].role = "assistant" /\ ms[i].calls[k] = c
                 /\ k \in Nat /\ k > 0 /\ o(i) \in Nat /\ q = o(i) + (k + 1)
      BY <3>a
    <3>2. Emitted(C, ms, i) = <<ms[i]>> \o Results(C, ms, i) /\ Results(C, ms, i) \in Seq(M)
            /\ ms[i] \in M
      <4>1. Results(C, ms, i) \in Seq(ToolsOf(M)) /\ ms[i] \in M
        BY ResultsAre
      <4>2. Results(C, ms, i) \in Seq(M)
        BY <4>1, KindIs
      <4> QED BY <3>1, <4>1, <4>2, EmittedIs
    <3>3. 1 \in DOMAIN Emitted(C, ms, i) /\ Emitted(C, ms, i)[1] = ms[i]
      BY <3>2
    <3>4. Pieces(C, ms) \in Seq(Seq(M)) /\ i \in DOMAIN Pieces(C, ms)
            /\ Pieces(C, ms)[i] = Emitted(C, ms, i)
      BY PiecesAre
    <3>5. o(i) + 1 \in DOMAIN r /\ r[o(i) + 1] = ms[i]
      BY <3>3, <3>4, FlatPlaces DEF r, o
    <3>6. Log!Asks(ms[i], c)
      BY <3>1, AskedOnce
    <3>7. o(i) + 1 \in 1..(q - 1)
      BY <3>1
    <3> QED BY <3>5, <3>6, <3>7
  <2>8. \A q \in DOMAIN r : \A c \in C :
          Log!Gives(r[q], c) => \E p \in 1..(q - 1) : p \in DOMAIN r /\ Log!Asks(r[p], c)
    BY <2>7
  <2>9. Paired(C, r)
    BY <2>5, <2>6, <2>8 DEF Paired
  <2> QED BY <2>1, <2>9
<1> QED
  BY <1>1, <1>2

(* Every call of a repaired thread is followed by its results, but for a   *)
(* block at the very end.                                                  *)
WellPlaced(C, ms) ==
  \A i \in DOMAIN ms : \A c \in C :
    Log!Asks(ms[i], c) => \/ Log!Placed(ms, i, c)
                          \/ i = Len(ms) /\ c \notin Answered(C, ms)

LEMMA UntouchedPlaces ==
  ASSUME NEW C, NEW M, Kind(C, M), NEW ms \in Seq(M), Paired(C, ms), ~Broken(C, ms)
  PROVE  WellPlaced(C, ms)
<1> SUFFICES ASSUME NEW i \in DOMAIN ms, NEW c \in C, Log!Asks(ms[i], c)
             PROVE  \/ Log!Placed(ms, i, c)
                    \/ i = Len(ms) /\ c \notin Answered(C, ms)
  BY DEF WellPlaced
<1>1. /\ ms[i] \in M /\ ms[i].role = "assistant"
      /\ ms[i].calls \in Seq(C) /\ IsInjective(ms[i].calls)
  BY DEF Kind, Log!Asks
<1>2. ASSUME NEW d \in C, Log!Asks(ms[i], d)
      PROVE  IF d \in Answered(C, ms)
             THEN i + 1 \in DOMAIN ms /\ Log!Gives(ms[i + 1], d)
             ELSE i = Len(ms)
  <2>1. PICK k \in DOMAIN ms[i].calls : ms[i].calls[k] = d
    BY <1>2 DEF Log!Asks, Log!ToSet
  <2>2. d \in Issued(C, ms) /\ Log!LastAsk(ms, d) = i
    BY <1>1, <2>1, AskedOnce
  <2>3. CASE d \in Answered(C, ms)
    <3>1. Log!FirstResult(ms, d) = i + 1
      BY <2>2, <2>3 DEF Broken
    <3> QED BY <2>3, <3>1, FirstIs
  <2>4. CASE d \notin Answered(C, ms)
    <3>1. Log!LastAsk(ms, d) = Len(ms)
      BY <2>2, <2>4 DEF Broken
    <3> QED BY <2>2, <2>4, <3>1
  <2> QED BY <2>3, <2>4
<1>3. CASE c \notin Answered(C, ms)
  BY <1>2, <1>3
<1>4. CASE c \in Answered(C, ms)
  <2>1. i + 1 \in DOMAIN ms /\ Log!Gives(ms[i + 1], c)
    BY <1>2, <1>4
  <2>2. \A d \in C : Log!Asks(ms[i], d) => d = c
    <3> SUFFICES ASSUME NEW d \in C, Log!Asks(ms[i], d) PROVE d = c
      OBVIOUS
    <3>1. i # Len(ms)
      BY <2>1
    <3>2. Log!Gives(ms[i + 1], d)
      BY <1>2, <3>1
    <3>3. <<d>> = <<c>>
      BY <2>1, <3>2 DEF Log!Gives
    <3> QED BY <3>3
  <2>3. PICK k \in DOMAIN ms[i].calls : ms[i].calls[k] = c
    BY DEF Log!Asks, Log!ToSet
  <2>4. ms[i].calls \in Seq(C) /\ \A l, n \in DOMAIN ms[i].calls :
          ms[i].calls[l] = ms[i].calls[n] => l = n
    BY <1>1 DEF IsInjective
  <2>5. 1 \in DOMAIN ms[i].calls /\ ms[i].calls[1] \in C
    BY <2>3, <2>4
  <2>6. Log!Asks(ms[i], ms[i].calls[1])
    BY <1>1, <2>5, AskedOnce
  <2>7. ms[i].calls[1] = c
    BY <2>2, <2>5, <2>6
  <2> QED BY <2>1, <2>5, <2>7 DEF Log!Placed
<1> QED
  BY <1>3, <1>4

LEMMA MendPlaces ==
  ASSUME NEW C, NEW M, Kind(C, M), NEW ms \in Seq(M), Paired(C, ms)
  PROVE  WellPlaced(C, Mended(C, ms))
<1>1. CASE ~Broken(C, ms)
  BY <1>1, MendedIs, UntouchedPlaces
<1>2. CASE Broken(C, ms)
  <2> DEFINE r == FlattenSeq(Pieces(C, ms))
             o(i) == Offset(Pieces(C, ms), i)
  <2>1. Mended(C, ms) = r
    BY <1>2, MendedIs
  <2>2. ASSUME NEW p \in DOMAIN r, NEW c \in C, Log!Asks(r[p], c)
        PROVE  Log!Placed(r, p, c) \/ (p = Len(r) /\ c \notin Answered(C, r))
    <3>1. PICK i \in DOMAIN ms : \E j \in DOMAIN Emitted(C, ms, i) :
            p = o(i) + j /\ r[p] = Emitted(C, ms, i)[j]
      BY PlaceIs
    <3>2. PICK j \in DOMAIN Emitted(C, ms, i) : p = o(i) + j /\ r[p] = Emitted(C, ms, i)[j]
      BY <3>1
    <3>3. p = o(i) + 1 /\ r[p] = ms[i] /\ Log!Asks(ms[i], c)
      BY <2>2, <3>2, PairedEmitted
    <3>4. PICK k \in DOMAIN ms[i].calls : ms[i].calls[k] = c
      BY <3>3 DEF Log!Asks, Log!ToSet
    <3>5. /\ ms[i].role = "assistant" /\ ms[i] \in M
          /\ Emitted(C, ms, i) = <<ms[i]>> \o Results(C, ms, i)
          /\ Results(C, ms, i) \in Seq(M) /\ ms[i].calls \in Seq(C)
      <4>1. ms[i].role = "assistant"
        BY <3>3 DEF Log!Asks
      <4>2. Results(C, ms, i) \in Seq(ToolsOf(M)) /\ ms[i] \in M
              /\ ms[i].calls \in Seq(C)
        BY ResultsAre
      <4>3. Emitted(C, ms, i) = <<ms[i]>> \o Results(C, ms, i)
        BY <4>1, EmittedIs
      <4>4. Results(C, ms, i) \in Seq(M)
        BY <4>2, KindIs
      <4> QED BY <4>1, <4>2, <4>3, <4>4
    <3>6. /\ Pieces(C, ms) \in Seq(Seq(M)) /\ DOMAIN Pieces(C, ms) = DOMAIN ms
          /\ Pieces(C, ms)[i] = Emitted(C, ms, i) /\ Len(Pieces(C, ms)) = Len(ms)
      BY PiecesAre
    <3>10. /\ o(i) \in Nat
           /\ \A l \in DOMAIN Pieces(C, ms)[i] : o(i) + l \in DOMAIN r /\ r[o(i) + l] = Pieces(C, ms)[i][l]
      <4>1. i \in DOMAIN Pieces(C, ms)
        BY <3>6
      <4> QED BY <3>6, <4>1, FlatPlaces
    <3>7. o(i) \in Nat /\ k \in Nat /\ k > 0
      <4>1. k \in 1..Len(ms[i].calls) /\ Len(ms[i].calls) \in Nat
        BY <3>4, <3>5
      <4> QED BY <3>10, <4>1
    <3>8. CASE FullAt(C, ms, i)
      <4>1. Len(Results(C, ms, i)) = Len(ms[i].calls) /\ Log!Gives(Results(C, ms, i)[k], c)
        BY <3>4, <3>8 DEF FullAt
      <4>2. \A x \in M, s \in Seq(M) : \A q \in 1..Len(s) :
              q + 1 \in DOMAIN (<<x>> \o s) /\ (<<x>> \o s)[q + 1] = s[q]
        OBVIOUS
      <4>3. k \in 1..Len(Results(C, ms, i))
        BY <3>4, <3>5, <4>1
      <4>4. k + 1 \in DOMAIN Emitted(C, ms, i) /\ Emitted(C, ms, i)[k + 1] = Results(C, ms, i)[k]
        BY <3>5, <4>2, <4>3, Zenon
      <4>5. o(i) + (k + 1) \in DOMAIN r /\ r[o(i) + (k + 1)] = Emitted(C, ms, i)[k + 1]
        <5> HIDE DEF r, o
        <5> QED BY <3>6, <3>10, <4>4
      <4>6. p + k = o(i) + (k + 1)
        BY <3>3, <3>7
      <4>7. p + k \in DOMAIN r /\ Log!Gives(r[p + k], c)
        BY <4>1, <4>4, <4>5, <4>6
      <4> HIDE DEF r, o
      <4> QED BY <3>3, <3>4, <4>7 DEF Log!Placed
    <3>9. CASE OpenAt(C, ms, i)
      <4>1. i = Len(ms) /\ Results(C, ms, i) = <<>> /\ c \notin Answered(C, ms)
        BY <3>4, <3>9 DEF OpenAt
      <4>2. Len(Emitted(C, ms, i)) = 1
        BY <3>5, <4>1
      <4>3. Len(r) = o(i + 1) /\ o(i + 1) = o(i) + Len(Pieces(C, ms)[i])
        BY <3>6, <4>1, FlatPlaces
      <4>4. p = Len(r)
        BY <3>3, <3>6, <4>2, <4>3
      <4>5. ASSUME c \in Answered(C, r) PROVE FALSE
        <5>1. PICK q \in DOMAIN r : Log!Gives(r[q], c)
          BY <4>5 DEF Answered
        <5>2. Paired(C, r)
          BY <2>1, MendPairs
        <5>3. PICK a \in 1..(q - 1) : a \in DOMAIN r /\ Log!Asks(r[a], c)
          BY <5>1, <5>2 DEF Paired
        <5>4. a = p
          BY <2>2, <5>2, <5>3 DEF Paired
        <5>5. r \in Seq(M)
          BY <3>6, FlatInSeq
        <5> HIDE DEF r
        <5>6. q \in 1..Len(r) /\ Len(r) \in Nat
          BY <5>1, <5>5
        <5> QED BY <4>4, <5>3, <5>4, <5>6
      <4> QED BY <4>4, <4>5
    <3> QED BY <3>5, <3>8, <3>9, BlockEmitted
  <2>3. WellPlaced(C, r)
    <3> HIDE DEF r
    <3> QED BY <2>2 DEF WellPlaced
  <2> QED BY <2>1, <2>3
<1> QED
  BY <1>1, <1>2

-----------------------------------------------------------------------------
(* The conversation log: its messages, and what a load makes of them.      *)

(* What answers a call, and what the messages are. *)
Tools == {Log!Result(c) : c \in LogCalls} \cup {Log!Placeholder(c) : c \in LogCalls}

LEMMA BlockIs ==
  ASSUME NEW cs \in Log!Blocks
  PROVE  /\ cs \in Seq(LogCalls) /\ Len(cs) \in 0..2 /\ DOMAIN cs = 1..Len(cs)
         /\ \A k, l \in DOMAIN cs : cs[k] = cs[l] => k = l
<1>1. CASE cs = <<>>
  BY <1>1
<1>2. ASSUME NEW c \in LogCalls, cs = <<c>>
      PROVE  /\ cs \in Seq(LogCalls) /\ Len(cs) \in 0..2 /\ DOMAIN cs = 1..Len(cs)
             /\ \A k, l \in DOMAIN cs : cs[k] = cs[l] => k = l
  BY <1>2
<1>3. ASSUME NEW c \in LogCalls, NEW d \in LogCalls, c # d, cs = <<c, d>>
      PROVE  /\ cs \in Seq(LogCalls) /\ Len(cs) \in 0..2 /\ DOMAIN cs = 1..Len(cs)
             /\ \A k, l \in DOMAIN cs : cs[k] = cs[l] => k = l
  <2>1. DOMAIN cs = {1, 2} /\ cs[1] # cs[2] /\ Len(cs) = 2 /\ cs \in Seq(LogCalls)
    BY <1>3
  <2> QED BY <2>1
<1> QED
  BY <1>1, <1>2, <1>3 DEF Log!Blocks

LEMMA MessageIs ==
  ASSUME NEW m \in Log!Messages
  PROVE  /\ m.calls \in Log!Blocks
         /\ m.role = "assistant" => m = Log!Assistant(m.calls)
         /\ m.role = "tool" <=> m \in Tools
         /\ m.role # "tool" <=> m \in Log!Spoken
         /\ m.role # "torn"
<1> USE DEF Log!Messages, Log!Spoken, Tools, Log!User, Log!Notice, Log!Assistant,
            Log!Result, Log!Placeholder
<1>1. <<>> \in Log!Blocks /\ \A c \in LogCalls : <<c>> \in Log!Blocks
  BY DEF Log!Blocks
<1>2. CASE m = Log!User \/ m = Log!Notice
  BY <1>1, <1>2
<1>3. ASSUME NEW cs \in Log!Blocks, m = Log!Assistant(cs)
      PROVE  /\ m.calls = cs /\ m.role = "assistant" /\ m \in Log!Spoken
             /\ m \notin Tools
  BY <1>3
<1>4. CASE m \in Tools
  BY <1>1, <1>4
<1>5. CASE \E cs \in Log!Blocks : m = Log!Assistant(cs)
  <2> USE DEF Log!Messages
  <2>1. PICK cs \in Log!Blocks : m = Log!Assistant(cs)
    BY <1>5
  <2>2. m.calls = cs /\ m.role = "assistant" /\ m \in Log!Spoken /\ m \notin Tools
    BY <1>3, <2>1
  <2> QED
    BY ONLY <2>1, <2>2
<1> QED
  BY <1>2, <1>4, <1>5

LEMMA ToolIs ==
  /\ Tools \subseteq Log!Messages /\ Log!Spoken \subseteq Log!Messages
  /\ Log!Messages = Log!Spoken \cup Tools /\ Tools \cap Log!Spoken = {}
  /\ \A m \in Tools : m.role = "tool" /\ \E c \in LogCalls : m.calls = <<c>> /\ Log!Gives(m, c)
  /\ \A c \in LogCalls : Log!Placeholder(c) \in Tools /\ Log!Gives(Log!Placeholder(c), c)
  /\ \A m \in Log!Messages : \A c : Log!Gives(m, c) => m \in Tools
  /\ \A m \in Log!Messages : \A c : Log!Asks(m, c) => m \notin Tools
<1>1. Log!Messages = Log!Spoken \cup Tools
  BY DEF Log!Messages, Tools
<1>2. \A m \in Log!Messages : m.role = "tool" <=> m \in Tools
  BY MessageIs
<1>3. \A m \in Log!Messages : m.role # "tool" <=> m \in Log!Spoken
  BY MessageIs
<1>4. \A m \in Tools : m.role = "tool" /\ \E c \in LogCalls : m.calls = <<c>> /\ Log!Gives(m, c)
  BY DEF Tools, Log!Result, Log!Placeholder, Log!Gives
<1>5. \A c \in LogCalls : Log!Placeholder(c) \in Tools /\ Log!Gives(Log!Placeholder(c), c)
  BY DEF Tools, Log!Placeholder, Log!Gives
<1> QED
  BY <1>1, <1>2, <1>3, <1>4, <1>5 DEF Log!Gives, Log!Asks

LEMMA SameKept == \A s, T : Log!Kept(s, T) = Kept(s, T)
  BY DEF Log!Kept, Kept

LEMMA LogKind ==
  /\ Kind(LogCalls, Log!Messages)
  /\ ToolsOf(Log!Messages) = Tools /\ WordsOf(Log!Messages) = Log!Spoken
<1>1. ASSUME NEW m \in Log!Messages
      PROVE  /\ m.calls \in Seq(LogCalls) /\ IsInjective(m.calls)
             /\ m.role = "tool" => \E c \in LogCalls : m.calls = <<c>>
  <2>1. m.calls \in Log!Blocks /\ (m.role = "tool" => m \in Tools)
    BY MessageIs
  <2>2. m.calls \in Seq(LogCalls) /\ IsInjective(m.calls)
    BY <2>1, BlockIs DEF IsInjective
  <2> QED BY <2>1, <2>2, ToolIs
<1>2. \A c \in LogCalls : Log!Placeholder(c) \in Log!Messages
  BY ToolIs
<1>3. \A m \in Log!Messages : (m.role = "tool" <=> m \in Tools) /\ (m.role # "tool" <=> m \in Log!Spoken)
  BY MessageIs
<1> QED
  BY <1>1, <1>2, <1>3, ToolIs DEF Kind, ToolsOf, WordsOf

LEMMA LogMends ==
  ASSUME NEW ms
  PROVE  /\ Log!Repaired(ms) = Mended(LogCalls, ms)
         /\ Log!IssuedIn(ms) = Issued(LogCalls, ms)
         /\ Log!AnsweredIn(ms) = Answered(LogCalls, ms)
  BY 
     DEF Log!Repaired, Log!Rebuilt, Log!Found, Log!NeedsRepair, Log!IssuedIn,
         Log!AnsweredIn,
         Mended, Broken, Issued, Answered, Pieces, Emitted, Moved, ResultsAt, ResultOf,
         Log!FlattenSeq, FlattenSeq

Matched(ms) == Paired(LogCalls, ms)

(* What the repair of the log does: no word and no real result is left     *)
(* out, each call has its results after it, and none has two.              *)
LEMMA LogRepairIs ==
  ASSUME NEW ms \in Seq(Log!Messages)
  PROVE  /\ Log!Repaired(ms) \in Seq(Log!Messages)
         /\ Kept(Log!Repaired(ms), Log!Spoken) = Kept(ms, Log!Spoken)
         /\ Log!RealIn(ms) \subseteq Log!RealIn(Log!Repaired(ms))
         /\ Matched(ms) =>
              Matched(Log!Repaired(ms)) /\ WellPlaced(LogCalls, Log!Repaired(ms))
<1>1. Kind(LogCalls, Log!Messages) /\ WordsOf(Log!Messages) = Log!Spoken
  BY LogKind
<1>2. Log!Repaired(ms) = Mended(LogCalls, ms)
  BY LogMends
<1>3. Mended(LogCalls, ms) \in Seq(Log!Messages)
  BY <1>1, MendedInSeq
<1>4. Kept(Mended(LogCalls, ms), WordsOf(Log!Messages)) = Kept(ms, WordsOf(Log!Messages))
  BY <1>1, MendKeepsWords
<1>5. Log!RealIn(ms) \subseteq Log!RealIn(Mended(LogCalls, ms))
  BY <1>1, MendKeepsResults
<1>6. Paired(LogCalls, ms) =>
        Paired(LogCalls, Mended(LogCalls, ms)) /\ WellPlaced(LogCalls, Mended(LogCalls, ms))
  BY <1>1, MendPairs, MendPlaces
<1> QED
  BY <1>1, <1>2, <1>3, <1>4, <1>5, <1>6 DEF Matched

-----------------------------------------------------------------------------
(* The conversation log: the file. *)

Begins(s, t) == \E r \in Seq(Log!Messages) : t = s \o r

FileOK(d) ==
  /\ d \in [lines : Seq(Log!Messages \cup {Log!Torn}), closed : BOOLEAN]
  /\ d.closed => d.lines \in Seq(Log!Messages)

LEMMA BeginsIs ==
  ASSUME NEW s \in Seq(Log!Messages), NEW t \in Seq(Log!Messages)
  PROVE  /\ Begins(s, t) <=> Log!IsPrefix(s, t)
         /\ Begins(s, t) => /\ Len(s) <= Len(t) /\ SubSeq(t, 1, Len(s)) = s
                            /\ \A i \in DOMAIN s : i \in DOMAIN t /\ s[i] = t[i]
<1>1. ASSUME Begins(s, t)
      PROVE  /\ Len(s) <= Len(t) /\ SubSeq(t, 1, Len(s)) = s /\ SubSeq(s, 1, Len(s)) = s
             /\ \A i \in DOMAIN s : i \in DOMAIN t /\ s[i] = t[i]
  <2>1. PICK r \in Seq(Log!Messages) : t = s \o r
    BY <1>1 DEF Begins
  <2>2. /\ Len(s) \in Nat /\ Len(s) <= Len(t)
        /\ \A i \in DOMAIN s : i \in DOMAIN t /\ s[i] = t[i]
    BY <2>1
  <2>3. SubSeq(t, 1, Len(s)) \in Seq(Log!Messages) /\ Len(SubSeq(t, 1, Len(s))) = Len(s)
          /\ \A i \in 1..Len(s) : SubSeq(t, 1, Len(s))[i] = t[i]
    BY <2>2
  <2>4. SubSeq(t, 1, Len(s)) = s
    BY <2>2, <2>3, SeqEqual
  <2>5. SubSeq(s, 1, Len(s)) = s
    OBVIOUS
  <2> QED BY <2>2, <2>4, <2>5
<1>2. ASSUME Log!IsPrefix(s, t) PROVE Begins(s, t)
  <2>1. Len(s) <= Len(t) /\ SubSeq(t, 1, Len(s)) = s
    BY <1>2 DEF Log!IsPrefix
  <2>2. Len(s) \in 0..Len(t)
    BY <2>1
  <2>3. SubSeq(t, Len(s) + 1, Len(t)) \in Seq(Log!Messages)
          /\ t = SubSeq(t, 1, Len(s)) \o SubSeq(t, Len(s) + 1, Len(t))
    BY <2>2, SeqSplit
  <2> QED BY <2>1, <2>3 DEF Begins
<1> QED
  BY <1>1, <1>2 DEF Log!IsPrefix

LEMMA BeginsOf ==
  ASSUME NEW s \in Seq(Log!Messages), NEW t \in Seq(Log!Messages)
  PROVE  /\ Begins(s, s)
         /\ Begins(s, t) => /\ \A x \in Log!Messages : Begins(s, Append(t, x))
                            /\ \A u \in Seq(Log!Messages) : Begins(t, u) => Begins(s, u)
                            /\ Begins(Kept(s, Log!Spoken), Kept(t, Log!Spoken))
                            /\ Log!RealIn(s) \subseteq Log!RealIn(t)
                            /\ Len(s) = Len(t) => s = t
<1>1. Begins(s, s)
  <2>1. <<>> \in Seq(Log!Messages) /\ s = s \o <<>>
    OBVIOUS
  <2> QED BY <2>1 DEF Begins
<1> SUFFICES ASSUME Begins(s, t)
             PROVE  /\ \A x \in Log!Messages : Begins(s, Append(t, x))
                    /\ \A u \in Seq(Log!Messages) : Begins(t, u) => Begins(s, u)
                    /\ Begins(Kept(s, Log!Spoken), Kept(t, Log!Spoken))
                    /\ Log!RealIn(s) \subseteq Log!RealIn(t)
                    /\ Len(s) = Len(t) => s = t
  BY <1>1
<1>2. PICK r \in Seq(Log!Messages) : t = s \o r
  BY DEF Begins
<1>3. ASSUME NEW x \in Log!Messages PROVE Begins(s, Append(t, x))
  <2> DEFINE A == Log!Messages
  <2>a. s \in Seq(A) /\ r \in Seq(A) /\ x \in A /\ t = s \o r
    BY <1>2
  <2> HIDE DEF A
  <2>b. Append(r, x) \in Seq(A) /\ Append(s \o r, x) = s \o Append(r, x)
    <3>1. s \o r \in Seq(A) /\ <<x>> \in Seq(A) /\ Append(r, x) \in Seq(A)
      BY ONLY <2>a
    <3>2. Append(s \o r, x) = (s \o r) \o <<x>> /\ Append(r, x) = r \o <<x>>
      BY ONLY <2>a, <3>1, AppendIsConcat
    <3>3. (s \o r) \o <<x>> = s \o (r \o <<x>>)
      BY ONLY <2>a, <3>1, ConcatAssociative
    <3> QED BY <3>1, <3>2, <3>3
  <2>1. Append(t, x) = s \o Append(r, x) /\ Append(r, x) \in Seq(Log!Messages)
    BY <2>a, <2>b DEF A
  <2> QED BY <2>1 DEF Begins
<1>4. ASSUME NEW u \in Seq(Log!Messages), Begins(t, u) PROVE Begins(s, u)
  <2>1. PICK q \in Seq(Log!Messages) : u = t \o q
    BY <1>4 DEF Begins
  <2>2. u = s \o (r \o q) /\ r \o q \in Seq(Log!Messages)
    BY <1>2, <2>1
  <2> QED BY <2>2 DEF Begins
<1>5. Begins(Kept(s, Log!Spoken), Kept(t, Log!Spoken))
  <2>1. Kept(s \o r, Log!Spoken) = Kept(s, Log!Spoken) \o Kept(r, Log!Spoken)
    BY <1>2, KeptConcat
  <2>2. Kept(r, Log!Spoken) \in Seq(Log!Messages)
    BY <1>2, KeptInSeq
  <2> QED BY <1>2, <2>1, <2>2 DEF Begins
<1>6. Log!RealIn(s) \subseteq Log!RealIn(t)
  <2>1. Log!ToSet(s) \subseteq Log!ToSet(t)
    BY BeginsIs DEF Log!ToSet
  <2> QED BY <2>1 DEF Log!RealIn
<1>7. Len(s) = Len(t) => s = t
  <2>1. \A i \in DOMAIN s : s[i] = t[i]
    BY BeginsIs
  <2> QED BY <2>1, SeqEqual
<1> QED
  BY <1>3, <1>4, <1>5, <1>6, <1>7

LEMMA MatchedBefore ==
  ASSUME NEW s \in Seq(Log!Messages), NEW t \in Seq(Log!Messages), Begins(s, t), Matched(t)
  PROVE  Matched(s)
<1>1. \A i \in DOMAIN s : i \in DOMAIN t /\ s[i] = t[i]
  BY BeginsIs
<1>2. ASSUME NEW j \in DOMAIN s, NEW c \in LogCalls, Log!Gives(s[j], c)
      PROVE  \E i \in 1..(j - 1) : i \in DOMAIN s /\ Log!Asks(s[i], c)
  <2>1. PICK i \in 1..(j - 1) : i \in DOMAIN t /\ Log!Asks(t[i], c)
    BY <1>1, <1>2 DEF Matched, Paired
  <2>2. i \in DOMAIN s
    <3>1. j \in 1..Len(s) /\ Len(s) \in Nat /\ DOMAIN s = 1..Len(s)
      OBVIOUS
    <3> QED BY <3>1
  <2> QED BY <1>1, <2>1, <2>2
<1> QED
  BY <1>1, <1>2 DEF Matched, Paired

LEMMA ParsedIs ==
  ASSUME NEW d, FileOK(d)
  PROVE  /\ Log!Parsed(d) \in Seq(Log!Messages)
         /\ d.lines \in Seq(Log!Messages) => Log!Parsed(d) = d.lines
<1> DEFINE S == Log!Messages \cup {Log!Torn}
           P == Log!Parsed(d)
<1>1. d.lines \in Seq(S) /\ P = Kept(d.lines, Log!Messages)
  BY SameKept DEF Log!Parsed, FileOK
<1>2. P \in Seq(S) /\ Range(P) = Range(d.lines) \cap Log!Messages
  BY <1>1, KeptIs
<1> HIDE DEF P, S
<1>3. P \in Seq(Log!Messages)
  <2>1. \A i \in 1..Len(P) : P[i] \in Range(P)
    BY <1>2, RangeHas
  <2>2. \A i \in 1..Len(P) : P[i] \in Log!Messages
    BY <1>2, <2>1
  <2> QED BY <1>2, <2>2
<1>4. d.lines \in Seq(Log!Messages) => P = d.lines
  BY <1>1, KeptAll
<1> QED
  BY <1>3, <1>4 DEF P

LEMMA FileIs ==
  ASSUME NEW ms \in Seq(Log!Messages)
  PROVE  FileOK(Log!File(ms)) /\ Log!File(ms).lines = ms /\ Log!Parsed(Log!File(ms)) = ms
<1>1. ms \in Seq(Log!Messages \cup {Log!Torn})
  OBVIOUS
<1>2. FileOK(Log!File(ms)) /\ Log!File(ms).lines = ms
  BY <1>1 DEF FileOK, Log!File
<1> QED
  BY <1>2, ParsedIs

LEMMA RereadIs ==
  ASSUME NEW d, FileOK(d)
  PROVE  /\ FileOK(Log!Reread(d)) /\ Log!Reread(d).lines = Log!Repaired(Log!Parsed(d))
         /\ Log!Parsed(Log!Reread(d)) = Log!Repaired(Log!Parsed(d))
         /\ Log!Repaired(Log!Parsed(d)) \in Seq(Log!Messages)
<1>1. Log!Repaired(Log!Parsed(d)) \in Seq(Log!Messages)
  BY ParsedIs, LogRepairIs
<1>2. CASE Log!Repaired(Log!Parsed(d)) = d.lines
  BY <1>1, <1>2, ParsedIs DEF Log!Reread
<1>3. CASE Log!Repaired(Log!Parsed(d)) # d.lines
  BY <1>1, <1>3, FileIs DEF Log!Reread
<1> QED
  BY <1>2, <1>3

(* What lies between the lines of the file and those that are added. *)
LEMMA AddedIs ==
  ASSUME NEW s \in Seq(Log!Messages), NEW ms \in Seq(Log!Messages),
         NEW k \in 0..(Len(ms) - Len(s))
  PROVE  /\ s \o SubSeq(ms, Len(s) + 1, Len(s) + k) \in Seq(Log!Messages)
         /\ Begins(s, s \o SubSeq(ms, Len(s) + 1, Len(s) + k))
         /\ Begins(s, ms) => Begins(s \o SubSeq(ms, Len(s) + 1, Len(s) + k), ms)
         /\ Begins(s, ms) /\ k = Len(ms) - Len(s)
              => s \o SubSeq(ms, Len(s) + 1, Len(s) + k) = ms
<1> DEFINE n == Len(s)
           a == SubSeq(ms, n + 1, n + k)
<1>1. n \in Nat /\ Len(ms) \in Nat /\ n \in 0..Len(ms) /\ n + k \in n..Len(ms) /\ k \in Nat
        /\ n + k \in 0..Len(ms)
  OBVIOUS
<1>2. a \in Seq(Log!Messages)
  BY <1>1, SubSeqIs
<1>3. s \o a \in Seq(Log!Messages) /\ Begins(s, s \o a)
  <2> HIDE DEF a
  <2>1. s \o a \in Seq(Log!Messages)
    BY <1>2
  <2> QED BY <1>2, <2>1 DEF Begins
<1>4. ASSUME Begins(s, ms) PROVE s \o a = SubSeq(ms, 1, n + k)
  <2>1. s = SubSeq(ms, 1, n)
    BY <1>4, BeginsIs
  <2>2. \A i \in 1..n : s[i] = ms[i]
    BY <1>4, BeginsIs
  <2>3. Len(a) = k /\ \A i \in 1..k : a[i] = ms[n + i]
    <3>1. Len(a) = (n + k) - n /\ \A i \in 1..((n + k) - n) : a[i] = ms[n + i]
      BY <1>1, SubSeqIs
    <3>2. (n + k) - n = k
      BY <1>1
    <3> QED BY <3>1, <3>2
  <2> DEFINE b == SubSeq(ms, 1, n + k)
  <2>4. b \in Seq(Log!Messages) /\ Len(b) = n + k /\ \A i \in 1..(n + k) : b[i] = ms[i]
    BY <1>1
  <2> HIDE DEF a, b
  <2>5. Len(s \o a) = n + k /\ \A i \in 1..(n + k) : (s \o a)[i] = IF i <= n THEN s[i] ELSE a[i - n]
    <3>1. s \in Seq(Log!Messages) /\ a \in Seq(Log!Messages) /\ Len(s) = n
      BY <1>2
    <3>2. Len(s \o a) = n + k /\ \A i \in 1..(Len(s) + Len(a)) :
            (s \o a)[i] = IF i <= Len(s) THEN s[i] ELSE a[i - Len(s)]
      <4> HIDE DEF n
      <4> QED BY ONLY <2>3, <3>1, ConcatProperties
    <3> QED BY <2>3, <3>1, <3>2
  <2>6. \A i \in 1..(n + k) : (s \o a)[i] = b[i]
    <3> SUFFICES ASSUME NEW i \in 1..(n + k) PROVE (s \o a)[i] = b[i]
      OBVIOUS
    <3>1. CASE i <= n
      BY <1>1, <2>2, <2>4, <2>5, <3>1
    <3>2. CASE ~(i <= n)
      <4>1. i - n \in 1..k /\ n + (i - n) = i
        BY <1>1, <3>2
      <4>2. (s \o a)[i] = a[i - n]
        BY <2>5, <3>2
      <4> QED BY <2>3, <2>4, <4>1, <4>2
    <3> QED BY <3>1, <3>2
  <2> HIDE DEF n
  <2>7. s \o a = b
    BY ONLY <1>3, <2>4, <2>5, <2>6, SeqEqual
  <2> QED BY <2>7 DEF b
<1>5. ASSUME Begins(s, ms) PROVE Begins(s \o a, ms)
  <2>1. SubSeq(ms, (n + k) + 1, Len(ms)) \in Seq(Log!Messages)
          /\ ms = SubSeq(ms, 1, n + k) \o SubSeq(ms, (n + k) + 1, Len(ms))
    BY <1>1, SeqSplit
  <2> QED BY <1>4, <1>5, <2>1 DEF Begins
<1>6. ASSUME Begins(s, ms), k = Len(ms) - Len(s) PROVE s \o a = ms
  <2>1. SubSeq(ms, 1, n + k) = ms
    <3>1. n + k = Len(ms)
      BY <1>1, <1>6
    <3> QED BY <3>1
  <2> QED BY <1>4, <1>6, <2>1
<1> QED
  BY <1>3, <1>5, <1>6

LEMMA StoredIs ==
  ASSUME NEW d, FileOK(d), NEW ms \in Seq(Log!Messages)
  PROVE  /\ FileOK(Log!Stored(d, ms))
         /\ Begins(Log!Parsed(d), ms) =>
              Log!Stored(d, ms).lines = ms /\ Log!Parsed(Log!Stored(d, ms)) = ms
<1> DEFINE n == Len(d.lines)
<1>0. n \in Nat /\ Len(ms) \in Nat /\ d.closed \in BOOLEAN
  BY DEF FileOK
<1>1. CASE ~d.closed \/ Len(ms) < n
  <2>1. Log!Stored(d, ms) = Log!File(ms)
    BY <1>0, <1>1 DEF Log!Stored
  <2> QED BY <2>1, FileIs
<1>2. CASE d.closed /\ Len(ms) > n
  <2> DEFINE t == d.lines \o SubSeq(ms, n + 1, Len(ms))
  <2>1. Log!Stored(d, ms) = Log!File(t)
    BY <1>0, <1>2 DEF Log!Stored
  <2>2. d.lines \in Seq(Log!Messages) /\ Log!Parsed(d) = d.lines
    BY <1>2, ParsedIs DEF FileOK
  <2>3. Len(ms) - n \in 0..(Len(ms) - n) /\ n + (Len(ms) - n) = Len(ms)
    BY <1>0, <1>2
  <2>4. t \in Seq(Log!Messages) /\ (Begins(d.lines, ms) => t = ms)
    BY <2>2, <2>3, AddedIs
  <2> HIDE DEF t
  <2> QED BY <2>1, <2>2, <2>4, FileIs
<1>3. CASE d.closed /\ Len(ms) = n
  <2>1. Log!Stored(d, ms) = d
    BY <1>0, <1>3 DEF Log!Stored
  <2>2. d.lines \in Seq(Log!Messages) /\ Log!Parsed(d) = d.lines
    BY <1>3, ParsedIs DEF FileOK
  <2>3. Begins(d.lines, ms) => d.lines = ms
    BY <1>3, <2>2, BeginsOf
  <2> QED BY <2>1, <2>2, <2>3
<1> QED
  BY <1>0, <1>1, <1>2, <1>3

LEMMA CutIs ==
  ASSUME NEW d, FileOK(d), NEW ms \in Seq(Log!Messages), NEW e \in Log!Cut(d, ms)
  PROVE  /\ FileOK(e)
         /\ Begins(Log!Parsed(d), ms) =>
              Begins(Log!Parsed(d), Log!Parsed(e)) /\ Begins(Log!Parsed(e), ms)
<1> DEFINE n == Len(d.lines)
           S == Log!Messages \cup {Log!Torn}
           t(k) == d.lines \o SubSeq(ms, n + 1, n + k)
<1>0. n \in Nat /\ Len(ms) \in Nat /\ d.closed \in BOOLEAN
  BY DEF FileOK
<1>1. CASE ~d.closed \/ Len(ms) <= n
  <2>1. e = d
    BY <1>1 DEF Log!Cut
  <2> QED BY <2>1, ParsedIs, BeginsOf
<1>2. CASE d.closed /\ n < Len(ms)
  <2>1. d.lines \in Seq(Log!Messages) /\ Log!Parsed(d) = d.lines
    BY <1>2, ParsedIs DEF FileOK
  <2>2. PICK k \in 0..(Len(ms) - n - 1) :
          \/ e = Log!File(t(k))
          \/ e = [lines |-> t(k + 1), closed |-> FALSE]
          \/ e = [lines |-> Append(t(k), Log!Torn), closed |-> FALSE]
    <3> DEFINE M == 0..(Len(ms) - n - 1)
               A == {Log!File(t(k)) : k \in M}
               B == {[lines |-> t(k + 1), closed |-> FALSE] : k \in M}
               C == {[lines |-> Append(t(k), Log!Torn), closed |-> FALSE] : k \in M}
    <3>1. ~(~d.closed \/ Len(ms) <= n)
      BY <1>0, <1>2
    <3>2. Log!Cut(d, ms) = IF ~d.closed \/ Len(ms) <= n THEN {d} ELSE A \cup B \cup C
      BY DEF Log!Cut
    <3>3. e \in A \/ e \in B \/ e \in C
      <4> HIDE DEF A, B, C
      <4> QED BY <3>1, <3>2
    <3> HIDE DEF t, M, n
    <3> QED BY ONLY <3>3 DEF A, B, C, M
  <2>3. ASSUME NEW j \in {k, k + 1}
        PROVE  /\ t(j) \in Seq(Log!Messages) /\ Begins(d.lines, t(j))
               /\ Begins(d.lines, ms) => Begins(t(j), ms)
    <3>1. j \in 0..(Len(ms) - n)
      BY <1>0, <1>2
    <3> QED BY <2>1, <3>1, AddedIs
  <2> HIDE DEF t
  <2>4. CASE e = Log!File(t(k))
    BY <2>1, <2>3, <2>4, FileIs
  <2>5. CASE e = [lines |-> t(k + 1), closed |-> FALSE]
    <3>1. FileOK(e) /\ e.lines = t(k + 1)
      BY <2>3, <2>5 DEF FileOK
    <3> QED BY <2>1, <2>3, <3>1, ParsedIs
  <2>6. CASE e = [lines |-> Append(t(k), Log!Torn), closed |-> FALSE]
    <3>1. t(k) \in Seq(S) /\ Log!Torn \in S
      BY <2>3
    <3>2. Append(t(k), Log!Torn) \in Seq(S)
      BY <3>1
    <3>3. FileOK(e) /\ e.lines = Append(t(k), Log!Torn)
      BY <2>6, <3>2 DEF FileOK
    <3>4. Log!Torn \notin Log!Messages
      BY MessageIs DEF Log!Torn
    <3>5. Kept(Append(t(k), Log!Torn), Log!Messages) = Kept(t(k), Log!Messages)
      BY <3>1, <3>4, KeptAppend
    <3>6. Kept(t(k), Log!Messages) = t(k)
      BY <2>3, KeptAll
    <3>7. Log!Parsed(e) = t(k)
      BY <3>3, <3>5, <3>6, SameKept DEF Log!Parsed
    <3> QED BY <2>1, <2>3, <3>3, <3>7
  <2> QED BY <2>2, <2>4, <2>5, <2>6
<1> QED
  BY <1>0, <1>1, <1>2

-----------------------------------------------------------------------------
(* The conversation log: its invariant. *)

(* While no load has changed the log under a running engine, the log       *)
(* holds what the last save confirmed and begins the engine's list, and    *)
(* both are matched; a last reply is not on disk before the turn's end.    *)
LogHolds ==
  LET P == Log!Parsed(lines)
  IN /\ Matched(P)
     /\ Begins(Kept(kept, Log!Spoken), Kept(P, Log!Spoken))
     /\ Log!RealIn(kept) \subseteq Log!RealIn(P)
     /\ open => /\ Matched(msgs) /\ Begins(P, msgs)
                /\ turn = "replied" => Len(P) < Len(msgs)

LogInv ==
  /\ Log!TypeOK
  /\ FileOK(lines)
  /\ ~meddled => LogHolds

(* A message that asks for no call and answers none. *)
LEMMA MatchedPlain ==
  ASSUME NEW ms \in Seq(Log!Messages), Matched(ms), NEW m \in {Log!User, Log!Notice}
  PROVE  Matched(Append(ms, m)) /\ m \in Log!Messages
<1>1. m \in Log!Messages /\ \A c : ~Log!Asks(m, c) /\ ~Log!Gives(m, c)
  BY DEF Log!Messages, Log!Spoken, Log!User, Log!Notice, Log!Asks, Log!Gives
<1> DEFINE r == Append(ms, m)
           n == Len(ms)
<1>2. /\ n \in Nat /\ DOMAIN ms = 1..n /\ DOMAIN r = 1..(n + 1) /\ r[n + 1] = m
      /\ \A i \in 1..n : r[i] = ms[i]
  OBVIOUS
<1> HIDE DEF r, n
<1>3. \A i \in DOMAIN r : \A c : Log!Asks(r[i], c) \/ Log!Gives(r[i], c) =>
        i \in 1..n /\ r[i] = ms[i]
  BY <1>1, <1>2
<1>4. ASSUME NEW j \in DOMAIN r, NEW c \in LogCalls, Log!Gives(r[j], c)
      PROVE  \E i \in 1..(j - 1) : i \in DOMAIN r /\ Log!Asks(r[i], c)
  <2>1. j \in DOMAIN ms /\ Log!Gives(ms[j], c)
    BY <1>2, <1>3, <1>4
  <2>2. PICK i \in 1..(j - 1) : i \in DOMAIN ms /\ Log!Asks(ms[i], c)
    BY <2>1 DEF Matched, Paired
  <2> QED BY <1>2, <2>2
<1>5. Matched(r)
  BY <1>2, <1>3, <1>4 DEF Matched, Paired
<1> QED
  BY <1>1, <1>5 DEF r

LEMMA MatchedReply ==
  ASSUME NEW ms \in Seq(Log!Messages), Matched(ms), NEW cs \in Log!Blocks,
         Log!ToSet(cs) \cap Log!IssuedIn(ms) = {}
  PROVE  Matched(Append(ms, Log!Assistant(cs))) /\ Log!Assistant(cs) \in Log!Messages
<1> DEFINE m == Log!Assistant(cs)
           r == Append(ms, m)
           n == Len(ms)
<1>1. m \in Log!Messages /\ \A c : ~Log!Gives(m, c)
  BY DEF Log!Messages, Log!Spoken, Log!Assistant, Log!Gives
<1>2. \A c \in LogCalls : Log!Asks(m, c) => \A i \in DOMAIN ms : ~Log!Asks(ms[i], c)
  BY DEF Log!Asks, Log!IssuedIn, Log!Assistant
<1>3. /\ n \in Nat /\ DOMAIN ms = 1..n /\ DOMAIN r = 1..(n + 1) /\ r[n + 1] = m
      /\ \A i \in 1..n : r[i] = ms[i]
  BY <1>1
<1> HIDE DEF r, n, m
<1>4. \A i, j \in DOMAIN r : \A c \in LogCalls : Log!Asks(r[i], c) /\ Log!Asks(r[j], c) => i = j
  BY <1>2, <1>3 DEF Matched, Paired
<1>5. \A i \in DOMAIN r : \A c \in LogCalls : Log!Gives(r[i], c) => i \in DOMAIN ms /\ r[i] = ms[i]
  BY <1>1, <1>3
<1>6. ASSUME NEW j \in DOMAIN r, NEW c \in LogCalls, Log!Gives(r[j], c)
      PROVE  \E i \in 1..(j - 1) : i \in DOMAIN r /\ Log!Asks(r[i], c)
  <2>1. j \in DOMAIN ms /\ Log!Gives(ms[j], c)
    BY <1>5, <1>6
  <2>2. PICK i \in 1..(j - 1) : i \in DOMAIN ms /\ Log!Asks(ms[i], c)
    BY <2>1 DEF Matched, Paired
  <2> QED BY <1>3, <2>2
<1>7. Matched(r)
  BY <1>4, <1>5, <1>6 DEF Matched, Paired
<1> QED
  BY <1>1, <1>7 DEF r, m

(* _unanswered_trailing_tool_calls: calls asked for, without a result. *)
LEMMA UnansweredIs ==
  ASSUME NEW ms \in Seq(Log!Messages), NEW c \in Log!Unanswered(ms), c \in LogCalls
  PROVE  c \notin Log!AnsweredIn(ms) /\ \E i \in DOMAIN ms : Log!Asks(ms[i], c)
<1> DEFINE n == Len(ms)
           I == {i \in 1..n : ms[i].role = "assistant" /\ ms[i].calls # <<>>}
           b == Log!LastBlock(ms)
<1>1. b = IF I # {} THEN Log!Max(I) ELSE 0
  BY DEF Log!LastBlock, Log!SelectLastInSeq
<1>2. ~(b <= Log!LastUser(ms)) /\ c \in Log!ToSet(ms[b].calls) /\ c \notin Log!AnsweredIn(ms)
  BY DEF Log!Unanswered
<1>3. n \in Nat
  OBVIOUS
<1>4. I # {}
  <2> DEFINE U == {i \in 1..n : ms[i].role = "user"}
  <2>1. Log!LastUser(ms) = IF U # {} THEN Log!Max(U) ELSE 0
    BY DEF Log!LastUser, Log!SelectLastInSeq
  <2>2. U # {} => Log!Max(U) \in U
    BY <1>3, MaxIs
  <2>3. 0 <= Log!LastUser(ms)
    BY <1>3, <2>1, <2>2
  <2> QED BY <1>1, <1>2, <2>3
<1>5. Log!Max(I) \in I
  BY <1>3, <1>4, MaxIs
<1>6. b \in DOMAIN ms /\ ms[b].role = "assistant"
  BY <1>1, <1>4, <1>5
<1> QED
  BY <1>2, <1>6 DEF Log!Asks

LEMMA MatchedAnswer ==
  ASSUME NEW ms \in Seq(Log!Messages), Matched(ms), NEW c \in LogCalls, c \in Log!Unanswered(ms)
  PROVE  Matched(Append(ms, Log!Result(c)))
<1> DEFINE m == Log!Result(c)
           r == Append(ms, m)
           n == Len(ms)
<1>1. /\ m \in Log!Messages
      /\ \A d : ~Log!Asks(m, d) /\ (Log!Gives(m, d) <=> d = c)
  BY DEF Log!Messages, Log!Result, Log!Gives, Log!Asks
<1>2. /\ \A i \in DOMAIN ms : ~Log!Gives(ms[i], c)
      /\ \E i \in DOMAIN ms : Log!Asks(ms[i], c)
  BY UnansweredIs DEF Log!AnsweredIn
<1>3. /\ n \in Nat /\ DOMAIN ms = 1..n /\ DOMAIN r = 1..(n + 1) /\ r[n + 1] = m
      /\ \A i \in 1..n : r[i] = ms[i]
  BY <1>1
<1> HIDE DEF r, n, m
<1>4. \A i, j \in DOMAIN r : \A d \in LogCalls : Log!Asks(r[i], d) /\ Log!Asks(r[j], d) => i = j
  BY <1>1, <1>3 DEF Matched, Paired
<1>5. \A i, j \in DOMAIN r : \A d \in LogCalls : Log!Gives(r[i], d) /\ Log!Gives(r[j], d) => i = j
  BY <1>1, <1>2, <1>3 DEF Matched, Paired
<1>6. ASSUME NEW j \in DOMAIN r, NEW d \in LogCalls, Log!Gives(r[j], d)
      PROVE  \E i \in 1..(j - 1) : i \in DOMAIN r /\ Log!Asks(r[i], d)
  <2>1. CASE j \in 1..n
    <3>1. j \in DOMAIN ms /\ Log!Gives(ms[j], d)
      BY <1>3, <1>6, <2>1
    <3>2. PICK i \in 1..(j - 1) : i \in DOMAIN ms /\ Log!Asks(ms[i], d)
      BY <3>1 DEF Matched, Paired
    <3> QED BY <1>3, <3>2
  <2>2. CASE j = n + 1
    <3>1. d = c
      BY <1>1, <1>3, <1>6, <2>2
    <3>2. PICK i \in DOMAIN ms : Log!Asks(ms[i], c)
      BY <1>2
    <3>3. i \in 1..(j - 1) /\ i \in DOMAIN r /\ r[i] = ms[i]
      BY <1>3, <2>2
    <3> QED BY <3>1, <3>2, <3>3
  <2> QED BY <1>3, <2>1, <2>2
<1>7. Matched(r)
  BY <1>4, <1>5, <1>6 DEF Matched, Paired
<1> QED
  BY <1>7 DEF r, m

KeptHolds ==
  LET P == Log!Parsed(lines)
  IN /\ Begins(Kept(kept, Log!Spoken), Kept(P, Log!Spoken))
     /\ Log!RealIn(kept) \subseteq Log!RealIn(P)

(* A save, whole or cut short, of a list that the log begins. *)
LEMMA SaveKeeps ==
  ASSUME Log!TranscriptAssumption, LogInv, NEW ms \in Seq(Log!Messages), Log!Save(ms)
  PROVE  /\ FileOK(lines') /\ kept' \in Seq(Log!Messages) /\ cuts' \in 0..MaxCuts
         /\ Begins(Log!Parsed(lines), ms) =>
              /\ Begins(Log!Parsed(lines'), ms)
              /\ KeptHolds => KeptHolds'
              /\ kept' # kept => lines'.lines = ms
<1> DEFINE P == Log!Parsed(lines)
           Q == Log!Parsed(lines')
<1>1. /\ FileOK(lines) /\ P \in Seq(Log!Messages) /\ kept \in Seq(Log!Messages)
      /\ cuts \in 0..MaxCuts /\ MaxCuts \in Nat
  BY ParsedIs DEF LogInv, Log!TypeOK, Log!TranscriptAssumption
<1>2. CASE Log!Saves(ms)
  <2>1. lines' = Log!Stored(lines, ms) /\ kept' = ms /\ cuts' = cuts
    BY <1>2 DEF Log!Saves
  <2>2. FileOK(lines') /\ (Begins(P, ms) => lines'.lines = ms /\ Q = ms)
    BY <1>1, <2>1, StoredIs
  <2>3. Begins(ms, ms) /\ Kept(ms, Log!Spoken) \in Seq(Log!Messages)
    BY BeginsOf, KeptInSeq
  <2>4. Begins(Kept(ms, Log!Spoken), Kept(ms, Log!Spoken))
    BY <2>3, BeginsOf
  <2>5. Begins(P, ms) => KeptHolds'
    BY <2>1, <2>2, <2>4 DEF KeptHolds, Log!RealIn, Log!ToSet
  <2> QED BY <1>1, <2>1, <2>2, <2>3, <2>5
<1>3. CASE Log!IsCut(ms)
  <2>1. lines' \in Log!Cut(lines, ms) /\ kept' = kept /\ cuts' = cuts + 1 /\ cuts < MaxCuts
    BY <1>3 DEF Log!IsCut
  <2>2. FileOK(lines') /\ (Begins(P, ms) => Begins(P, Q) /\ Begins(Q, ms))
    BY <1>1, <2>1, CutIs
  <2>3. Q \in Seq(Log!Messages)
    BY <2>2, ParsedIs
  <2>4. Begins(P, Q) => Begins(Kept(P, Log!Spoken), Kept(Q, Log!Spoken))
                        /\ Log!RealIn(P) \subseteq Log!RealIn(Q)
    BY <1>1, <2>3, BeginsOf
  <2>5. /\ Kept(P, Log!Spoken) \in Seq(Log!Messages) /\ Kept(Q, Log!Spoken) \in Seq(Log!Messages)
        /\ Kept(kept, Log!Spoken) \in Seq(Log!Messages)
    BY <1>1, <2>3, KeptInSeq
  <2>6. Begins(P, ms) /\ KeptHolds => KeptHolds'
    <3> SUFFICES ASSUME Begins(P, ms), KeptHolds PROVE KeptHolds'
      OBVIOUS
    <3>1. Begins(Kept(kept, Log!Spoken), Kept(Q, Log!Spoken))
      <4>1. Begins(Kept(kept, Log!Spoken), Kept(P, Log!Spoken))
        BY DEF KeptHolds
      <4> QED BY <2>2, <2>4, <2>5, <4>1, BeginsOf
    <3>2. Log!RealIn(kept) \subseteq Log!RealIn(Q)
      BY <2>2, <2>4 DEF KeptHolds
    <3> QED BY <2>1, <3>1, <3>2 DEF KeptHolds, Log!RealIn, Log!ToSet
  <2>7. cuts' \in 0..MaxCuts
    BY <1>1, <2>1
  <2> QED BY <1>1, <2>1, <2>2, <2>6, <2>7
<1> QED
  BY <1>2, <1>3 DEF Log!Save

(* What an action leaves that touches the engine's list alone. *)
LEMMA ListKeeps ==
  ASSUME LogInv, UNCHANGED <<open, lines, cuts, kept, meddled>>, open,
         turn' \in {"none", "running", "replied", "over"}, msgs' \in Seq(Log!Messages),
         ~meddled => /\ Matched(msgs') /\ Begins(Log!Parsed(lines), msgs')
                     /\ turn' = "replied" => Len(Log!Parsed(lines)) < Len(msgs')
  PROVE  LogInv'
<1>1. Log!TypeOK' /\ FileOK(lines')
  BY DEF LogInv, Log!TypeOK
<1>2. ~meddled' => LogHolds'
  <2> SUFFICES ASSUME ~meddled' PROVE LogHolds'
    OBVIOUS
  <2>1. LogHolds
    BY DEF LogInv
  <2> QED BY <2>1 DEF LogHolds, Log!RealIn, Log!ToSet
<1> QED
  BY <1>1, <1>2 DEF LogInv

LEMMA LogFacts ==
  ASSUME LogInv
  PROVE  /\ FileOK(lines) /\ Log!Parsed(lines) \in Seq(Log!Messages)
         /\ msgs \in Seq(Log!Messages) /\ kept \in Seq(Log!Messages)
         /\ open \in BOOLEAN /\ meddled \in BOOLEAN
         /\ turn \in {"none", "running", "replied", "over"}
         /\ \A x \in Log!Messages : Append(msgs, x) \in Seq(Log!Messages)
         /\ ~meddled =>
              /\ Matched(Log!Parsed(lines)) /\ KeptHolds
              /\ open =>
                   /\ Matched(msgs) /\ Begins(Log!Parsed(lines), msgs)
                   /\ \A x \in Log!Messages : Begins(Log!Parsed(lines), Append(msgs, x))
                   /\ turn = "replied" => Len(Log!Parsed(lines)) < Len(msgs)
<1>1. FileOK(lines) /\ Log!Parsed(lines) \in Seq(Log!Messages)
  BY ParsedIs DEF LogInv
<1>2. /\ msgs \in Seq(Log!Messages) /\ kept \in Seq(Log!Messages)
      /\ open \in BOOLEAN /\ meddled \in BOOLEAN
      /\ turn \in {"none", "running", "replied", "over"}
  BY DEF LogInv, Log!TypeOK
<1>3. \A x \in Log!Messages : Append(msgs, x) \in Seq(Log!Messages)
  BY <1>2
<1>4. ~meddled => LogHolds
  BY DEF LogInv
<1>5. LogHolds => KeptHolds
  BY DEF LogHolds, KeptHolds
<1>6. Begins(Log!Parsed(lines), msgs) =>
        \A x \in Log!Messages : Begins(Log!Parsed(lines), Append(msgs, x))
  BY <1>1, <1>2, BeginsOf
<1> QED
  BY <1>1, <1>2, <1>3, <1>4, <1>5, <1>6 DEF LogHolds

LEMMA OpenKeeps ==
  ASSUME LogInv, Log!Open
  PROVE  LogInv' /\ lines'.lines = msgs'
<1> DEFINE P == Log!Parsed(lines)
           R == Log!Repaired(P)
<1>1. FileOK(lines) /\ P \in Seq(Log!Messages) /\ ~open
  BY LogFacts DEF Log!Open
<1>2. /\ open' = TRUE /\ turn' = "none" /\ msgs' = R /\ kept' = R
      /\ lines' = Log!Reread(lines) /\ cuts' = cuts /\ meddled' = meddled
  BY DEF Log!Open
<1>3. FileOK(lines') /\ lines'.lines = R /\ Log!Parsed(lines') = R /\ R \in Seq(Log!Messages)
  BY <1>1, <1>2, RereadIs
<1>4. Log!TypeOK'
  BY <1>2, <1>3 DEF LogInv, Log!TypeOK, FileOK
<1>5. ~meddled => LogHolds'
  <2> SUFFICES ASSUME ~meddled PROVE LogHolds'
    OBVIOUS
  <2>1. Matched(R)
    BY <1>1, LogFacts, LogRepairIs
  <2>2. Begins(R, R) /\ Kept(R, Log!Spoken) \in Seq(Log!Messages)
    BY <1>3, BeginsOf, KeptInSeq
  <2>3. Begins(Kept(R, Log!Spoken), Kept(R, Log!Spoken))
    BY <2>2, BeginsOf
  <2> HIDE DEF R
  <2>4. turn' # "replied"
    BY <1>2
  <2> QED BY <1>2, <1>3, <2>1, <2>2, <2>3, <2>4 DEF LogHolds, Log!RealIn, Log!ToSet
<1> QED
  BY <1>2, <1>3, <1>4, <1>5 DEF LogInv

LEMMA SendKeeps == ASSUME LogInv, Log!Send PROVE LogInv'
<1>1. ~meddled => Matched(Append(msgs, Log!User))
  BY LogFacts, MatchedPlain DEF Log!Send
<1>2. Log!User \in Log!Messages
  BY DEF Log!Messages, Log!Spoken
<1>3. /\ open /\ turn' = "running" /\ msgs' = Append(msgs, Log!User)
      /\ UNCHANGED <<open, lines, cuts, kept, meddled>>
  BY DEF Log!Send
<1> QED
  BY <1>1, <1>2, <1>3, LogFacts, ListKeeps

LEMMA ResumeKeeps == ASSUME LogInv, Log!Resume PROVE LogInv'
<1>1. /\ open /\ turn' = "running" /\ msgs' = msgs
      /\ UNCHANGED <<open, lines, cuts, kept, meddled>>
  BY DEF Log!Resume
<1> QED
  BY <1>1, LogFacts, ListKeeps

LEMMA ReplyKeeps ==
  ASSUME LogInv, NEW cs \in Log!Blocks, Log!Reply(cs)
  PROVE  LogInv'
<1> DEFINE m == Log!Assistant(cs)
<1>1. /\ open /\ turn = "running" /\ msgs' = Append(msgs, m)
      /\ Log!ToSet(cs) \cap Log!IssuedIn(msgs) = {} /\ turn' \in {"replied", "running"}
      /\ UNCHANGED <<open, lines, cuts, kept, meddled>>
  BY DEF Log!Reply
<1>2. m \in Log!Messages
  BY DEF Log!Messages, Log!Spoken
<1>3. ~meddled => Matched(Append(msgs, m))
  BY <1>1, LogFacts, MatchedReply
<1> HIDE DEF m
<1>4. Begins(Log!Parsed(lines), msgs) => Len(Log!Parsed(lines)) < Len(Append(msgs, m))
  <2> DEFINE P == Log!Parsed(lines)
  <2>1. P \in Seq(Log!Messages) /\ msgs \in Seq(Log!Messages)
    BY LogFacts
  <2>2. Begins(P, msgs) => Len(P) <= Len(msgs)
    BY <2>1, BeginsIs
  <2> HIDE DEF P
  <2>3. Len(P) \in Nat /\ Len(msgs) \in Nat /\ Len(Append(msgs, m)) = Len(msgs) + 1
    BY <1>2, <2>1
  <2>4. Begins(P, msgs) => Len(P) < Len(Append(msgs, m))
    BY <2>2, <2>3
  <2> QED BY <2>4 DEF P
<1> QED
  BY <1>1, <1>2, <1>3, <1>4, LogFacts, ListKeeps

LEMMA AnswerKeeps ==
  ASSUME LogInv, NEW c \in LogCalls, Log!Answer(c)
  PROVE  LogInv'
<1> DEFINE m == Log!Result(c)
<1>1. /\ open /\ turn' = turn /\ turn = "running" /\ msgs' = Append(msgs, m)
      /\ c \in Log!Unanswered(msgs)
      /\ UNCHANGED <<open, lines, cuts, kept, meddled>>
  BY DEF Log!Answer
<1>2. m \in Log!Messages
  BY DEF Log!Messages
<1>3. ~meddled => Matched(Append(msgs, m))
  BY <1>1, LogFacts, MatchedAnswer
<1> HIDE DEF m
<1> QED
  BY <1>1, <1>2, <1>3, LogFacts, ListKeeps

LEMMA UnparsedKeeps == ASSUME LogInv, Log!Unparsed PROVE LogInv'
<1> DEFINE F == Log!Front(msgs)
           P == Log!Parsed(lines)
           n == Len(msgs)
<1>1. /\ open /\ turn = "replied" /\ turn' = "over" /\ msgs' = Append(F, Log!Notice)
      /\ UNCHANGED <<open, lines, cuts, kept, meddled>>
  BY DEF Log!Unparsed
<1>2. msgs \in Seq(Log!Messages) /\ P \in Seq(Log!Messages) /\ n \in Nat
        /\ Log!Notice \in Log!Messages
  BY LogFacts DEF Log!Messages, Log!Spoken
<1>3. F = SubSeq(msgs, 1, n - 1)
  BY DEF Log!Front
<1>4. F \in Seq(Log!Messages) /\ Append(F, Log!Notice) \in Seq(Log!Messages)
  <2> HIDE DEF F
  <2>1. F \in Seq(Log!Messages)
    BY <1>2, <1>3
  <2> QED BY <1>2, <2>1
<1>5. ASSUME ~meddled
      PROVE  Matched(Append(F, Log!Notice)) /\ Begins(P, Append(F, Log!Notice))
  <2>1. Matched(msgs) /\ Begins(P, msgs) /\ Len(P) < n
    BY <1>1, <1>5, LogFacts
  <2>2. PICK r \in Seq(Log!Messages) : msgs = P \o r
    BY <2>1 DEF Begins
  <2>3. n - 1 \in 0..n /\ Len(P) <= n - 1 /\ Len(P) \in Nat
    BY <1>2, <2>1
  <2>4. SubSeq(msgs, (n - 1) + 1, n) \in Seq(Log!Messages)
          /\ msgs = SubSeq(msgs, 1, n - 1) \o SubSeq(msgs, (n - 1) + 1, n)
          /\ Len(SubSeq(msgs, 1, n - 1)) = n - 1
    BY <1>2, <2>3, SeqSplit
  <2>5. Begins(F, msgs)
    BY <1>3, <2>4 DEF Begins
  <2>6. Begins(P, F)
    <3>1. Len(P) <= Len(F) /\ Len(F) = n - 1
      BY <1>3, <2>3, <2>4
    <3>2. SubSeq(msgs, 1, Len(P)) = P /\ SubSeq(P, 1, Len(P)) = P
      BY <1>2, <2>1, BeginsIs
    <3>3. SubSeq(F, 1, Len(P)) = SubSeq(msgs, 1, Len(P))
      <4>1. \A k \in DOMAIN F : k \in DOMAIN msgs /\ F[k] = msgs[k]
        BY <1>2, <1>4, <2>5, BeginsIs
      <4> DEFINE a == SubSeq(F, 1, Len(P))
                 b == SubSeq(msgs, 1, Len(P))
      <4> HIDE DEF F, P, n
      <4>2. a \in Seq(Log!Messages) /\ Len(a) = Len(P) /\ \A k \in 1..Len(P) : a[k] = F[k]
        BY ONLY <1>4, <2>3, <3>1
      <4>3. b \in Seq(Log!Messages) /\ Len(b) = Len(P) /\ \A k \in 1..Len(P) : b[k] = msgs[k]
        <5>1. Len(msgs) \in Nat /\ Len(P) <= Len(msgs)
          BY <1>2, <2>3 DEF n
        <5> QED BY ONLY <1>2, <2>3, <5>1
      <4>4. \A k \in 1..Len(P) : a[k] = b[k]
        <5>1. 1..Len(P) \subseteq DOMAIN F
          BY <1>4, <2>3, <3>1
        <5> QED BY <4>1, <4>2, <4>3, <5>1
      <4> HIDE DEF a, b
      <4>5. a = b
        BY ONLY <4>2, <4>3, <4>4, SeqEqual
      <4> QED BY <4>5 DEF a, b
    <3>4. Log!IsPrefix(P, F)
      BY <3>1, <3>2, <3>3 DEF Log!IsPrefix
    <3> QED BY <1>2, <1>4, <3>4, BeginsIs
  <2>7. Matched(F)
    BY <1>2, <1>4, <2>1, <2>5, MatchedBefore
  <2>8. Matched(Append(F, Log!Notice))
    BY <1>4, <2>7, MatchedPlain
  <2>9. Begins(P, Append(F, Log!Notice))
    BY <1>2, <1>4, <2>6, BeginsOf
  <2> QED BY <2>8, <2>9
<1> HIDE DEF F
<1> QED
  BY <1>1, <1>4, <1>5, ListKeeps

LEMMA FailKeeps == ASSUME LogInv, Log!Fail PROVE LogInv'
<1>1. ~meddled => Matched(Append(msgs, Log!Notice))
  BY LogFacts, MatchedPlain DEF Log!Fail
<1>2. Log!Notice \in Log!Messages
  BY DEF Log!Messages, Log!Spoken
<1>3. /\ open /\ turn' = "over" /\ msgs' = Append(msgs, Log!Notice)
      /\ UNCHANGED <<open, lines, cuts, kept, meddled>>
  BY DEF Log!Fail
<1> QED
  BY <1>1, <1>2, <1>3, LogFacts, ListKeeps

LEMMA RaiseKeeps == ASSUME LogInv, Log!Raise PROVE LogInv'
<1>1. /\ open /\ turn' = "none" /\ msgs' = msgs
      /\ UNCHANGED <<open, lines, cuts, kept, meddled>>
  BY DEF Log!Raise
<1> QED
  BY <1>1, LogFacts, ListKeeps

(* A save of the engine's list, as it is or with a message more. *)
LEMMA SavedKeeps ==
  ASSUME Log!TranscriptAssumption, LogInv, open, UNCHANGED <<open, meddled>>,
         msgs' \in Seq(Log!Messages), Log!Save(msgs'), turn' \in {"none", "running", "over"},
         ~meddled => Matched(msgs') /\ Begins(Log!Parsed(lines), msgs')
  PROVE  LogInv' /\ (~meddled /\ kept' # kept => lines'.lines = msgs')
<1> DEFINE P == Log!Parsed(lines)
           Q == Log!Parsed(lines')
<1>1. /\ FileOK(lines') /\ kept' \in Seq(Log!Messages) /\ cuts' \in 0..MaxCuts
      /\ Begins(P, msgs') =>
           /\ Begins(Q, msgs')
           /\ KeptHolds => KeptHolds'
           /\ kept' # kept => lines'.lines = msgs'
  BY SaveKeeps
<1>2. Log!TypeOK'
  BY <1>1 DEF LogInv, Log!TypeOK, FileOK
<1>3. ASSUME ~meddled PROVE LogHolds'
  <2>1. Begins(Q, msgs') /\ Matched(msgs') /\ KeptHolds'
    BY <1>1, <1>3, LogFacts
  <2>2. Q \in Seq(Log!Messages)
    BY <1>1, ParsedIs
  <2>3. Matched(Q)
    BY <2>1, <2>2, MatchedBefore
  <2>4. turn' # "replied"
    OBVIOUS
  <2> QED BY <2>1, <2>3, <2>4 DEF LogHolds, KeptHolds
<1> QED
  BY <1>1, <1>2, <1>3 DEF LogInv

LEMMA SwitchKeeps ==
  ASSUME Log!TranscriptAssumption, LogInv, Log!SwitchModel
  PROVE  LogInv' /\ (~meddled /\ kept' # kept => lines'.lines = msgs')
<1>1. Log!Notice \in Log!Messages
  BY DEF Log!Messages, Log!Spoken
<1>2. /\ open /\ turn' = turn /\ turn = "none" /\ msgs' = Append(msgs, Log!Notice)
      /\ Log!Save(msgs') /\ UNCHANGED <<open, meddled>>
  BY DEF Log!SwitchModel
<1>3. ~meddled => Matched(Append(msgs, Log!Notice))
  BY <1>2, LogFacts, MatchedPlain
<1>4. msgs' \in Seq(Log!Messages) /\ (~meddled => Matched(msgs') /\ Begins(Log!Parsed(lines), msgs'))
  BY <1>1, <1>2, <1>3, LogFacts
<1>5. turn' \in {"none", "running", "over"}
  BY <1>2
<1> QED
  BY <1>2, <1>4, <1>5, SavedKeeps

LEMMA CheckpointKeeps ==
  ASSUME Log!TranscriptAssumption, LogInv, Log!Checkpoint \/ Log!EndTurn
  PROVE  LogInv' /\ (~meddled /\ kept' # kept => lines'.lines = msgs')
<1>1. /\ open /\ turn' \in {"none", "running", "over"} /\ msgs' = msgs
      /\ Log!Save(msgs') /\ UNCHANGED <<open, meddled>>
  BY DEF Log!Checkpoint, Log!EndTurn, Log!Save, Log!Saves, Log!IsCut, Log!Stored, Log!Cut,
         Log!File, Log!Torn
<1>2. msgs' \in Seq(Log!Messages) /\ (~meddled => Matched(msgs') /\ Begins(Log!Parsed(lines), msgs'))
  BY <1>1, LogFacts
<1> QED
  BY <1>1, <1>2, SavedKeeps

LEMMA PollKeeps == ASSUME LogInv, Log!Poll PROVE LogInv'
<1> DEFINE P == Log!Parsed(lines)
           R == Log!Repaired(P)
           Q == Log!Parsed(lines')
<1>1. /\ lines' = Log!Reread(lines) /\ meddled' = (meddled \/ (open /\ R # P))
      /\ UNCHANGED <<open, turn, msgs, cuts, kept>>
  BY DEF Log!Poll
<1>2. FileOK(lines) /\ P \in Seq(Log!Messages)
  BY LogFacts
<1>3. FileOK(lines') /\ Q = R /\ R \in Seq(Log!Messages)
  BY <1>1, <1>2, RereadIs
<1> HIDE DEF R, P, Q
<1>4. Log!TypeOK'
  <2>1. meddled' \in BOOLEAN
    BY <1>1, LogFacts, Zenon
  <2> QED BY <1>1, <1>3, <2>1 DEF LogInv, Log!TypeOK, FileOK
<1>5. ASSUME ~meddled' PROVE LogHolds'
  <2>1. ~meddled /\ (open => R = P)
    BY <1>1, <1>5, LogFacts
  <2>2. Matched(P) /\ KeptHolds /\ (open => Matched(msgs) /\ Begins(P, msgs)
                                           /\ (turn = "replied" => Len(P) < Len(msgs)))
    BY <2>1, LogFacts DEF P
  <2>3. Matched(Q)
    BY <1>2, <1>3, <2>2, LogRepairIs DEF R
  <2>4. Kept(Q, Log!Spoken) = Kept(P, Log!Spoken)
    BY <1>2, <1>3, LogRepairIs DEF R
  <2>5. Log!RealIn(P) \subseteq Log!RealIn(Q)
    BY <1>2, <1>3, LogRepairIs DEF R
  <2>6. Begins(Kept(kept, Log!Spoken), Kept(P, Log!Spoken))
          /\ Log!RealIn(kept) \subseteq Log!RealIn(P)
    BY <2>2 DEF KeptHolds, P
  <2>7. /\ Begins(Kept(kept', Log!Spoken), Kept(Q, Log!Spoken))
        /\ Log!RealIn(kept') \subseteq Log!RealIn(Q)
    BY <1>1, <2>4, <2>5, <2>6
  <2>8. open' => /\ Matched(msgs') /\ Begins(Q, msgs')
                 /\ turn' = "replied" => Len(Q) < Len(msgs')
    BY <1>1, <1>3, <2>1, <2>2
  <2> QED BY <2>3, <2>7, <2>8 DEF LogHolds, Q, Log!RealIn, Log!ToSet
<1> QED
  BY <1>3, <1>4, <1>5 DEF LogInv

LEMMA CrashKeeps == ASSUME LogInv, Log!Crash PROVE LogInv'
<1>1. /\ open' = FALSE /\ turn' = "none" /\ msgs' = <<>>
      /\ UNCHANGED <<lines, cuts, kept, meddled>>
  BY DEF Log!Crash
<1>2. <<>> \in Seq(Log!Messages)
  OBVIOUS
<1>3. Log!TypeOK' /\ FileOK(lines')
  BY <1>1, <1>2 DEF LogInv, Log!TypeOK
<1>4. ~meddled' => LogHolds'
  <2> SUFFICES ASSUME ~meddled' PROVE LogHolds'
    OBVIOUS
  <2>1. LogHolds
    BY <1>1 DEF LogInv
  <2> QED BY <1>1, <2>1 DEF LogHolds, Log!RealIn, Log!ToSet
<1> QED
  BY <1>3, <1>4 DEF LogInv

LEMMA LogStarts == ASSUME Log!TranscriptAssumption, Log!Init PROVE LogInv
<1>1. /\ open = FALSE /\ turn = "none" /\ msgs = <<>> /\ lines = Log!File(<<>>) /\ cuts = 0
      /\ kept = <<>> /\ meddled = FALSE
  BY DEF Log!Init
<1>2. <<>> \in Seq(Log!Messages)
  OBVIOUS
<1>3. FileOK(lines) /\ Log!Parsed(lines) = <<>>
  <2>1. FileOK(Log!File(<<>>)) /\ Log!Parsed(Log!File(<<>>)) = <<>>
    BY <1>2, FileIs
  <2> QED BY <1>1, <2>1
<1>4. Log!TypeOK
  <2>1. MaxCuts \in Nat
    BY DEF Log!TranscriptAssumption
  <2>2. cuts \in 0..MaxCuts
    BY <1>1, <2>1
  <2>3. lines \in [lines : Seq(Log!Messages \cup {Log!Torn}), closed : BOOLEAN]
    BY <1>3 DEF FileOK
  <2> QED BY <1>1, <1>2, <2>2, <2>3 DEF Log!TypeOK
<1>5. Begins(<<>>, <<>>) /\ Kept(<<>>, Log!Spoken) = <<>>
  BY <1>2, BeginsOf, KeptEmpty
<1>6. Matched(<<>>)
  BY DEF Matched, Paired
<1>7. LogHolds
  BY <1>1, <1>3, <1>5, <1>6 DEF LogHolds
<1> QED
  BY <1>3, <1>4, <1>7 DEF LogInv

LEMMA LogKeeps ==
  ASSUME Log!TranscriptAssumption, LogInv, Log!Next
  PROVE  LogInv' /\ Log!SaveReachesDisk
<1>1. CASE Log!Open
  BY <1>1, OpenKeeps DEF Log!SaveReachesDisk
<1>2. CASE Log!SwitchModel
  BY <1>2, SwitchKeeps DEF Log!SaveReachesDisk
<1>3. CASE Log!Checkpoint \/ Log!EndTurn
  BY <1>3, CheckpointKeeps DEF Log!SaveReachesDisk
<1>4. CASE Log!Send
  BY <1>4, SendKeeps DEF Log!SaveReachesDisk, Log!Send
<1>5. CASE Log!Resume
  BY <1>5, ResumeKeeps DEF Log!SaveReachesDisk, Log!Resume
<1>6. CASE \E cs \in Log!Blocks : Log!Reply(cs)
  BY <1>6, ReplyKeeps DEF Log!SaveReachesDisk, Log!Reply
<1>7. CASE \E c \in LogCalls : Log!Answer(c)
  BY <1>7, AnswerKeeps DEF Log!SaveReachesDisk, Log!Answer
<1>8. CASE Log!Unparsed
  BY <1>8, UnparsedKeeps DEF Log!SaveReachesDisk, Log!Unparsed
<1>9. CASE Log!Fail
  BY <1>9, FailKeeps DEF Log!SaveReachesDisk, Log!Fail
<1>10. CASE Log!Raise
  BY <1>10, RaiseKeeps DEF Log!SaveReachesDisk, Log!Raise
<1>11. CASE Log!Poll
  BY <1>11, PollKeeps DEF Log!SaveReachesDisk, Log!Poll
<1>12. CASE Log!Crash
  BY <1>12, CrashKeeps DEF Log!SaveReachesDisk, Log!Crash
<1> QED
  BY <1>1, <1>2, <1>3, <1>4, <1>5, <1>6, <1>7, <1>8, <1>9, <1>10, <1>11, <1>12
     DEF Log!Next

LEMMA LoadIsSound ==
  ASSUME LogInv, Log!Open, ~meddled
  PROVE  Log!LoadsWellFormed /\ Log!CheckpointsSurvive
<1> DEFINE P == Log!Parsed(lines)
           R == Log!Repaired(P)
<1>1. msgs' = R
  BY DEF Log!Open
<1>2. P \in Seq(Log!Messages) /\ Matched(P) /\ KeptHolds /\ kept \in Seq(Log!Messages)
  BY LogFacts
<1>3. R \in Seq(Log!Messages) /\ Matched(R) /\ WellPlaced(LogCalls, R)
  BY <1>2, LogRepairIs
<1>4. Kept(R, Log!Spoken) = Kept(P, Log!Spoken) /\ Log!RealIn(P) \subseteq Log!RealIn(R)
  BY <1>2, LogRepairIs
<1>5. /\ Begins(Kept(kept, Log!Spoken), Kept(P, Log!Spoken))
      /\ Log!RealIn(kept) \subseteq Log!RealIn(P)
  BY <1>2 DEF KeptHolds
<1> HIDE DEF P, R
<1>6. Kept(kept, Log!Spoken) \in Seq(Log!Messages) /\ Kept(P, Log!Spoken) \in Seq(Log!Messages)
  BY <1>2, KeptInSeq
<1>7. Log!IsPrefix(Kept(kept, Log!Spoken), Kept(R, Log!Spoken))
  BY <1>4, <1>5, <1>6, BeginsIs
<1>8. Log!CheckpointsSurvive
  <2>1. Log!RealIn(kept) \subseteq Log!RealIn(R)
    BY <1>4, <1>5
  <2>2. Log!IsPrefix(Log!Kept(kept, Log!Spoken), Log!Kept(R, Log!Spoken))
    BY <1>7, SameKept
  <2> QED BY <1>1, <2>1, <2>2 DEF Log!CheckpointsSurvive
<1>9. ASSUME NEW c \in Log!AnsweredIn(R)
      PROVE  /\ c \in Log!IssuedIn(R)
             /\ Log!Cardinality({i \in DOMAIN R : Log!Gives(R[i], c)}) = 1
  <2>1. c \in LogCalls
    BY DEF Log!AnsweredIn
  <2>2. PICK i \in DOMAIN R : Log!Gives(R[i], c)
    BY DEF Log!AnsweredIn
  <2>3. c \in Log!IssuedIn(R)
    <3>1. PICK j \in 1..(i - 1) : j \in DOMAIN R /\ Log!Asks(R[j], c)
      BY <1>3, <2>1, <2>2 DEF Matched, Paired
    <3> QED BY <2>1, <3>1 DEF Log!IssuedIn
  <2>4. {j \in DOMAIN R : Log!Gives(R[j], c)} = {i}
    BY <1>3, <2>1, <2>2 DEF Matched, Paired
  <2>5. Cardinality({i}) = 1
    BY FS_Singleton
  <2>6. Log!Cardinality({i}) = Cardinality({i})
    BY DEF Log!Cardinality, Cardinality
  <2> QED BY <2>3, <2>4, <2>5, <2>6
<1>10. Log!LoadsWellFormed
  <2>1. \A i \in DOMAIN R : \A c \in LogCalls :
          Log!Asks(R[i], c) => \/ Log!Placed(R, i, c)
                               \/ i = Len(R) /\ c \notin Log!AnsweredIn(R)
    <3>1. Log!AnsweredIn(R) = Answered(LogCalls, R)
      BY LogMends
    <3> QED BY <1>3, <3>1 DEF WellPlaced
  <2> QED BY <1>1, <1>9, <2>1 DEF Log!LoadsWellFormed
<1> QED
  BY <1>8, <1>10

LEMMA LogStutters ==
  ASSUME LogInv, UNCHANGED logVars
  PROVE  LogInv'
<1>1. UNCHANGED <<open, turn, msgs, lines, cuts, kept, meddled>>
  BY DEF logVars
<1>2. Log!TypeOK' /\ FileOK(lines')
  BY <1>1 DEF LogInv, Log!TypeOK
<1>3. ~meddled' => LogHolds'
  <2> SUFFICES ASSUME ~meddled' PROVE LogHolds'
    OBVIOUS
  <2>1. LogHolds
    BY <1>1 DEF LogInv
  <2> QED BY <1>1, <2>1 DEF LogHolds, Log!RealIn, Log!ToSet
<1> QED
  BY <1>2, <1>3 DEF LogInv

LEMMA LogInductive ==
  /\ Init => LogInv
  /\ LogInv /\ [Next]_<<part, turnVars, compactVars, permitVars, approvalVars, logVars,
                        idVars>>
       => /\ LogInv' /\ [Log!SaveReachesDisk]_logVars
          /\ [Log!LoadsWellFormed /\ Log!CheckpointsSurvive]_logVars
<1>1. Log!TranscriptAssumption
  BY PartsAssumption
<1>2. Init => LogInv
  BY <1>1, LogStarts DEF Init
<1>3. ASSUME LogInv,
             [Next]_<<part, turnVars, compactVars, permitVars, approvalVars, logVars, idVars>>
      PROVE  /\ LogInv' /\ [Log!SaveReachesDisk]_logVars
             /\ [Log!LoadsWellFormed /\ Log!CheckpointsSurvive]_logVars
  <2>1. Log!Next \/ UNCHANGED logVars
    BY <1>3 DEF Next, TurnStep, CompactStep, PermitStep, ApprovalStep, LogStep, IdStep
  <2>2. CASE Log!Next
    <3>1. LogInv' /\ Log!SaveReachesDisk
      BY <1>1, <1>3, <2>2, LogKeeps
    <3>2. CASE Log!Open /\ ~meddled
      BY <1>3, <3>1, <3>2, LoadIsSound
    <3>3. CASE ~(Log!Open /\ ~meddled)
      <4>1. Log!LoadsWellFormed /\ Log!CheckpointsSurvive
        BY <3>3 DEF Log!LoadsWellFormed, Log!CheckpointsSurvive
      <4> QED BY <3>1, <4>1
    <3> QED BY <3>2, <3>3
  <2>3. CASE UNCHANGED logVars
    BY <1>3, <2>3, LogStutters
  <2> QED BY <2>1, <2>2, <2>3
<1> QED
  BY <1>2, <1>3

(* ConversationStore.save counts lines: the log stays a prefix of the      *)
(* engine's list through cut writes and restarts.                          *)
THEOREM EngineLog == Spec => []LogFollowsEngine
<1>1. LogInv => LogFollowsEngine
  <2> SUFFICES ASSUME LogInv, open, ~meddled PROVE Log!IsPrefix(Log!Parsed(lines), msgs)
    BY DEF LogFollowsEngine, Log!LogFollowsEngine
  <2> QED BY LogFacts, BeginsIs
<1> QED
  BY <1>1, LogInductive, PTL DEF Spec

(* A save that returns has brought the engine's whole list to disk.        *)
THEOREM EngineSaves == Spec => SaveReachesDisk
  BY LogInductive, PTL DEF Spec, SaveReachesDisk

(* ConversationStore.load: a restart finds a thread a provider takes, with *)
(* every message and every real result a save has confirmed.               *)
THEOREM EngineLoads == Spec => LoadsWhatWasSaved
  BY LogInductive, PTL DEF Spec, LoadsWhatWasSaved

-----------------------------------------------------------------------------
(* The ids of calls: the threads of a session whose provider gives every   *)
(* call an id of its own.                                                  *)

IdBlocks == {cs \in Seq(1..MaxCalls) : IsInjective(cs)}
IdGiven(c) == [role |-> "tool", calls |-> <<c>>, real |-> TRUE, about |-> <<c>>]
IdAsked(cs) == [role |-> "assistant", calls |-> cs, real |-> TRUE, about |-> cs]
IdPlain == {Id!User, Id!Notice, Id!Assistant(<<>>)}
IdMessages ==
  IdPlain \cup {Id!Placeholder(c) : c \in Ids} \cup {IdGiven(c) : c \in 1..MaxCalls}
    \cup {IdAsked(cs) : cs \in IdBlocks}

LEMMA IdsAre == 1..MaxCalls \subseteq Ids /\ MaxCalls \in Nat
  BY PartsAssumption DEF Id!CallIdsAssumption

LEMMA IdMessageIs ==
  ASSUME NEW m \in IdMessages
  PROVE  /\ m.calls \in Seq(Ids) /\ IsInjective(m.calls)
         /\ m.role \in {"user", "notice", "assistant", "tool"}
         /\ m.role = "user" => m = Id!User
         /\ m.role = "tool" => /\ \E c \in Ids : m.calls = <<c>>
                               /\ m.real => \E c \in 1..MaxCalls : m = IdGiven(c)
         /\ m.role = "assistant" =>
              /\ m.calls \in Seq(1..MaxCalls)
              /\ m.calls # <<>> => m = IdAsked(m.calls) /\ m.about = m.calls
         /\ m.role \notin {"assistant", "tool"} => m.calls = <<>>
<1> DEFINE Goal ==
         /\ m.calls \in Seq(Ids) /\ IsInjective(m.calls)
         /\ m.role \in {"user", "notice", "assistant", "tool"}
         /\ m.role = "user" => m = Id!User
         /\ m.role = "tool" => /\ \E c \in Ids : m.calls = <<c>>
                               /\ m.real => \E c \in 1..MaxCalls : m = IdGiven(c)
         /\ m.role = "assistant" =>
              /\ m.calls \in Seq(1..MaxCalls)
              /\ m.calls # <<>> => m = IdAsked(m.calls) /\ m.about = m.calls
         /\ m.role \notin {"assistant", "tool"} => m.calls = <<>>
<1>1. <<>> \in Seq(Ids) /\ <<>> \in Seq(1..MaxCalls) /\ IsInjective(<<>>)
  BY InjectiveEmpty
<1>2. \A c \in Ids : <<c>> \in Seq(Ids) /\ IsInjective(<<c>>)
  BY DEF IsInjective
<1>3. CASE m \in IdPlain
  <2>1. m.calls = <<>> /\ m.role \in {"user", "notice", "assistant"}
          /\ (m.role = "user" => m = Id!User)
    BY <1>3 DEF IdPlain, Id!User, Id!Notice, Id!Assistant
  <2> QED BY <1>1, <2>1
<1>4. ASSUME NEW c \in Ids, m = Id!Placeholder(c) PROVE Goal
  BY <1>2, <1>4 DEF Id!Placeholder
<1>5. ASSUME NEW c \in 1..MaxCalls, m = IdGiven(c) PROVE Goal
  <2>1. c \in Ids /\ m.role = "tool" /\ m.calls = <<c>>
    BY <1>5, IdsAre DEF IdGiven
  <2> QED BY <1>2, <1>5, <2>1
<1>6. ASSUME NEW cs \in IdBlocks, m = IdAsked(cs) PROVE Goal
  <2>1. cs \in Seq(1..MaxCalls) /\ IsInjective(cs)
    BY DEF IdBlocks
  <2>2. cs \in Seq(Ids)
    BY <2>1, IdsAre
  <2>3. m.role = "assistant" /\ m.calls = cs /\ m.about = cs
    BY <1>6 DEF IdAsked
  <2> QED BY <1>6, <2>1, <2>2, <2>3
<1> QED
  BY <1>3, <1>4, <1>5, <1>6 DEF IdMessages

LEMMA IdKind == Kind(Ids, IdMessages)
<1>1. \A c \in Ids : Log!Placeholder(c) \in IdMessages
  BY DEF IdMessages, Log!Placeholder, Id!Placeholder
<1> QED
  BY <1>1, IdMessageIs DEF Kind

LEMMA IdMends ==
  ASSUME NEW ms
  PROVE  /\ Id!Repaired(ms) = Mended(Ids, ms)
         /\ Id!IssuedIn(ms) = Issued(Ids, ms)
         /\ Id!AnsweredIn(ms) = Answered(Ids, ms)
<1>1. \A m, c : Id!Asks(m, c) = Log!Asks(m, c) /\ Id!Gives(m, c) = Log!Gives(m, c)
  BY DEF Id!Asks, Log!Asks, Id!Gives, Log!Gives, Id!ToSet, Log!ToSet
<1>2. \A c : /\ Id!FirstResult(ms, c) = Log!FirstResult(ms, c)
             /\ Id!LastAsk(ms, c) = Log!LastAsk(ms, c)
             /\ Id!Placeholder(c) = Log!Placeholder(c)
  BY DEF Id!FirstResult, Log!FirstResult, Id!SelectInSeq, Log!SelectInSeq, Id!Min, Log!Min,
         Id!LastAsk, Log!LastAsk, Id!SelectLastInSeq, Log!SelectLastInSeq, Id!Max, Log!Max,
         Id!Asks, Log!Asks, Id!Gives, Log!Gives, Id!ToSet, Log!ToSet, Id!Placeholder,
         Log!Placeholder
<1>3. Id!IssuedIn(ms) = Issued(Ids, ms) /\ Id!AnsweredIn(ms) = Answered(Ids, ms)
  BY <1>1 DEF Id!IssuedIn, Id!AnsweredIn, Issued, Answered
<1>4. Id!NeedsRepair(ms) <=> Broken(Ids, ms)
  <2>1. \A c \in Issued(Ids, ms) :
          (IF c \in Id!AnsweredIn(ms) THEN Id!FirstResult(ms, c) # Id!LastAsk(ms, c) + 1
           ELSE Id!LastAsk(ms, c) # Len(ms))
          <=> (IF c \in Answered(Ids, ms) THEN Log!FirstResult(ms, c) # Log!LastAsk(ms, c) + 1
               ELSE Log!LastAsk(ms, c) # Len(ms))
    BY <1>2, <1>3
  <2> QED BY <1>3, <2>1 DEF Id!NeedsRepair, Broken
<1>5. Id!Repaired(ms) = IF Id!NeedsRepair(ms) THEN FlattenSeq(Pieces(Ids, ms)) ELSE ms
  BY DEF Id!Repaired, Id!Rebuilt, Id!Found, Pieces, Emitted, Moved, ResultsAt, ResultOf,
         Id!FlattenSeq, FlattenSeq, Id!IssuedIn, Id!AnsweredIn, Issued, Answered,
         Id!FirstResult, Log!FirstResult, Id!SelectInSeq, Log!SelectInSeq, Id!Min, Log!Min,
         Id!LastAsk, Log!LastAsk, Id!SelectLastInSeq, Log!SelectLastInSeq, Id!Max, Log!Max,
         Id!Asks, Log!Asks, Id!Gives, Log!Gives, Id!ToSet, Log!ToSet, Id!Placeholder,
         Log!Placeholder
<1> QED
  BY <1>3, <1>4, <1>5 DEF Mended

(* Each call is asked for and answered once at most, and answered right    *)
(* after its block, among other results.                                   *)
Followed(ms) ==
  \A j \in DOMAIN ms : \A c \in Ids : Log!Gives(ms[j], c) =>
    \E i \in 1..(j - 1) :
      Log!Asks(ms[i], c) /\ \A k \in (i + 1)..j : ms[k].role = "tool"
IdThread(ms) == ms \in Seq(IdMessages) /\ Paired(Ids, ms) /\ Followed(ms)
UpTo(ms, n) == \A i \in DOMAIN ms : \A c \in Ids : Log!Asks(ms[i], c) => c \in 1..n
OpenIn(ms, i) == \E c \in Ids : Log!Asks(ms[i], c) /\ c \notin Answered(Ids, ms)
Over(ms, i) == \E j \in DOMAIN ms : i < j /\ ms[j] = Id!User

LEMMA AppendIs ==
  ASSUME NEW S, NEW s \in Seq(S), NEW x \in S
  PROVE  /\ Append(s, x) \in Seq(S) /\ Len(s) \in Nat /\ Len(Append(s, x)) = Len(s) + 1
         /\ DOMAIN s = 1..Len(s) /\ DOMAIN Append(s, x) = 1..(Len(s) + 1)
         /\ Append(s, x)[Len(s) + 1] = x /\ \A i \in 1..Len(s) : Append(s, x)[i] = s[i]
  OBVIOUS

LEMMA IdEmpty ==
  IdThread(<<>>) /\ (\A n : UpTo(<<>>, n)) /\ Answered(Ids, <<>>) = {}
  BY DEF IdThread, Paired, Followed, UpTo, Answered

(* What stays of a thread that grows. *)
LEMMA IdGrows ==
  ASSUME NEW ms \in Seq(IdMessages), NEW m \in IdMessages
  PROVE  /\ \A i \in DOMAIN ms : Over(ms, i) => Over(Append(ms, m), i)
         /\ m = Id!User => \A i \in DOMAIN ms : Over(Append(ms, m), i)
         /\ (\A c \in Ids : ~Log!Gives(m, c)) => Answered(Ids, Append(ms, m)) = Answered(Ids, ms)
         /\ Answered(Ids, ms) \subseteq Answered(Ids, Append(ms, m))
         /\ \A i \in DOMAIN ms : OpenIn(Append(ms, m), i) => OpenIn(ms, i)
<1> DEFINE n == Len(ms)
           r == Append(ms, m)
<1>1. /\ r \in Seq(IdMessages) /\ n \in Nat /\ DOMAIN r = 1..(n + 1) /\ DOMAIN ms = 1..n
      /\ r[n + 1] = m /\ \A i \in 1..n : r[i] = ms[i]
  BY AppendIs
<1> HIDE DEF n, r
<1>2. \A i \in DOMAIN ms : Over(ms, i) => Over(r, i)
  BY <1>1 DEF Over
<1>3. m = Id!User => \A i \in DOMAIN ms : Over(r, i)
  <2> SUFFICES ASSUME m = Id!User, NEW i \in DOMAIN ms PROVE Over(r, i)
    OBVIOUS
  <2>1. n + 1 \in DOMAIN r /\ i < n + 1
    BY <1>1
  <2> QED BY <1>1, <2>1 DEF Over
<1>4. (\A c \in Ids : ~Log!Gives(m, c)) => Answered(Ids, r) = Answered(Ids, ms)
  BY <1>1 DEF Answered
<1>5. Answered(Ids, ms) \subseteq Answered(Ids, r)
  BY <1>1 DEF Answered
<1>6. \A i \in DOMAIN ms : OpenIn(r, i) => OpenIn(ms, i)
  BY <1>1, <1>5 DEF OpenIn
<1> QED
  BY <1>2, <1>3, <1>4, <1>5, <1>6 DEF r

(* A message that neither asks for a call nor answers one. *)
LEMMA IdAppendPlain ==
  ASSUME NEW ms, IdThread(ms), NEW m \in IdPlain, NEW n, UpTo(ms, n)
  PROVE  /\ IdThread(Append(ms, m)) /\ UpTo(Append(ms, m), n)
         /\ \A i \in DOMAIN Append(ms, m) : OpenIn(Append(ms, m), i) =>
              i \in DOMAIN ms /\ OpenIn(ms, i)
<1> DEFINE l == Len(ms)
           r == Append(ms, m)
<1>0. ms \in Seq(IdMessages) /\ m \in IdMessages
  BY DEF IdThread, IdMessages
<1>1. /\ r \in Seq(IdMessages) /\ l \in Nat /\ DOMAIN r = 1..(l + 1) /\ DOMAIN ms = 1..l
      /\ r[l + 1] = m /\ \A i \in 1..l : r[i] = ms[i]
  BY <1>0, AppendIs
<1>2. \A c \in Ids : ~Log!Gives(m, c) /\ ~Log!Asks(m, c)
  BY DEF IdPlain, Id!User, Id!Notice, Id!Assistant, Log!Gives, Log!Asks, Log!ToSet
<1>3. \A i \in DOMAIN ms : OpenIn(r, i) => OpenIn(ms, i)
  BY <1>0, IdGrows
<1> HIDE DEF l, r
<1>4. /\ \A i \in DOMAIN r : \A c \in Ids : Log!Asks(r[i], c) => i \in 1..l /\ Log!Asks(ms[i], c)
      /\ \A i \in DOMAIN r : \A c \in Ids : Log!Gives(r[i], c) => i \in 1..l /\ Log!Gives(ms[i], c)
  BY <1>1, <1>2
<1>5. Paired(Ids, r)
  <2>1. Paired(Ids, ms)
    BY DEF IdThread
  <2>2. \A j \in DOMAIN r : \A c \in Ids :
          Log!Gives(r[j], c) => \E i \in 1..(j - 1) : i \in DOMAIN r /\ Log!Asks(r[i], c)
    <3> SUFFICES ASSUME NEW j \in DOMAIN r, NEW c \in Ids, Log!Gives(r[j], c)
                 PROVE  \E i \in 1..(j - 1) : i \in DOMAIN r /\ Log!Asks(r[i], c)
      OBVIOUS
    <3>1. j \in DOMAIN ms /\ Log!Gives(ms[j], c)
      BY <1>1, <1>4
    <3>2. PICK i \in 1..(j - 1) : i \in DOMAIN ms /\ Log!Asks(ms[i], c)
      BY <2>1, <3>1 DEF Paired
    <3>3. i \in DOMAIN r /\ r[i] = ms[i]
      BY <1>1, <3>2
    <3> QED BY <3>2, <3>3
  <2>3. \A i, j \in DOMAIN r : \A c \in Ids :
          Log!Asks(r[i], c) /\ Log!Asks(r[j], c) => i = j
    BY <1>1, <1>4, <2>1 DEF Paired
  <2>4. \A i, j \in DOMAIN r : \A c \in Ids :
          Log!Gives(r[i], c) /\ Log!Gives(r[j], c) => i = j
    BY <1>1, <1>4, <2>1 DEF Paired
  <2> QED BY <2>2, <2>3, <2>4 DEF Paired
<1>6. Followed(r)
  <2> SUFFICES ASSUME NEW j \in DOMAIN r, NEW c \in Ids, Log!Gives(r[j], c)
               PROVE  \E i \in 1..(j - 1) :
                        Log!Asks(r[i], c) /\ \A k \in (i + 1)..j : r[k].role = "tool"
    BY DEF Followed
  <2>1. j \in 1..l /\ Log!Gives(ms[j], c)
    BY <1>4
  <2>2. PICK i \in 1..(j - 1) : Log!Asks(ms[i], c) /\ \A k \in (i + 1)..j : ms[k].role = "tool"
    BY <1>1, <2>1 DEF IdThread, Followed
  <2>3. i \in 1..l /\ \A k \in (i + 1)..j : k \in 1..l
    BY <1>1, <2>1
  <2> QED BY <1>1, <2>2, <2>3
<1>7. UpTo(r, n)
  BY <1>1, <1>4 DEF UpTo
<1>8. \A i \in DOMAIN r : OpenIn(r, i) => i \in DOMAIN ms /\ OpenIn(ms, i)
  <2> SUFFICES ASSUME NEW i \in DOMAIN r, OpenIn(r, i) PROVE i \in DOMAIN ms
    BY <1>3
  <2> QED BY <1>1, <1>4 DEF OpenIn
<1> QED
  BY <1>1, <1>5, <1>6, <1>7, <1>8 DEF IdThread, r

(* A block of calls with new ids. *)
LEMMA IdAppendAsk ==
  ASSUME NEW ms, IdThread(ms), NEW n \in Nat, UpTo(ms, n), NEW size \in Nat,
         n + size <= MaxCalls
  PROVE  LET m == IdAsked([k \in 1..size |-> n + k])
             r == Append(ms, m)
         IN  /\ m \in IdMessages /\ IdThread(r) /\ UpTo(r, n + size)
             /\ \A c \in Ids : Log!Asks(m, c) <=> c \in (n + 1)..(n + size)
             /\ Answered(Ids, r) = Answered(Ids, ms)
             /\ \A c \in (n + 1)..(n + size) : c \notin Answered(Ids, ms)
<1> DEFINE cs == [k \in 1..size |-> n + k]
           m == IdAsked(cs)
           l == Len(ms)
           r == Append(ms, m)
<1>a. MaxCalls \in Nat /\ 1..MaxCalls \subseteq Ids
  BY IdsAre
<1>b. cs \in IdBlocks
  <2>1. \A k \in 1..size : n + k \in 1..MaxCalls
    BY <1>a
  <2>2. cs \in Seq(1..MaxCalls)
    BY <2>1
  <2>3. IsInjective(cs)
    BY DEF IsInjective
  <2> QED BY <2>2, <2>3 DEF IdBlocks
<1>c. ms \in Seq(IdMessages) /\ m \in IdMessages
  BY <1>b DEF IdThread, IdMessages
<1>d. \A c \in Ids : ~Log!Gives(m, c) /\ (Log!Asks(m, c) <=> c \in (n + 1)..(n + size))
  <2>1. \A c : (\E k \in 1..size : cs[k] = c) <=> c \in (n + 1)..(n + size)
    <3>1. \A c : c \in (n + 1)..(n + size) => c - n \in 1..size /\ n + (c - n) = c
      OBVIOUS
    <3>2. \A k \in 1..size : n + k \in (n + 1)..(n + size)
      OBVIOUS
    <3> QED BY <3>1, <3>2
  <2>2. Log!ToSet(cs) = (n + 1)..(n + size)
    BY <2>1 DEF Log!ToSet
  <2>3. m.role = "assistant" /\ m.calls = cs
    BY DEF IdAsked
  <2> HIDE DEF m, cs
  <2> QED BY <2>2, <2>3 DEF Log!Gives, Log!Asks
<1>1. /\ r \in Seq(IdMessages) /\ l \in Nat /\ DOMAIN r = 1..(l + 1) /\ DOMAIN ms = 1..l
      /\ r[l + 1] = m /\ \A i \in 1..l : r[i] = ms[i]
  BY <1>c, AppendIs
<1>3. Answered(Ids, r) = Answered(Ids, ms)
  BY <1>c, <1>d, IdGrows
<1> HIDE DEF l, r, m, cs
<1>4. /\ \A i \in DOMAIN r : \A c \in Ids : Log!Gives(r[i], c) => i \in 1..l /\ Log!Gives(ms[i], c)
      /\ \A i \in DOMAIN r : \A c \in Ids : Log!Asks(r[i], c) =>
           \/ i = l + 1 /\ c \in (n + 1)..(n + size)
           \/ i \in 1..l /\ Log!Asks(ms[i], c) /\ c \in 1..n
  BY <1>1, <1>d DEF UpTo
<1>5. Paired(Ids, ms)
  BY DEF IdThread
<1>6. \A c \in (n + 1)..(n + size) : c \notin Answered(Ids, ms)
  <2> SUFFICES ASSUME NEW c \in Ids, c \in (n + 1)..(n + size), c \in Answered(Ids, ms) PROVE FALSE
    BY DEF Answered
  <2>1. PICK j \in DOMAIN ms : Log!Gives(ms[j], c)
    BY DEF Answered
  <2>2. PICK i \in DOMAIN ms : Log!Asks(ms[i], c)
    BY <1>5, <2>1 DEF Paired
  <2>3. c \in 1..n
    BY <2>2 DEF UpTo
  <2> QED BY <2>3
<1>7. Paired(Ids, r)
  <2>1. \A i, j \in DOMAIN r : \A c \in Ids :
          Log!Asks(r[i], c) /\ Log!Asks(r[j], c) => i = j
    <3> SUFFICES ASSUME NEW i \in DOMAIN r, NEW j \in DOMAIN r, NEW c \in Ids,
                        Log!Asks(r[i], c), Log!Asks(r[j], c)
                 PROVE  i = j
      OBVIOUS
    <3>1. ~(c \in (n + 1)..(n + size) /\ c \in 1..n)
      OBVIOUS
    <3> QED BY <1>1, <1>4, <1>5, <3>1 DEF Paired
  <2>2. \A i, j \in DOMAIN r : \A c \in Ids :
          Log!Gives(r[i], c) /\ Log!Gives(r[j], c) => i = j
    BY <1>1, <1>4, <1>5 DEF Paired
  <2>3. \A j \in DOMAIN r : \A c \in Ids :
          Log!Gives(r[j], c) => \E i \in 1..(j - 1) : i \in DOMAIN r /\ Log!Asks(r[i], c)
    <3> SUFFICES ASSUME NEW j \in DOMAIN r, NEW c \in Ids, Log!Gives(r[j], c)
                 PROVE  \E i \in 1..(j - 1) : i \in DOMAIN r /\ Log!Asks(r[i], c)
      OBVIOUS
    <3>1. j \in DOMAIN ms /\ Log!Gives(ms[j], c)
      BY <1>1, <1>4
    <3>2. PICK i \in 1..(j - 1) : i \in DOMAIN ms /\ Log!Asks(ms[i], c)
      BY <1>5, <3>1 DEF Paired
    <3>3. i \in DOMAIN r /\ r[i] = ms[i]
      BY <1>1, <3>2
    <3> QED BY <3>2, <3>3
  <2> QED BY <2>1, <2>2, <2>3 DEF Paired
<1>8. Followed(r)
  <2> SUFFICES ASSUME NEW j \in DOMAIN r, NEW c \in Ids, Log!Gives(r[j], c)
               PROVE  \E i \in 1..(j - 1) :
                        Log!Asks(r[i], c) /\ \A k \in (i + 1)..j : r[k].role = "tool"
    BY DEF Followed
  <2>1. j \in 1..l /\ Log!Gives(ms[j], c)
    BY <1>4
  <2>2. PICK i \in 1..(j - 1) : Log!Asks(ms[i], c) /\ \A k \in (i + 1)..j : ms[k].role = "tool"
    BY <1>1, <2>1 DEF IdThread, Followed
  <2>3. i \in 1..l /\ \A k \in (i + 1)..j : k \in 1..l
    BY <1>1, <2>1
  <2> QED BY <1>1, <2>2, <2>3
<1>9. UpTo(r, n + size)
  <2>1. 1..n \subseteq 1..(n + size) /\ (n + 1)..(n + size) \subseteq 1..(n + size)
    OBVIOUS
  <2> QED BY <1>4, <2>1 DEF UpTo
<1> QED
  BY <1>c, <1>d, <1>1, <1>3, <1>6, <1>7, <1>8, <1>9 DEF IdThread, r, m, cs

(* The result of a call of the last block. *)
LEMMA IdAppendGive ==
  ASSUME NEW ms, IdThread(ms), NEW n, UpTo(ms, n), NEW b \in DOMAIN ms, NEW c \in 1..MaxCalls,
         Log!Asks(ms[b], c), c \notin Answered(Ids, ms),
         \A j \in DOMAIN ms : j > b => ms[j].role = "tool"
  PROVE  LET r == Append(ms, IdGiven(c))
         IN  /\ IdGiven(c) \in IdMessages /\ IdThread(r) /\ UpTo(r, n)
             /\ Answered(Ids, r) = Answered(Ids, ms) \cup {c}
             /\ b \in DOMAIN r /\ r[b] = ms[b]
             /\ \A j \in DOMAIN r : j > b => r[j].role = "tool"
             /\ \A i \in DOMAIN r : OpenIn(r, i) => i \in DOMAIN ms /\ OpenIn(ms, i)
<1> DEFINE m == IdGiven(c)
           l == Len(ms)
           r == Append(ms, m)
<1>a. MaxCalls \in Nat /\ 1..MaxCalls \subseteq Ids
  BY IdsAre
<1>b. ms \in Seq(IdMessages) /\ m \in IdMessages
  BY DEF IdThread, IdMessages
<1>c. /\ \A d : ~Log!Asks(m, d)
      /\ \A d \in Ids : Log!Gives(m, d) <=> d = c
      /\ m.role = "tool"
  BY DEF IdGiven, Log!Asks, Log!Gives
<1>1. /\ r \in Seq(IdMessages) /\ l \in Nat /\ DOMAIN r = 1..(l + 1) /\ DOMAIN ms = 1..l
      /\ r[l + 1] = m /\ \A i \in 1..l : r[i] = ms[i]
  BY <1>b, AppendIs
<1>2. \A i \in DOMAIN ms : OpenIn(r, i) => OpenIn(ms, i)
  BY <1>b, IdGrows
<1> HIDE DEF l, r, m
<1>4. /\ \A i \in DOMAIN r : \A d \in Ids : Log!Asks(r[i], d) => i \in 1..l /\ Log!Asks(ms[i], d)
      /\ \A i \in DOMAIN r : \A d \in Ids : Log!Gives(r[i], d) =>
           \/ i = l + 1 /\ d = c
           \/ i \in 1..l /\ Log!Gives(ms[i], d)
  BY <1>1, <1>c
<1>5. Paired(Ids, ms)
  BY DEF IdThread
<1>6. Answered(Ids, r) = Answered(Ids, ms) \cup {c}
  <2>1. c \in Ids /\ l + 1 \in DOMAIN r /\ Log!Gives(r[l + 1], c)
    BY <1>a, <1>c, <1>1
  <2>2. \A d \in Ids : (\E i \in DOMAIN r : Log!Gives(r[i], d))
                         <=> d = c \/ \E i \in DOMAIN ms : Log!Gives(ms[i], d)
    BY <1>1, <1>4, <2>1
  <2> QED BY <2>1, <2>2 DEF Answered
<1>7. \A i \in DOMAIN ms : ~Log!Gives(ms[i], c)
  BY <1>a DEF Answered
<1>8. Paired(Ids, r)
  <2>1. \A i, j \in DOMAIN r : \A d \in Ids :
          Log!Asks(r[i], d) /\ Log!Asks(r[j], d) => i = j
    BY <1>1, <1>4, <1>5 DEF Paired
  <2>2. \A i, j \in DOMAIN r : \A d \in Ids :
          Log!Gives(r[i], d) /\ Log!Gives(r[j], d) => i = j
    BY <1>1, <1>4, <1>5, <1>7 DEF Paired
  <2>3. \A j \in DOMAIN r : \A d \in Ids :
          Log!Gives(r[j], d) => \E i \in 1..(j - 1) : i \in DOMAIN r /\ Log!Asks(r[i], d)
    <3> SUFFICES ASSUME NEW j \in DOMAIN r, NEW d \in Ids, Log!Gives(r[j], d)
                 PROVE  \E i \in 1..(j - 1) : i \in DOMAIN r /\ Log!Asks(r[i], d)
      OBVIOUS
    <3>1. CASE j = l + 1 /\ d = c
      <4>1. b \in 1..(j - 1) /\ b \in DOMAIN r /\ r[b] = ms[b]
        BY <1>1, <3>1
      <4> QED BY <3>1, <4>1
    <3>2. CASE j \in DOMAIN ms /\ Log!Gives(ms[j], d)
      <4>1. PICK i \in 1..(j - 1) : i \in DOMAIN ms /\ Log!Asks(ms[i], d)
        BY <1>5, <3>2 DEF Paired
      <4>2. i \in DOMAIN r /\ r[i] = ms[i]
        BY <1>1, <4>1
      <4> QED BY <4>1, <4>2
    <3> QED BY <1>1, <1>4, <3>1, <3>2
  <2> QED BY <2>1, <2>2, <2>3 DEF Paired
<1>9. \A j \in DOMAIN r : j > b => r[j].role = "tool"
  BY <1>1, <1>c
<1>10. Followed(r)
  <2> SUFFICES ASSUME NEW j \in DOMAIN r, NEW d \in Ids, Log!Gives(r[j], d)
               PROVE  \E i \in 1..(j - 1) :
                        Log!Asks(r[i], d) /\ \A k \in (i + 1)..j : r[k].role = "tool"
    BY DEF Followed
  <2>1. CASE j = l + 1 /\ d = c
    <3>1. b \in 1..(j - 1) /\ b \in DOMAIN r /\ r[b] = ms[b]
            /\ \A k \in (b + 1)..j : k \in DOMAIN r /\ k > b
      BY <1>1, <2>1
    <3> QED BY <1>9, <2>1, <3>1
  <2>2. CASE j \in 1..l /\ Log!Gives(ms[j], d)
    <3>2. PICK i \in 1..(j - 1) : Log!Asks(ms[i], d) /\ \A k \in (i + 1)..j : ms[k].role = "tool"
      BY <1>1, <2>2 DEF IdThread, Followed
    <3>3. i \in 1..l /\ \A k \in (i + 1)..j : k \in 1..l
      BY <1>1, <2>2
    <3> QED BY <1>1, <3>2, <3>3
  <2> QED BY <1>1, <1>4, <2>1, <2>2
<1>11. UpTo(r, n)
  BY <1>1, <1>4 DEF UpTo
<1>12. \A i \in DOMAIN r : OpenIn(r, i) => i \in DOMAIN ms /\ OpenIn(ms, i)
  <2> SUFFICES ASSUME NEW i \in DOMAIN r, OpenIn(r, i) PROVE i \in DOMAIN ms
    BY <1>2
  <2> QED BY <1>1, <1>4 DEF OpenIn
<1>13. b \in DOMAIN r /\ r[b] = ms[b]
  BY <1>1
<1> QED
  BY <1>b, <1>1, <1>6, <1>8, <1>9, <1>10, <1>11, <1>12, <1>13 DEF IdThread, r, m

(* The repair of such a thread: only a block at the very end stays open.   *)
LEMMA IdRepair ==
  ASSUME NEW ms, IdThread(ms), NEW n, UpTo(ms, n)
  PROVE  /\ IdThread(Id!Repaired(ms)) /\ UpTo(Id!Repaired(ms), n)
         /\ \A i \in DOMAIN Id!Repaired(ms) :
              OpenIn(Id!Repaired(ms), i) => i = Len(Id!Repaired(ms))
<1> DEFINE C == Ids
           M == IdMessages
           R == Mended(Ids, ms)
<1>1. Id!Repaired(ms) = R
  BY IdMends
<1>2. Kind(Ids, IdMessages) /\ ms \in Seq(IdMessages) /\ Paired(Ids, ms)
  BY IdKind DEF IdThread
<1>3. R \in Seq(IdMessages)
  BY <1>2, MendedInSeq
<1>4. Paired(Ids, R) /\ WellPlaced(Ids, R)
  BY <1>2, MendPairs, MendPlaces
<1>5. ASSUME NEW i \in DOMAIN R, OpenIn(R, i) PROVE i = Len(R)
  <2>1. PICK c \in Ids : Log!Asks(R[i], c) /\ c \notin Answered(Ids, R)
    BY <1>5 DEF OpenIn
  <2>2. ~Log!Placed(R, i, c)
    BY <2>1 DEF Log!Placed, Answered
  <2> QED BY <1>4, <2>1, <2>2 DEF WellPlaced
<1>6. CASE ~Broken(Ids, ms)
  <2>1. R = ms
    BY <1>6, MendedIs
  <2> HIDE DEF R
  <2> QED BY <1>1, <1>5, <2>1
<1>7. CASE Broken(Ids, ms)
  <2> DEFINE r == FlattenSeq(Pieces(Ids, ms))
             o(i) == Offset(Pieces(Ids, ms), i)
  <2>1. R = r
    BY <1>7, MendedIs
  <2>2. UpTo(r, n)
    <3> SUFFICES ASSUME NEW p \in DOMAIN r, NEW c \in Ids, Log!Asks(r[p], c) PROVE c \in 1..n
      BY DEF UpTo
    <3>1. PICK i \in DOMAIN ms : \E j \in DOMAIN Emitted(Ids, ms, i) :
            p = o(i) + j /\ r[p] = Emitted(Ids, ms, i)[j]
      BY <1>2, PlaceIs
    <3>2. PICK j \in DOMAIN Emitted(Ids, ms, i) : r[p] = Emitted(Ids, ms, i)[j]
      BY <3>1
    <3>3. Emitted(Ids, ms, i)[j] = ms[i]
      BY <1>2, <3>2, PairedEmitted
    <3>4. Log!Asks(ms[i], c)
      <4> HIDE DEF r, o
      <4> QED BY <3>2, <3>3
    <3> QED BY <3>4 DEF UpTo
  <2>3. Followed(r)
    <3> SUFFICES ASSUME NEW p \in DOMAIN r, NEW c \in Ids, Log!Gives(r[p], c)
                 PROVE  \E i \in 1..(p - 1) :
                          Log!Asks(r[i], c) /\ \A k \in (i + 1)..p : r[k].role = "tool"
      BY DEF Followed
    <3>1. PICK i \in DOMAIN ms : \E j \in DOMAIN Emitted(Ids, ms, i) :
            p = o(i) + j /\ r[p] = Emitted(Ids, ms, i)[j]
      BY <1>2, PlaceIs
    <3>2. PICK j \in DOMAIN Emitted(Ids, ms, i) : p = o(i) + j /\ r[p] = Emitted(Ids, ms, i)[j]
      BY <3>1
    <3>3. /\ ms[i].role = "assistant" /\ j - 1 \in DOMAIN ms[i].calls
          /\ ms[i].calls[j - 1] = c /\ FullAt(Ids, ms, i)
      BY <1>2, <3>2, PairedEmitted
    <3>4. /\ Emitted(Ids, ms, i) = <<ms[i]>> \o Results(Ids, ms, i)
          /\ Results(Ids, ms, i) \in Seq(ToolsOf(IdMessages)) /\ ms[i] \in IdMessages
          /\ ms[i].calls \in Seq(Ids)
      <4>1. /\ Results(Ids, ms, i) \in Seq(ToolsOf(IdMessages)) /\ ms[i] \in IdMessages
            /\ ms[i].calls \in Seq(Ids)
        BY <1>2, ResultsAre
      <4>2. Emitted(Ids, ms, i) = <<ms[i]>> \o Results(Ids, ms, i)
        BY <1>2, <3>3, EmittedIs
      <4> QED
        BY <4>1, <4>2
    <3>5. /\ j \in Nat /\ j - 1 > 0 /\ DOMAIN Emitted(Ids, ms, i) = 1..(Len(Results(Ids, ms, i)) + 1)
          /\ Len(Results(Ids, ms, i)) \in Nat
          /\ Emitted(Ids, ms, i)[1] = ms[i]
          /\ \A q \in 2..(Len(Results(Ids, ms, i)) + 1) :
               Emitted(Ids, ms, i)[q] \in ToolsOf(IdMessages)
      <4>1. \A x, s : s \in Seq(ToolsOf(IdMessages)) /\ x \in IdMessages =>
              /\ Len(s) \in Nat /\ DOMAIN s = 1..Len(s)
              /\ DOMAIN (<<x>> \o s) = 1..(Len(s) + 1) /\ (<<x>> \o s)[1] = x
              /\ \A q \in 2..(Len(s) + 1) :
                   (<<x>> \o s)[q] = s[q - 1] /\ s[q - 1] \in ToolsOf(IdMessages)
        OBVIOUS
      <4>2. /\ Len(Results(Ids, ms, i)) \in Nat
            /\ DOMAIN Emitted(Ids, ms, i) = 1..(Len(Results(Ids, ms, i)) + 1)
            /\ Emitted(Ids, ms, i)[1] = ms[i]
            /\ \A q \in 2..(Len(Results(Ids, ms, i)) + 1) :
                 Emitted(Ids, ms, i)[q] \in ToolsOf(IdMessages)
        BY <3>4, <4>1
      <4>3. j \in Nat
        BY <4>2
      <4>4. j - 1 \in 1..Len(ms[i].calls) /\ Len(ms[i].calls) \in Nat
        BY <3>3, <3>4
      <4> QED BY <4>2, <4>3, <4>4
    <3>6. /\ o(i) \in Nat
          /\ \A l \in DOMAIN Emitted(Ids, ms, i) :
               o(i) + l \in DOMAIN r /\ r[o(i) + l] = Emitted(Ids, ms, i)[l]
      <4>1. /\ Pieces(Ids, ms) \in Seq(Seq(IdMessages)) /\ i \in DOMAIN Pieces(Ids, ms)
            /\ Pieces(Ids, ms)[i] = Emitted(Ids, ms, i)
        BY <1>2, PiecesAre
      <4> QED BY <4>1, FlatPlaces
    <3> DEFINE e == Emitted(Ids, ms, i)
               z == Len(Results(Ids, ms, i))
               a == o(i)
    <3> HIDE DEF r, o, e, z, a
    <3>7. a + 1 \in 1..(p - 1) /\ r[a + 1] = ms[i]
      BY <3>2, <3>5, <3>6 DEF e, z, a
    <3>8. Log!Asks(ms[i], c)
      BY <3>3 DEF Log!Asks, Log!ToSet
    <3>9. \A k \in (a + 2)..p : r[k].role = "tool"
      <4> SUFFICES ASSUME NEW k \in (a + 2)..p PROVE r[k].role = "tool"
        OBVIOUS
      <4>1. j \in 1..(z + 1) /\ z \in Nat /\ a \in Nat /\ p = a + j
        BY <3>2, <3>5, <3>6 DEF e, z, a
      <4>2. k - a \in 2..(z + 1) /\ k - a \in 1..(z + 1) /\ k = a + (k - a)
        BY <4>1
      <4>3. r[a + (k - a)] = Emitted(Ids, ms, i)[k - a]
        BY <3>5, <3>6, <4>2 DEF z, a
      <4>4. Emitted(Ids, ms, i)[k - a] \in ToolsOf(IdMessages)
        BY <3>5, <4>2 DEF z
      <4>5. r[k] \in ToolsOf(IdMessages)
        BY <4>2, <4>3, <4>4
      <4> QED BY <4>5 DEF ToolsOf
    <3>10. a \in Nat /\ (a + 1) + 1 = a + 2
      BY <3>6 DEF a
    <3> QED BY <3>7, <3>8, <3>9, <3>10
  <2> HIDE DEF r, R
  <2> QED BY <1>1, <1>3, <1>4, <1>5, <2>1, <2>2, <2>3 DEF IdThread
<1> HIDE DEF R
<1> QED
  BY <1>6, <1>7

(* What a resume finds: the calls of a block at the very end, or nothing.  *)
IdCall(c) == [id |-> c, of |-> c]
Left(ms, b) == {c \in Ids : Log!Asks(ms[b], c) /\ c \notin Answered(Ids, ms)}

LEMMA IdResumes ==
  ASSUME NEW ms, IdThread(ms),
         \A i \in DOMAIN ms : OpenIn(ms, i) => Over(ms, i) \/ i = Len(ms)
  PROVE  /\ Id!Resumable(ms) \in Seq(Id!Call) /\ IsInjective(Id!Resumable(ms))
         /\ Id!Resumable(ms) # <<>> =>
              /\ Len(ms) \in DOMAIN ms /\ ms[Len(ms)].role = "assistant"
              /\ Range(Id!Resumable(ms)) = {IdCall(c) : c \in Left(ms, Len(ms))}
              /\ \A i \in DOMAIN ms : OpenIn(ms, i) => i = Len(ms) \/ Over(ms, i)
<1> DEFINE IsBlock(m) == m.role = "assistant" /\ m.calls # <<>>
           B == {i \in 1..Len(ms) : IsBlock(ms[i])}
           U == {i \in 1..Len(ms) : ms[i].role = "user"}
           b == Id!LastBlock(ms)
           u == Id!LastUser(ms)
           T == {c \in Id!Call : c.id \in Id!Unanswered(ms)}
           cs == Id!CallsOf(ms[b])
<1>1. ms \in Seq(IdMessages) /\ Len(ms) \in Nat /\ DOMAIN ms = 1..Len(ms)
  BY DEF IdThread
<1>2. \A I : Id!Max(I) = Log!Max(I)
  BY DEF Id!Max, Log!Max
<1>3. /\ b = IF B # {} THEN Log!Max(B) ELSE 0
      /\ u = IF U # {} THEN Log!Max(U) ELSE 0
  BY <1>2 DEF Id!LastBlock, Id!LastUser, Id!SelectLastInSeq
<1>4. Id!Resumable(ms) = IF b <= u THEN <<>> ELSE Kept(cs, T)
  BY DEF Id!Resumable, Id!Kept, Kept
<1>5. CASE b <= u
  <2>1. Id!Resumable(ms) = <<>> /\ <<>> \in Seq(Id!Call)
    BY <1>4, <1>5
  <2> QED BY <2>1, InjectiveEmpty
<1>6. CASE ~(b <= u)
  <2> HIDE DEF b, u, T, cs
  <2>1. /\ U # {} => u \in U /\ \A k \in U : k <= u
        /\ B # {} => b \in B
    BY <1>1, <1>3, MaxIs
  <2>2. B # {}
    <3>1. u \in Nat
      BY <1>1, <1>3, <2>1
    <3> HIDE DEF B, U
    <3> QED BY <1>3, <1>6, <3>1
  <2>3. b \in DOMAIN ms /\ ms[b].role = "assistant" /\ ms[b].calls # <<>> /\ b \in Nat
    BY <1>1, <2>1, <2>2
  <2> DEFINE q == ms[b].calls
  <2>4. q \in Seq(1..MaxCalls) /\ IsInjective(q) /\ ms[b].about = q
    <3>1. ms[b] \in IdMessages
      BY <1>1, <2>3
    <3> QED BY <2>3, <3>1, IdMessageIs
  <2>5. cs = [k \in DOMAIN q |-> IdCall(q[k])]
    BY <2>4 DEF cs, Id!CallsOf, IdCall
  <2> HIDE DEF q
  <2>6. \A c \in 1..MaxCalls : IdCall(c) \in Id!Call /\ IdCall(c).id = c
    BY IdsAre DEF IdCall, Id!Call
  <2>7a. DOMAIN q = 1..Len(q) /\ Len(q) \in Nat /\ \A k \in 1..Len(q) : q[k] \in 1..MaxCalls
    <3> DEFINE S == 1..MaxCalls
    <3>1. q \in Seq(S)
      BY <2>4
    <3> HIDE DEF S
    <3>2. DOMAIN q = 1..Len(q) /\ Len(q) \in Nat /\ \A k \in 1..Len(q) : q[k] \in S
      BY ONLY <3>1
    <3> QED BY <3>2 DEF S
  <2>7b. cs = [k \in 1..Len(q) |-> IdCall(q[k])]
    BY <2>5, <2>7a
  <2>7. cs \in Seq(Id!Call) /\ DOMAIN cs = DOMAIN q /\ DOMAIN q = 1..Len(q) /\ Len(q) \in Nat
    BY ONLY <2>6, <2>7a, <2>7b
  <2>8. \A k \in DOMAIN q : cs[k] = IdCall(q[k]) /\ q[k] \in 1..MaxCalls
    BY ONLY <2>7a, <2>7b
  <2>9. IsInjective(cs)
    <3> SUFFICES ASSUME NEW k \in DOMAIN q, NEW l \in DOMAIN q, cs[k] = cs[l] PROVE k = l
      BY <2>7 DEF IsInjective
    <3>1. q[k] = q[l]
      BY <2>6, <2>8
    <3> QED BY <2>4, <3>1 DEF IsInjective
  <2>10. Id!Unanswered(ms) = Left(ms, b)
    <3>1. Id!Unanswered(ms) = Id!ToSet(q) \ Id!AnsweredIn(ms)
      BY <1>6 DEF Id!Unanswered, b, u, q
    <3>2. Id!AnsweredIn(ms) = Answered(Ids, ms)
      BY IdMends
    <3>3. \A c : c \in Id!ToSet(q) <=> \E k \in DOMAIN q : q[k] = c
      BY DEF Id!ToSet
    <3>4. \A c : Log!Asks(ms[b], c) <=> \E k \in DOMAIN q : q[k] = c
      BY <2>3 DEF Log!Asks, Log!ToSet, q
    <3>5. \A k \in DOMAIN q : q[k] \in Ids
      BY <2>8, IdsAre
    <3> QED BY <3>1, <3>2, <3>3, <3>4, <3>5 DEF Left
  <2>11. \A c \in Left(ms, b) : c \in 1..MaxCalls /\ \E k \in DOMAIN q : q[k] = c
    BY <2>3, <2>8 DEF Left, Log!Asks, Log!ToSet, q
  <2>12. Range(cs) = {IdCall(q[k]) : k \in DOMAIN q}
    BY <2>7, <2>8 DEF Range
  <2>13. Range(cs) \cap T = {IdCall(c) : c \in Left(ms, b)}
    <3>1. ASSUME NEW x \in Range(cs), x \in T PROVE \E c \in Left(ms, b) : x = IdCall(c)
      <4>1. PICK k \in DOMAIN q : x = IdCall(q[k])
        BY <2>12, <3>1
      <4>2. x.id = q[k] /\ x.id \in Left(ms, b)
        BY <2>6, <2>8, <2>10, <3>1, <4>1 DEF T
      <4> QED BY <4>1, <4>2
    <3>2. ASSUME NEW c \in Left(ms, b) PROVE IdCall(c) \in Range(cs) /\ IdCall(c) \in T
      <4>1. PICK k \in DOMAIN q : q[k] = c
        BY <2>11
      <4>2. IdCall(c) \in Id!Call /\ IdCall(c).id = c
        BY <2>6, <2>11
      <4> QED BY <2>10, <2>12, <3>2, <4>1, <4>2 DEF T
    <3> QED BY <3>1, <3>2
  <2>14. /\ Kept(cs, T) \in Seq(Id!Call) /\ IsInjective(Kept(cs, T))
         /\ Range(Kept(cs, T)) = {IdCall(c) : c \in Left(ms, b)}
    BY <2>7, <2>9, <2>13, KeptIs
  <2>15. Id!Resumable(ms) = Kept(cs, T)
    BY <1>4, <1>6
  <2>16. ASSUME Kept(cs, T) # <<>> PROVE b = Len(ms)
    <3>1. 1 \in DOMAIN Kept(cs, T)
      BY <2>14, <2>16
    <3>2. Kept(cs, T)[1] \in Range(Kept(cs, T))
      BY <3>1 DEF Range
    <3>3. \E c : c \in Left(ms, b)
      BY <2>14, <3>2
    <3>4. OpenIn(ms, b)
      BY <3>3 DEF OpenIn, Left
    <3>5. ASSUME Over(ms, b) PROVE FALSE
      <4>1. PICK j \in DOMAIN ms : b < j /\ ms[j] = Id!User
        BY <3>5 DEF Over
      <4>2. j \in U
        BY <1>1, <4>1 DEF Id!User
      <4>3. u \in Nat /\ j <= u /\ j \in Nat
        BY <1>1, <2>1, <4>2
      <4> QED BY <1>6, <2>3, <4>1, <4>3
    <3> QED BY <2>3, <3>4, <3>5
  <2> QED BY <2>3, <2>14, <2>15, <2>16
<1> QED
  BY <1>5, <1>6

(* What the provider is sent: the entries that the messages fold into.     *)
IdEntries == [role : {"model", "user"}, asks : Seq(Ids), gives : Seq(Ids)]
AskedAt(es, i) == IF i = 0 THEN <<>> ELSE es[i].asks
GivenAt(es, i) == IF i > Len(es) THEN <<>> ELSE es[i].gives
Met(s, t) == IsInjective(s) /\ IsInjective(t) /\ Range(s) = Range(t)

LEMMA MetTimes ==
  ASSUME NEW s, NEW t, Met(s, t), NEW x
  PROVE  Id!Times(s, x) = Id!Times(t, x)
<1> DEFINE I == {i \in DOMAIN s : s[i] = x}
           J == {i \in DOMAIN t : t[i] = x}
<1>1. \A S : Id!Cardinality(S) = Cardinality(S)
  BY DEF Id!Cardinality, Cardinality
<1>2. Id!Times(s, x) = Cardinality(I) /\ Id!Times(t, x) = Cardinality(J)
  BY <1>1 DEF Id!Times
<1>3. (\E i \in I : TRUE) <=> (\E j \in J : TRUE)
  BY DEF Met, Range
<1>4. \A i, j \in I : i = j
  BY DEF Met, IsInjective
<1>5. \A i, j \in J : i = j
  BY DEF Met, IsInjective
<1> HIDE DEF I, J
<1>6. CASE \E i \in I : TRUE
  <2>1. PICK i \in I : TRUE
    BY <1>6
  <2>2. PICK j \in J : TRUE
    BY <1>3, <1>6
  <2>3. I = {i} /\ J = {j}
    BY <1>4, <1>5, <2>1, <2>2
  <2>4. Cardinality({i}) = 1 /\ Cardinality({j}) = 1
    BY FS_Singleton, Zenon
  <2> QED BY <1>2, <2>3, <2>4
<1>7. CASE ~\E i \in I : TRUE
  <2>1. I = {} /\ J = {}
    BY <1>3, <1>7
  <2> QED BY <1>2, <2>1
<1> QED
  BY <1>6, <1>7

LEMMA FoldIs ==
  ASSUME NEW es \in Seq(IdEntries), NEW e \in IdEntries
  PROVE  LET r == Id!Fold(es, e)
             z == Len(es)
         IN  /\ r \in Seq(IdEntries) /\ z \in Nat
             /\ z > 0 /\ es[z].role = e.role =>
                  /\ Len(r) = z /\ \A i \in 1..(z - 1) : r[i] = es[i]
                  /\ r[z].role = e.role /\ r[z].asks = es[z].asks \o e.asks
                  /\ r[z].gives = es[z].gives \o e.gives
             /\ ~(z > 0 /\ es[z].role = e.role) =>
                  /\ Len(r) = z + 1 /\ (\A i \in 1..z : r[i] = es[i]) /\ r[z + 1] = e
<1> DEFINE r == Id!Fold(es, e)
           z == Len(es)
           S == Seq(Ids)
<1>1. z \in Nat /\ DOMAIN es = 1..z /\ (z > 0 <=> es # <<>>)
  OBVIOUS
<1>2. \A s, t \in Seq(Ids) : s \o t \in Seq(Ids)
  OBVIOUS
<1>3. e.asks \in Seq(Ids) /\ e.gives \in Seq(Ids) /\ e.role \in {"model", "user"}
  BY DEF IdEntries
<1>4. CASE z > 0 /\ es[z].role = e.role
  <2> DEFINE f == [role |-> e.role, asks |-> es[z].asks \o e.asks,
                   gives |-> es[z].gives \o e.gives]
  <2>1. z \in 1..z /\ es[z] \in IdEntries
    BY <1>1, <1>4
  <2>2. es[z].asks \in Seq(Ids) /\ es[z].gives \in Seq(Ids)
    BY <2>1 DEF IdEntries
  <2>3. r = [es EXCEPT ![z] = f]
    BY <1>1, <1>4 DEF Id!Fold
  <2>4. es[z].asks \o e.asks \in Seq(Ids) /\ es[z].gives \o e.gives \in Seq(Ids)
    BY <1>2, <1>3, <2>2
  <2>5. f \in IdEntries
    BY <1>3, <2>4 DEF IdEntries
  <2>6. f.role = e.role /\ f.asks = es[z].asks \o e.asks /\ f.gives = es[z].gives \o e.gives
    OBVIOUS
  <2> HIDE DEF f, r
  <2>7. r \in Seq(IdEntries) /\ Len(r) = z /\ r[z] = f /\ \A i \in 1..(z - 1) : r[i] = es[i]
    <3>1. \A k \in 1..Len(es) : \A x \in IdEntries :
            LET q == [es EXCEPT ![k] = x]
            IN  /\ q \in Seq(IdEntries) /\ Len(q) = Len(es) /\ q[k] = x
                /\ \A i \in 1..Len(es) : i # k => q[i] = es[i]
      OBVIOUS
    <3> HIDE DEF z
    <3>2. /\ r \in Seq(IdEntries) /\ Len(r) = z /\ r[z] = f
          /\ \A i \in 1..z : i # z => r[i] = es[i]
      BY <2>1, <2>3, <2>5, <3>1 DEF z
    <3>3. \A i \in 1..(z - 1) : i \in 1..z /\ i # z
      BY <1>1
    <3> QED BY <3>2, <3>3
  <2> HIDE DEF z
  <2> QED BY <1>1, <1>4, <2>6, <2>7 DEF r, z
<1>5. CASE ~(z > 0 /\ es[z].role = e.role)
  <2>1. r = Append(es, e)
    BY <1>1, <1>5 DEF Id!Fold
  <2> HIDE DEF r
  <2>2. /\ r \in Seq(IdEntries) /\ Len(r) = z + 1 /\ r[z + 1] = e
        /\ \A i \in 1..z : r[i] = es[i]
    BY <2>1, AppendIs
  <2> QED BY <1>1, <1>5, <2>2 DEF r
<1> QED
  BY <1>4, <1>5

LEMMA EntryIs ==
  ASSUME NEW m \in IdMessages
  PROVE  /\ Id!Entry(m) \in IdEntries
         /\ m.role = "assistant" =>
              Id!Entry(m).role = "model" /\ Id!Entry(m).asks = m.calls /\ Id!Entry(m).gives = <<>>
         /\ m.role = "tool" =>
              Id!Entry(m).role = "user" /\ Id!Entry(m).asks = <<>> /\ Id!Entry(m).gives = m.calls
         /\ m.role = "user" =>
              Id!Entry(m).role = "user" /\ Id!Entry(m).asks = <<>> /\ Id!Entry(m).gives = <<>>
<1>1. m.calls \in Seq(Ids)
  BY IdMessageIs
<1>2. <<>> \in Seq(Ids)
  OBVIOUS
<1> QED BY <1>1, <1>2 DEF Id!Entry, IdEntries

LEMMA FoldInSeq ==
  ASSUME NEW es \in Seq(IdEntries), NEW x \in IdEntries
  PROVE  Id!Fold(es, x) \in Seq(IdEntries)
<1>1. CASE es # <<>> /\ es[Len(es)].role = x.role
  <2> DEFINE last == es[Len(es)]
             y == [role |-> x.role, asks |-> last.asks \o x.asks,
                   gives |-> last.gives \o x.gives]
  <2>1. last \in IdEntries /\ Len(es) \in DOMAIN es
    BY <1>1
  <2>2. y \in IdEntries
    BY <2>1 DEF IdEntries
  <2>3. Id!Fold(es, x) = [es EXCEPT ![Len(es)] = y]
    BY <1>1 DEF Id!Fold
  <2> HIDE DEF y
  <2> QED BY <2>1, <2>2, <2>3
<1>2. CASE ~(es # <<>> /\ es[Len(es)].role = x.role)
  <2>1. Id!Fold(es, x) = Append(es, x)
    BY <1>2 DEF Id!Fold
  <2> QED BY <2>1
<1> QED BY <1>1, <1>2

(* The equations of the fold. *)
LEMMA FoldSteps ==
  ASSUME NEW ms, ms \in Seq(IdMessages)
  PROVE  \E f : /\ f[0] = <<>> /\ f[Len(ms)] = Id!Converted(ms)
                /\ \A i \in 1..Len(ms) :
                     f[i] = IF ms[i].role = "notice" THEN f[i - 1]
                            ELSE Id!Fold(f[i - 1], Id!Entry(ms[i]))
<1> DEFINE n == Len(ms)
           V == Seq(IdEntries)
           e == <<>>
           next(i, v) == IF ms[i].role = "notice" THEN v ELSE Id!Fold(v, Id!Entry(ms[i]))
           d == [i \in 1..n |-> [v \in V |-> next(i, v)]]
           Eq(g) == g = [i \in 0..n |-> IF i = 0 THEN e ELSE next(i, g[i - 1])]
           c == CHOOSE g : Eq(g)
<1>1. n \in Nat /\ e \in V
  OBVIOUS
<1>2. \A i \in 1..n : \A v \in V : next(i, v) \in V
  <2>1. \A i \in 1..n : ms[i] \in IdMessages
    OBVIOUS
  <2> HIDE DEF n, V
  <2>2. \A i \in 1..n : Id!Entry(ms[i]) \in IdEntries
    BY <2>1, EntryIs
  <2> QED BY <2>2, FoldInSeq DEF V
<1>3. Id!Converted(ms) = c[n]
  BY DEF Id!Converted
<1> HIDE DEF n, V, e, next, d, Eq, c
<1>4. d \in [1..n -> [V -> V]]
  BY ONLY <1>2 DEF d
<1>5. PICK g : Recurs(g, n, e, d) /\ \A i \in 0..n : g[i] \in V
  BY ONLY <1>1, <1>4, Recursion
<1>6. \A i \in 1..n : d[i][g[i - 1]] = next(i, g[i - 1])
  BY ONLY <1>1, <1>5 DEF d
<1>7. Eq(g)
  BY ONLY <1>1, <1>5, <1>6 DEF Recurs, Eq
<1>8. Eq(c)
  BY ONLY <1>7 DEF c
<1>9. c[0] = e /\ \A i \in 1..n : c[i] = next(i, c[i - 1])
  BY ONLY <1>1, <1>8 DEF Eq
<1> QED
  BY <1>3, <1>9 DEF n, e, next

(* The calls of the last block among the first m messages, and the calls   *)
(* answered since.                                                         *)
LastOf(ms, m, a) ==
  /\ a \in 0..m /\ (a > 0 => ms[a].role = "assistant")
  /\ \A i \in (a + 1)..m : ms[i].role # "assistant"
CallsAt(ms, a) == IF a = 0 THEN <<>> ELSE ms[a].calls
Since(ms, a, m) == {c \in Ids : \E j \in (a + 1)..m : Log!Gives(ms[j], c)}

(* What the first m messages fold into. *)
FoldedTo(ms, m, es, a) ==
  /\ es \in Seq(IdEntries) /\ LastOf(ms, m, a)
  /\ \A i \in 0..(Len(es) - 2) : Met(AskedAt(es, i), es[i + 1].gives)
  /\ Len(es) = 0 => a = 0 /\ \A i \in 1..m : ms[i].role = "notice"
  /\ Len(es) > 0 /\ es[Len(es)].role = "model" =>
       /\ a > 0 /\ es[Len(es)].asks = ms[a].calls /\ es[Len(es)].gives = <<>>
       /\ AskedAt(es, Len(es) - 1) = <<>> /\ \A i \in (a + 1)..m : ms[i].role # "tool"
  /\ Len(es) > 0 /\ es[Len(es)].role = "user" =>
       /\ es[Len(es)].asks = <<>> /\ AskedAt(es, Len(es) - 1) = CallsAt(ms, a)
       /\ IsInjective(es[Len(es)].gives) /\ Range(es[Len(es)].gives) = Since(ms, a, m)

Settled(ms) == \A i \in DOMAIN ms : ~OpenIn(ms, i)

(* In a thread with no open call a block is followed by its results.       *)
LEMMA SettledIs ==
  ASSUME NEW ms, IdThread(ms), Settled(ms)
  PROVE  /\ \A i \in DOMAIN ms : ms[i].role = "assistant" /\ ms[i].calls # <<>> =>
              i + 1 \in DOMAIN ms /\ ms[i + 1].role = "tool"
         /\ \A j \in DOMAIN ms : ms[j].role = "tool" =>
              j - 1 \in DOMAIN ms /\ ms[j - 1].role \in {"assistant", "tool"}
         /\ \A m \in 0..Len(ms) : \A a \in 0..m :
              LastOf(ms, m, a) /\ (m < Len(ms) => ms[m + 1].role # "tool") =>
                /\ Since(ms, a, m) = Range(CallsAt(ms, a)) /\ IsInjective(CallsAt(ms, a))
<1> DEFINE n == Len(ms)
<1>0. /\ ms \in Seq(IdMessages) /\ n \in Nat /\ DOMAIN ms = 1..n
      /\ \A i \in 1..n : ms[i] \in IdMessages
  BY DEF IdThread
<1> HIDE DEF n
<1>1. ASSUME NEW i \in DOMAIN ms, NEW c \in Ids, Log!Asks(ms[i], c)
      PROVE  \E j \in DOMAIN ms : /\ Log!Gives(ms[j], c) /\ i < j
                                  /\ \A k \in (i + 1)..j : ms[k].role = "tool"
  <2>1. c \in Answered(Ids, ms)
    BY <1>1 DEF Settled, OpenIn
  <2>2. PICK j \in DOMAIN ms : Log!Gives(ms[j], c)
    BY <2>1 DEF Answered
  <2>3. PICK k \in 1..(j - 1) :
          Log!Asks(ms[k], c) /\ \A l \in (k + 1)..j : ms[l].role = "tool"
    BY <2>2 DEF IdThread, Followed
  <2>4. k \in DOMAIN ms /\ k < j
    BY <1>0
  <2>5. k = i
    BY <1>1, <2>3, <2>4 DEF IdThread, Paired
  <2> QED BY <2>2, <2>3, <2>4, <2>5
<1>2. \A i \in DOMAIN ms : \A c : Log!Asks(ms[i], c) =>
        c \in Ids /\ ms[i].role = "assistant"
  <2> SUFFICES ASSUME NEW i \in DOMAIN ms, NEW c, Log!Asks(ms[i], c)
               PROVE  c \in Ids /\ ms[i].role = "assistant"
    OBVIOUS
  <2>1. ms[i].calls \in Seq(Ids)
    BY <1>0, IdMessageIs
  <2>2. \A s \in Seq(Ids) : \A k \in DOMAIN s : s[k] \in Ids
    OBVIOUS
  <2> QED BY <2>1, <2>2 DEF Log!Asks, Log!ToSet
<1>3. ASSUME NEW i \in DOMAIN ms, ms[i].role = "assistant", ms[i].calls # <<>>
      PROVE  i + 1 \in DOMAIN ms /\ ms[i + 1].role = "tool"
  <2>1. ms[i].calls \in Seq(Ids)
    BY <1>0, IdMessageIs
  <2>2. 1 \in DOMAIN ms[i].calls
    BY <1>3, <2>1
  <2>3. Log!Asks(ms[i], ms[i].calls[1])
    BY <1>3, <2>2 DEF Log!Asks, Log!ToSet
  <2>4. PICK j \in DOMAIN ms : i < j /\ \A k \in (i + 1)..j : ms[k].role = "tool"
    BY <1>1, <1>2, <2>3
  <2> QED BY <1>0, <2>4
<1>4. ASSUME NEW j \in DOMAIN ms, ms[j].role = "tool"
      PROVE  \E c \in Ids : \E i \in 1..(j - 1) :
               /\ Log!Gives(ms[j], c) /\ i \in DOMAIN ms /\ Log!Asks(ms[i], c)
               /\ \A k \in (i + 1)..j : ms[k].role = "tool"
  <2>1. PICK c \in Ids : ms[j].calls = <<c>>
    BY <1>0, <1>4, IdMessageIs
  <2>2. Log!Gives(ms[j], c)
    BY <1>4, <2>1 DEF Log!Gives
  <2>3. PICK i \in 1..(j - 1) : Log!Asks(ms[i], c) /\ \A k \in (i + 1)..j : ms[k].role = "tool"
    BY <2>2 DEF IdThread, Followed
  <2> QED BY <1>0, <2>2, <2>3
<1>5. ASSUME NEW j \in DOMAIN ms, ms[j].role = "tool"
      PROVE  j - 1 \in DOMAIN ms /\ ms[j - 1].role \in {"assistant", "tool"}
  <2>1. PICK c \in Ids, i \in 1..(j - 1) :
          /\ i \in DOMAIN ms /\ Log!Asks(ms[i], c) /\ \A k \in (i + 1)..j : ms[k].role = "tool"
    BY <1>4, <1>5
  <2>2. j - 1 \in DOMAIN ms /\ (i = j - 1 \/ j - 1 \in (i + 1)..j)
    BY <1>0
  <2> QED BY <1>2, <2>1, <2>2
<1>6. ASSUME NEW m \in 0..n, NEW a \in 0..m, LastOf(ms, m, a),
             m < n => ms[m + 1].role # "tool"
      PROVE  Since(ms, a, m) = Range(CallsAt(ms, a)) /\ IsInjective(CallsAt(ms, a))
  <2>1. a > 0 => a \in DOMAIN ms
    BY <1>0
  <2>2. IsInjective(CallsAt(ms, a)) /\ CallsAt(ms, a) \in Seq(Ids)
    <3>1. CASE a = 0
      <4>1. CallsAt(ms, a) = <<>> /\ <<>> \in Seq(Ids)
        BY <3>1 DEF CallsAt
      <4> QED BY <4>1, InjectiveEmpty
    <3>2. CASE a > 0
      <4>1. ms[a] \in IdMessages /\ CallsAt(ms, a) = ms[a].calls
        BY <1>0, <2>1, <3>2 DEF CallsAt
      <4> QED BY <4>1, IdMessageIs
    <3> QED BY <3>1, <3>2
  <2>3. \A c : c \in Range(CallsAt(ms, a)) <=> a > 0 /\ Log!Asks(ms[a], c)
    <3>1. CASE a = 0
      BY <3>1, RangeEmpty DEF CallsAt
    <3>2. CASE a > 0
      <4>1. ms[a].role = "assistant" /\ CallsAt(ms, a) = ms[a].calls
        BY <1>6, <3>2 DEF LastOf, CallsAt
      <4> QED BY <3>2, <4>1 DEF Log!Asks, Log!ToSet, Range
    <3> QED BY <3>1, <3>2
  <2>4. ASSUME NEW c, a > 0, Log!Asks(ms[a], c) PROVE c \in Since(ms, a, m)
    <3>1. c \in Ids /\ a \in DOMAIN ms
      BY <1>2, <2>1, <2>4
    <3>2. PICK j \in DOMAIN ms : /\ Log!Gives(ms[j], c) /\ a < j
                                 /\ \A k \in (a + 1)..j : ms[k].role = "tool"
      BY <1>1, <2>4, <3>1
    <3>3. ASSUME ~(j <= m) PROVE FALSE
      <4>1. m + 1 \in (a + 1)..j /\ m < n
        BY <1>0, <3>3
      <4> QED BY <1>6, <3>2, <4>1
    <3>4. j \in (a + 1)..m
      BY <1>0, <3>2, <3>3
    <3> QED BY <3>1, <3>2, <3>4 DEF Since
  <2>5. ASSUME NEW c \in Since(ms, a, m) PROVE a > 0 /\ Log!Asks(ms[a], c)
    <3>1. PICK j \in (a + 1)..m : Log!Gives(ms[j], c)
      BY DEF Since
    <3>2. c \in Ids /\ j \in DOMAIN ms
      BY <1>0 DEF Since
    <3>3. PICK i \in 1..(j - 1) : Log!Asks(ms[i], c) /\ \A k \in (i + 1)..j : ms[k].role = "tool"
      BY <3>1, <3>2 DEF IdThread, Followed
    <3>4. i \in DOMAIN ms /\ ms[i].role = "assistant"
      BY <1>0, <1>2, <3>2, <3>3
    <3>5. ~(i \in (a + 1)..m)
      BY <1>6, <3>4 DEF LastOf
    <3>6. i <= a /\ a > 0
      BY <3>5
    <3>7. ASSUME i # a PROVE FALSE
      <4>1. a \in (i + 1)..j
        BY <3>6, <3>7
      <4>2. ms[a].role = "tool" /\ ms[a].role = "assistant"
        BY <1>6, <3>3, <3>6, <4>1 DEF LastOf
      <4> QED BY <4>2
    <3> QED BY <3>3, <3>6, <3>7
  <2>6. \A c : c \in Since(ms, a, m) <=> c \in Range(CallsAt(ms, a))
    BY <2>3, <2>4, <2>5
  <2> QED BY <2>2, <2>6
<1> QED
  BY <1>3, <1>5, <1>6 DEF n

MetBefore(es, k) == \A i \in 0..(k - 2) : Met(AskedAt(es, i), es[i + 1].gives)

LEMMA FoldedStep ==
  ASSUME NEW ms, IdThread(ms), Settled(ms), NEW m \in 1..Len(ms), NEW es, NEW a,
         FoldedTo(ms, m - 1, es, a)
  PROVE  \E b : FoldedTo(ms, m, IF ms[m].role = "notice" THEN es
                                ELSE Id!Fold(es, Id!Entry(ms[m])), b)
<1> DEFINE z == Len(es)
           e == Id!Entry(ms[m])
           r == Id!Fold(es, e)
<1>0. /\ ms \in Seq(IdMessages) /\ Len(ms) \in Nat /\ DOMAIN ms = 1..Len(ms)
      /\ m \in DOMAIN ms /\ ms[m] \in IdMessages
  BY DEF IdThread
<1>1. /\ es \in Seq(IdEntries) /\ z \in Nat /\ LastOf(ms, m - 1, a) /\ a \in 0..(m - 1)
      /\ \A i \in 1..z : es[i].role \in {"model", "user"}
  <2>1. es \in Seq(IdEntries) /\ LastOf(ms, m - 1, a) /\ a \in 0..(m - 1)
    BY DEF FoldedTo, LastOf
  <2>2. z \in Nat /\ \A i \in 1..z : es[i] \in IdEntries
    BY <2>1
  <2> QED BY <2>1, <2>2 DEF IdEntries
<1>2. ms[m].role \in {"user", "notice", "assistant", "tool"}
  BY <1>0, IdMessageIs
<1>3. /\ MetBefore(es, z)
      /\ z = 0 => a = 0 /\ \A i \in 1..(m - 1) : ms[i].role = "notice"
      /\ z > 0 /\ es[z].role = "model" =>
           /\ a > 0 /\ es[z].asks = ms[a].calls /\ es[z].gives = <<>>
           /\ AskedAt(es, z - 1) = <<>> /\ \A i \in (a + 1)..(m - 1) : ms[i].role # "tool"
      /\ z > 0 /\ es[z].role = "user" =>
           /\ es[z].asks = <<>> /\ AskedAt(es, z - 1) = CallsAt(ms, a)
           /\ IsInjective(es[z].gives) /\ Range(es[z].gives) = Since(ms, a, m - 1)
  BY DEF FoldedTo, MetBefore
<1>4. e \in IdEntries
  BY <1>0, EntryIs
<1>5. /\ r \in Seq(IdEntries)
      /\ z > 0 /\ es[z].role = e.role =>
           /\ Len(r) = z /\ \A i \in 1..(z - 1) : r[i] = es[i]
           /\ r[z].role = e.role /\ r[z].asks = es[z].asks \o e.asks
           /\ r[z].gives = es[z].gives \o e.gives
      /\ ~(z > 0 /\ es[z].role = e.role) =>
           /\ Len(r) = z + 1 /\ (\A i \in 1..z : r[i] = es[i]) /\ r[z + 1] = e
  BY <1>1, <1>4, FoldIs
<1> HIDE DEF z, e, r
<1>6. ASSUME ms[m].role # "assistant" PROVE LastOf(ms, m, a) /\ a \in 0..m
  BY <1>0, <1>1, <1>6 DEF LastOf
<1>7. ASSUME ms[m].role # "tool" PROVE Since(ms, a, m) = Since(ms, a, m - 1)
  <2>1. \A c : ~Log!Gives(ms[m], c)
    BY <1>7 DEF Log!Gives
  <2>2. \A j \in (a + 1)..m : j = m \/ j \in (a + 1)..(m - 1)
    BY <1>1
  <2>3. \A j \in (a + 1)..(m - 1) : j \in (a + 1)..m
    BY <1>1
  <2> QED BY <2>1, <2>2, <2>3 DEF Since
<1>8. ASSUME Len(r) = z, \A i \in 1..(z - 1) : r[i] = es[i], z > 0
      PROVE  AskedAt(r, z - 1) = AskedAt(es, z - 1)
               /\ \A i \in 0..(z - 2) : AskedAt(r, i) = AskedAt(es, i) /\ r[i + 1] = es[i + 1]
  <2>1. z - 1 # 0 => z - 1 \in 1..(z - 1)
    BY <1>1, <1>8
  <2>2. \A i \in 0..(z - 2) : i + 1 \in 1..(z - 1) /\ (i # 0 => i \in 1..(z - 1))
    BY <1>1, <1>8
  <2> QED BY <1>8, <2>1, <2>2 DEF AskedAt
<1>9. ASSUME Len(r) = z, \A i \in 1..(z - 1) : r[i] = es[i], z > 0
      PROVE  MetBefore(r, Len(r))
  BY <1>3, <1>8, <1>9 DEF MetBefore
<1>10. ASSUME Len(r) = z + 1, \A i \in 1..z : r[i] = es[i],
              z > 0 => Met(AskedAt(es, z - 1), es[z].gives)
       PROVE  MetBefore(r, Len(r)) /\ AskedAt(r, z) = AskedAt(es, z)
  <2>1. AskedAt(r, z) = AskedAt(es, z)
    <3>1. z # 0 => z \in 1..z
      BY <1>1
    <3> QED BY <1>10, <3>1 DEF AskedAt
  <2>2. ASSUME NEW i \in 0..(z - 1) PROVE Met(AskedAt(r, i), r[i + 1].gives)
    <3>1. i + 1 \in 1..z /\ (i # 0 => i \in 1..z) /\ (i = z - 1 \/ i \in 0..(z - 2)) /\ z > 0
      BY <1>1
    <3>2. AskedAt(r, i) = AskedAt(es, i) /\ r[i + 1] = es[i + 1]
      BY <1>10, <3>1 DEF AskedAt
    <3>3. CASE i = z - 1
      <4>1. i + 1 = z
        BY <1>1, <3>3
      <4> QED BY <1>10, <3>1, <3>2, <3>3, <4>1
    <3>4. CASE i \in 0..(z - 2)
      BY <1>3, <3>2, <3>4 DEF MetBefore
    <3> QED BY <3>1, <3>3, <3>4
  <2>3. Len(r) - 2 = z - 1
    BY <1>1, <1>10
  <2> QED BY <2>1, <2>2, <2>3 DEF MetBefore
<1>11. z > 0 /\ es[z].role = "model" => Met(AskedAt(es, z - 1), es[z].gives)
  BY <1>3, InjectiveEmpty DEF Met
<1>12. IsInjective(<<>>) /\ Range(<<>>) = {} /\ (\A s \in Seq(Ids) : s \o <<>> = s /\ <<>> \o s = s)
  BY InjectiveEmpty, RangeEmpty
<1>13. z > 0 => es[z] \in IdEntries /\ es[z].asks \in Seq(Ids) /\ es[z].gives \in Seq(Ids)
  <2>1. z > 0 => es[z] \in IdEntries
    BY <1>1 DEF z
  <2> QED BY <2>1 DEF IdEntries
<1>14. CASE ms[m].role = "notice"
  <2>1. LastOf(ms, m, a) /\ Since(ms, a, m) = Since(ms, a, m - 1)
    BY <1>6, <1>7, <1>14
  <2>2. \A i \in 1..m : i = m \/ i \in 1..(m - 1)
    OBVIOUS
  <2>3. \A i \in (a + 1)..m : i = m \/ i \in (a + 1)..(m - 1)
    BY <1>1
  <2>4. FoldedTo(ms, m, es, a)
    BY <1>1, <1>3, <1>14, <2>1, <2>2, <2>3 DEF FoldedTo, MetBefore, z
  <2> QED BY <1>14, <2>4
<1>15. CASE ms[m].role = "user"
  <2>1. LastOf(ms, m, a) /\ Since(ms, a, m) = Since(ms, a, m - 1)
    BY <1>6, <1>7, <1>15
  <2>2. e.role = "user" /\ e.asks = <<>> /\ e.gives = <<>>
    BY <1>0, <1>15, EntryIs DEF e
  <2>3. CASE z > 0 /\ es[z].role = "user"
    <3>1. /\ Len(r) = z /\ (\A i \in 1..(z - 1) : r[i] = es[i])
          /\ r[z].role = "user" /\ r[z].asks = <<>> \o <<>> /\ r[z].gives = es[z].gives \o <<>>
      BY <1>3, <1>5, <2>2, <2>3
    <3>2. r[z].asks = <<>> /\ r[z].gives = es[z].gives
      BY <1>12, <1>13, <2>3, <3>1
    <3>3. AskedAt(r, z - 1) = CallsAt(ms, a) /\ MetBefore(r, z)
      BY <1>3, <1>8, <1>9, <2>3, <3>1
    <3>4. FoldedTo(ms, m, r, a)
      BY <1>1, <1>3, <1>5, <2>1, <2>3, <3>1, <3>2, <3>3 DEF FoldedTo, MetBefore
    <3> QED BY <1>15, <3>4 DEF r, e
  <2>4. CASE ~(z > 0 /\ es[z].role = "user")
    <3>1. Len(r) = z + 1 /\ (\A i \in 1..z : r[i] = es[i]) /\ r[z + 1] = e
      BY <1>5, <2>2, <2>4
    <3>2. z > 0 => es[z].role = "model"
      BY <1>1, <2>4
    <3>3. MetBefore(r, z + 1) /\ AskedAt(r, z) = AskedAt(es, z)
      BY <1>10, <1>11, <3>1, <3>2
    <3>4. AskedAt(es, z) = CallsAt(ms, a)
      BY <1>1, <1>3, <3>2 DEF AskedAt, CallsAt
    <3>5. Since(ms, a, m) = {}
      <4>1. \A i \in (a + 1)..(m - 1) : ms[i].role # "tool"
        BY <1>1, <1>3, <3>2
      <4> QED BY <2>1, <4>1 DEF Since, Log!Gives
    <3>6. (z + 1) - 1 = z /\ z + 1 > 0
      BY <1>1
    <3>7. /\ Len(r) > 0 /\ r[Len(r)] = e /\ MetBefore(r, Len(r))
          /\ AskedAt(r, Len(r) - 1) = CallsAt(ms, a)
      <4>1. Len(r) > 0 /\ Len(r) - 1 = z
        BY <3>1, <3>6
      <4> QED BY <3>1, <3>3, <3>4, <4>1, Zenon
    <3>f. /\ r[Len(r)].role = "user" /\ r[Len(r)].asks = <<>> /\ r[Len(r)].gives = <<>>
          /\ IsInjective(<<>>) /\ Range(<<>>) = Since(ms, a, m) /\ Len(r) # 0
      BY <1>12, <2>2, <3>5, <3>7
    <3>8. FoldedTo(ms, m, r, a)
      BY <1>5, <2>1, <3>7, <3>f DEF FoldedTo, MetBefore
    <3> QED BY <1>15, <3>8 DEF r, e
  <2> QED BY <2>3, <2>4
<1>16. CASE ms[m].role = "tool"
  <2>1. LastOf(ms, m, a)
    BY <1>6, <1>16
  <2>2. PICK c \in Ids : ms[m].calls = <<c>>
    BY <1>0, <1>16, IdMessageIs
  <2>3. e.role = "user" /\ e.asks = <<>> /\ e.gives = <<c>>
    BY <1>0, <1>16, <2>2, EntryIs DEF e
  <2>4. z > 0
    <3>1. m - 1 \in DOMAIN ms /\ ms[m - 1].role \in {"assistant", "tool"}
      BY <1>0, <1>16, SettledIs
    <3>2. m - 1 \in 1..(m - 1)
      BY <1>0, <3>1
    <3> QED BY <1>1, <1>3, <3>1, <3>2
  <2>5. \A d : Log!Gives(ms[m], d) <=> d = c
    BY <1>16, <2>2 DEF Log!Gives
  <2>6. c \notin Since(ms, a, m - 1)
    <3> SUFFICES ASSUME c \in Since(ms, a, m - 1) PROVE FALSE
      OBVIOUS
    <3>1. PICK j \in (a + 1)..(m - 1) : Log!Gives(ms[j], c)
      BY DEF Since
    <3>2. j \in DOMAIN ms /\ j # m
      BY <1>0, <1>1
    <3>3. Log!Gives(ms[m], c)
      BY <2>5
    <3> QED BY <1>0, <3>1, <3>2, <3>3 DEF IdThread, Paired
  <2>7. Since(ms, a, m) = Since(ms, a, m - 1) \cup {c}
    <3>1. \A j \in (a + 1)..m : j = m \/ j \in (a + 1)..(m - 1)
      BY <1>1
    <3>2. m \in (a + 1)..m /\ \A j \in (a + 1)..(m - 1) : j \in (a + 1)..m
      BY <1>1
    <3> QED BY <2>5, <3>1, <3>2 DEF Since
  <2>8. CASE es[z].role = "user"
    <3>1. /\ Len(r) = z /\ (\A i \in 1..(z - 1) : r[i] = es[i])
          /\ r[z].role = "user" /\ r[z].asks = <<>> \o <<>> /\ r[z].gives = es[z].gives \o <<c>>
      BY <1>3, <1>5, <2>3, <2>4, <2>8
    <3>2. r[z].asks = <<>> /\ r[z].gives = Append(es[z].gives, c)
      <4>1. \A s \in Seq(Ids) : s \o <<c>> = Append(s, c)
        OBVIOUS
      <4> QED BY <1>12, <1>13, <2>4, <3>1, <4>1
    <3>3. AskedAt(r, z - 1) = CallsAt(ms, a) /\ MetBefore(r, z)
      BY <1>3, <1>8, <1>9, <2>4, <2>8, <3>1
    <3>4. IsInjective(r[z].gives) /\ Range(r[z].gives) = Since(ms, a, m)
      <4>1. es[z].gives \in Seq(Ids) /\ IsInjective(es[z].gives)
              /\ c \notin Range(es[z].gives)
        BY <1>3, <1>13, <2>4, <2>6, <2>8
      <4>2. IsInjective(Append(es[z].gives, c))
        BY <4>1, InjectiveAppend
      <4>3. Range(Append(es[z].gives, c)) = Range(es[z].gives) \cup {c}
        BY <4>1, RangeAppend
      <4> QED BY <1>3, <2>4, <2>7, <2>8, <3>2, <4>2, <4>3
    <3>5. FoldedTo(ms, m, r, a)
      BY <1>1, <1>3, <1>5, <2>1, <2>4, <2>8, <3>1, <3>2, <3>3, <3>4 DEF FoldedTo, MetBefore
    <3> QED BY <1>16, <3>5 DEF r, e
  <2>9. CASE es[z].role = "model"
    <3>1. Len(r) = z + 1 /\ (\A i \in 1..z : r[i] = es[i]) /\ r[z + 1] = e
      BY <1>5, <2>3, <2>9
    <3>2. MetBefore(r, z + 1) /\ AskedAt(r, z) = AskedAt(es, z)
      BY <1>10, <1>11, <2>9, <3>1
    <3>3. AskedAt(es, z) = CallsAt(ms, a)
      BY <1>1, <1>3, <2>4, <2>9 DEF AskedAt, CallsAt
    <3>4. Since(ms, a, m) = {c}
      <4>1. \A i \in (a + 1)..(m - 1) : ms[i].role # "tool"
        BY <1>3, <2>4, <2>9
      <4>2. Since(ms, a, m - 1) = {}
        BY <4>1 DEF Since, Log!Gives
      <4> QED BY <2>7, <4>2
    <3>5. IsInjective(<<c>>) /\ Range(<<c>>) = {c}
      BY DEF IsInjective, Range
    <3>6. (z + 1) - 1 = z /\ z + 1 > 0
      BY <1>1
    <3>7. /\ Len(r) > 0 /\ r[Len(r)] = e /\ MetBefore(r, Len(r))
          /\ AskedAt(r, Len(r) - 1) = CallsAt(ms, a)
      <4>1. Len(r) > 0 /\ Len(r) - 1 = z
        BY <3>1, <3>6
      <4> QED BY <3>1, <3>2, <3>3, <4>1, Zenon
    <3>f. /\ r[Len(r)].role = "user" /\ r[Len(r)].asks = <<>> /\ r[Len(r)].gives = <<c>>
          /\ IsInjective(<<c>>) /\ Range(<<c>>) = Since(ms, a, m) /\ Len(r) # 0
      BY <2>3, <3>4, <3>5, <3>7
    <3>8. FoldedTo(ms, m, r, a)
      BY <1>5, <2>1, <3>7, <3>f DEF FoldedTo, MetBefore
    <3> QED BY <1>16, <3>8 DEF r, e
  <2> QED BY <1>1, <2>4, <2>8, <2>9
<1>17. CASE ms[m].role = "assistant"
  <2>1. LastOf(ms, m, m)
    <3>1. \A i \in (m + 1)..m : FALSE
      OBVIOUS
    <3>2. m \in 0..m
      OBVIOUS
    <3> QED BY <1>17, <3>1, <3>2 DEF LastOf
  <2>2. e.role = "model" /\ e.asks = ms[m].calls /\ e.gives = <<>> /\ ms[m].calls \in Seq(Ids)
    BY <1>0, <1>17, EntryIs, IdMessageIs DEF e
  <2>3. m > 0 /\ \A i \in (m + 1)..m : ms[i].role # "tool"
    OBVIOUS
  <2>4. CASE z > 0 /\ es[z].role = "model"
    <3>1. /\ Len(r) = z /\ (\A i \in 1..(z - 1) : r[i] = es[i]) /\ r[z].role = "model"
          /\ r[z].asks = ms[a].calls \o ms[m].calls /\ r[z].gives = <<>> \o <<>>
      BY <1>3, <1>5, <2>2, <2>4
    <3>2. ms[a].calls = <<>>
      <4> SUFFICES ASSUME ms[a].calls # <<>> PROVE FALSE
        OBVIOUS
      <4>1. a \in DOMAIN ms /\ ms[a].role = "assistant"
        BY <1>0, <1>1, <1>3, <2>4 DEF LastOf
      <4>2. ms[a + 1].role = "tool"
        BY <4>1, SettledIs
      <4>3. a + 1 = m \/ a + 1 \in (a + 1)..(m - 1)
        BY <1>1
      <4> QED BY <1>3, <1>17, <2>4, <4>2, <4>3
    <3>3. r[z].asks = ms[m].calls /\ r[z].gives = <<>>
      BY <1>12, <2>2, <3>1, <3>2
    <3>4. AskedAt(r, z - 1) = <<>> /\ MetBefore(r, z)
      BY <1>3, <1>8, <1>9, <2>4, <3>1
    <3>5. FoldedTo(ms, m, r, m)
      BY <1>1, <1>5, <2>1, <2>3, <2>4, <3>1, <3>3, <3>4 DEF FoldedTo, MetBefore
    <3> QED BY <1>17, <3>5 DEF r, e
  <2>5. CASE ~(z > 0 /\ es[z].role = "model")
    <3>1. Len(r) = z + 1 /\ (\A i \in 1..z : r[i] = es[i]) /\ r[z + 1] = e
      BY <1>5, <2>2, <2>5
    <3>2. z > 0 => es[z].role = "user"
      BY <1>1, <2>5
    <3>3. z > 0 => Met(AskedAt(es, z - 1), es[z].gives)
      <4>1. m - 1 \in 0..Len(ms) /\ m - 1 < Len(ms) /\ (m - 1) + 1 = m
        BY <1>0
      <4>2. Since(ms, a, m - 1) = Range(CallsAt(ms, a)) /\ IsInjective(CallsAt(ms, a))
        BY <1>1, <1>17, <4>1, SettledIs
      <4> QED BY <1>3, <3>2, <4>2 DEF Met
    <3>4. MetBefore(r, z + 1) /\ AskedAt(r, z) = AskedAt(es, z)
      BY <1>10, <3>1, <3>3
    <3>5. AskedAt(es, z) = <<>>
      BY <1>1, <1>3, <3>2 DEF AskedAt
    <3>6. (z + 1) - 1 = z /\ z + 1 > 0
      BY <1>1
    <3>7. FoldedTo(ms, m, r, m)
      BY <1>5, <2>1, <2>2, <2>3, <3>1, <3>4, <3>5, <3>6 DEF FoldedTo, MetBefore
    <3> QED BY <1>17, <3>7 DEF r, e
  <2> QED BY <2>4, <2>5
<1> QED
  BY <1>2, <1>14, <1>15, <1>16, <1>17

(* A thread with no open call is one the provider takes.                   *)
LEMMA SettledIsTaken ==
  ASSUME NEW ms, IdThread(ms), Settled(ms)
  PROVE  Id!Taken(ms)
<1> DEFINE n == Len(ms)
           es == Id!Converted(ms)
           z == Len(es)
<1>0. ms \in Seq(IdMessages) /\ n \in Nat
  BY DEF IdThread
<1>1. PICK f : /\ f[0] = <<>> /\ f[n] = es
               /\ \A i \in 1..n : f[i] = IF ms[i].role = "notice" THEN f[i - 1]
                                         ELSE Id!Fold(f[i - 1], Id!Entry(ms[i]))
  BY <1>0, FoldSteps
<1> HIDE DEF n, es
<1> DEFINE Bad == {m \in 0..n : ~\E a : FoldedTo(ms, m, f[m], a)}
<1>2. \E a : FoldedTo(ms, n, es, a)
  <2> SUFFICES ASSUME n \in Bad PROVE FALSE
    BY <1>0, <1>1
  <2>1. PICK m \in Bad : \A k \in Bad : m <= k
    <3>1. Bad \in SUBSET Nat
      BY <1>0
    <3> HIDE DEF Bad
    <3> QED BY <3>1, LeastNumber
  <2>2. m \in 0..n /\ ~\E a : FoldedTo(ms, m, f[m], a)
    BY <2>1
  <2>3. CASE m = 0
    <3>1. <<>> \in Seq(IdEntries) /\ Len(<<>>) = 0
      OBVIOUS
    <3>2. LastOf(ms, 0, 0)
      BY DEF LastOf
    <3>3. FoldedTo(ms, 0, <<>>, 0)
      BY <3>1, <3>2 DEF FoldedTo
    <3> QED BY <1>1, <2>2, <2>3, <3>3
  <2>4. CASE m # 0
    <3>1. m \in 1..n /\ m - 1 \in 0..n /\ ~(m <= m - 1)
      BY <1>0, <2>2, <2>4
    <3>2. m - 1 \notin Bad
      <4> HIDE DEF Bad
      <4> QED BY <2>1, <3>1
    <3>3. PICK a : FoldedTo(ms, m - 1, f[m - 1], a)
      BY <3>1, <3>2
    <3>4. \E b : FoldedTo(ms, m, IF ms[m].role = "notice" THEN f[m - 1]
                                 ELSE Id!Fold(f[m - 1], Id!Entry(ms[m])), b)
      BY <3>1, <3>3, FoldedStep DEF n
    <3>5. f[m] = IF ms[m].role = "notice" THEN f[m - 1]
                 ELSE Id!Fold(f[m - 1], Id!Entry(ms[m]))
      BY <1>1, <3>1
    <3> QED BY <2>2, <3>4, <3>5
  <2> QED BY <2>3, <2>4
<1>3. PICK a : FoldedTo(ms, n, es, a)
  BY <1>2
<1>4. /\ es \in Seq(IdEntries) /\ z \in Nat /\ LastOf(ms, n, a) /\ a \in 0..n
      /\ \A i \in 1..z : es[i].role \in {"model", "user"}
  <2>1. es \in Seq(IdEntries) /\ LastOf(ms, n, a) /\ a \in 0..n
    BY <1>3 DEF FoldedTo, LastOf
  <2>2. z \in Nat /\ \A i \in 1..z : es[i] \in IdEntries
    BY <2>1
  <2> QED BY <2>1, <2>2 DEF IdEntries
<1>5. Met(<<>>, <<>>)
  BY InjectiveEmpty DEF Met
<1> HIDE DEF z
<1>6. \A i \in 0..z : Met(AskedAt(es, i), GivenAt(es, i + 1))
  <2> SUFFICES ASSUME NEW i \in 0..z PROVE Met(AskedAt(es, i), GivenAt(es, i + 1))
    OBVIOUS
  <2>1. CASE i = z
    <3>1. GivenAt(es, i + 1) = <<>>
      BY <1>4, <2>1 DEF GivenAt, z
    <3>2. AskedAt(es, i) = <<>>
      <4>1. CASE z = 0
        BY <2>1, <4>1 DEF AskedAt
      <4>2. CASE z > 0 /\ es[z].role = "user"
        <5>1. AskedAt(es, i) = es[z].asks
          BY <2>1, <4>2 DEF AskedAt
        <5> QED BY <1>3, <4>2, <5>1 DEF FoldedTo, z
      <4>3. CASE z > 0 /\ es[z].role = "model"
        <5>1. /\ AskedAt(es, i) = ms[a].calls /\ a > 0 /\ ms[a].role = "assistant"
              /\ \A j \in (a + 1)..n : ms[j].role # "tool"
          BY <1>3, <1>4, <2>1, <4>3 DEF AskedAt, FoldedTo, LastOf, z
        <5>2. a \in DOMAIN ms /\ DOMAIN ms = 1..n
          BY <1>0, <1>4, <5>1 DEF n
        <5>3. ms[a].calls # <<>> => a + 1 \in DOMAIN ms /\ ms[a + 1].role = "tool"
          BY <5>1, <5>2, SettledIs
        <5>4. a + 1 \in 1..n => a + 1 \in (a + 1)..n
          BY <1>0, <1>4
        <5> QED BY <5>1, <5>2, <5>3, <5>4
      <4> QED BY <1>4, <4>1, <4>2, <4>3
    <3> QED BY <1>5, <3>1, <3>2
  <2>2. CASE i = z - 1 /\ i # z
    <3>1. i + 1 = z /\ z > 0 /\ z \in 1..z
      BY <1>4, <2>2
    <3>2. GivenAt(es, i + 1) = es[z].gives
      BY <1>4, <3>1 DEF GivenAt, z
    <3>3. CASE es[z].role = "model"
      <4>1. AskedAt(es, i) = <<>> /\ es[z].gives = <<>>
        BY <1>3, <2>2, <3>1, <3>3 DEF FoldedTo, z
      <4> QED BY <1>5, <3>2, <4>1
    <3>4. CASE es[z].role = "user"
      <4>1. AskedAt(es, i) = CallsAt(ms, a) /\ IsInjective(es[z].gives)
              /\ Range(es[z].gives) = Since(ms, a, n)
        BY <1>3, <2>2, <3>1, <3>4 DEF FoldedTo, z
      <4>2. n \in 0..Len(ms) /\ ~(n < Len(ms))
        BY <1>0 DEF n
      <4>3. Since(ms, a, n) = Range(CallsAt(ms, a)) /\ IsInjective(CallsAt(ms, a))
        BY <1>4, <4>2, SettledIs
      <4> QED BY <3>2, <4>1, <4>3 DEF Met
    <3> QED BY <1>4, <3>1, <3>3, <3>4
  <2>3. CASE i \in 0..(z - 2)
    <3>1. i + 1 <= z
      BY <1>4, <2>3
    <3>2. GivenAt(es, i + 1) = es[i + 1].gives
      BY <1>4, <2>3, <3>1 DEF GivenAt, z
    <3> QED BY <1>3, <2>3, <3>2 DEF FoldedTo, z
  <2>4. i = z \/ (i = z - 1 /\ i # z) \/ i \in 0..(z - 2)
    BY <1>4
  <2> QED BY <2>1, <2>2, <2>3, <2>4
<1>7. \A i \in 0..z : \A c \in Ids :
        Id!Times(AskedAt(es, i), c) = Id!Times(GivenAt(es, i + 1), c)
  BY <1>6, MetTimes
<1> QED
  BY <1>7 DEF Id!Taken, AskedAt, GivenAt, es, z

(* The inductive invariant of the ids, when each call has one of its own.  *)
InBlock(ms, b, qs, cs) ==
  /\ b \in DOMAIN ms /\ ms[b].role = "assistant"
  /\ \A j \in DOMAIN ms : j > b => ms[j].role = "tool"
  /\ \A i \in DOMAIN ms : OpenIn(ms, i) => i = b \/ Over(ms, i)
  /\ IsInjective(qs) /\ IsInjective(cs) /\ Range(qs) \cap Range(cs) = {}
  /\ Range(qs) \cup Range(cs) = {IdCall(c) : c \in Left(ms, b)}

Flow(st, ms, qs, cs) ==
  /\ st \in {"idle", "request"} => qs = <<>> /\ cs = <<>>
  /\ st = "request" => \A i \in DOMAIN ms : OpenIn(ms, i) => Over(ms, i)
  /\ st = "idle" => \A i \in DOMAIN ms : OpenIn(ms, i) => Over(ms, i) \/ i = Len(ms)
  /\ st \in {"block", "prompt"} => \E b : InBlock(ms, b, qs, cs)

IdInv ==
  /\ Id!TypeOK
  /\ IdThread(thread) /\ UpTo(thread, issued)
  /\ IdThread(log) /\ UpTo(log, issued)
  /\ \A id \in DOMAIN items : items[id].of = id
  /\ \A pair \in decided : pair[1] = pair[2]
  /\ ~up => stage = "idle" /\ thread = <<>>
  /\ Flow(stage, thread, ahead, allowed)
  /\ stage = "prompt" => ahead # <<>> /\ Head(ahead).id \in DOMAIN items

LEMMA IdPlainOnes ==
  Id!User \in IdPlain /\ Id!Notice \in IdPlain /\ Id!Assistant(<<>>) \in IdPlain
  BY DEF IdPlain

LEMMA UpToMore ==
  ASSUME NEW ms, NEW n \in Nat, NEW k \in Nat, UpTo(ms, n)
  PROVE  UpTo(ms, n + k)
<1>1. 1..n \subseteq 1..(n + k)
  OBVIOUS
<1> QED
  BY <1>1 DEF UpTo

(* A call of the block, and its place in the queues.                       *)
LEMMA QueuedIs ==
  ASSUME NEW ms, IdThread(ms), NEW b, NEW qs \in Seq(Id!Call), NEW cs \in Seq(Id!Call),
         InBlock(ms, b, qs, cs)
  PROVE  \A x \in Range(qs) \cup Range(cs) :
           /\ x \in Id!Call /\ x = IdCall(x.id) /\ x.of = x.id /\ x.id \in 1..MaxCalls
           /\ x.id \in Ids /\ Log!Asks(ms[b], x.id) /\ x.id \notin Answered(Ids, ms)
<1> SUFFICES ASSUME NEW x \in Range(qs) \cup Range(cs)
             PROVE  /\ x \in Id!Call /\ x = IdCall(x.id) /\ x.of = x.id /\ x.id \in 1..MaxCalls
                    /\ x.id \in Ids /\ Log!Asks(ms[b], x.id) /\ x.id \notin Answered(Ids, ms)
  OBVIOUS
<1>1. PICK c \in Left(ms, b) : x = IdCall(c)
  BY DEF InBlock
<1>2. x.id = c /\ x.of = c
  BY <1>1 DEF IdCall
<1>3. Range(qs) \subseteq Id!Call /\ Range(cs) \subseteq Id!Call
  BY DEF Range
<1>4. x \in Id!Call
  BY <1>3
<1>5. x.of \in 1..MaxCalls
  BY <1>4 DEF Id!Call
<1> QED
  BY <1>1, <1>2, <1>4, <1>5 DEF Left

(* Calls leave the head of a queue.                                        *)
LEMMA HeadIs ==
  ASSUME NEW S, NEW qs \in Seq(S), qs # <<>>, IsInjective(qs)
  PROVE  /\ Head(qs) \in S /\ Head(qs) \in Range(qs) /\ Tail(qs) \in Seq(S)
         /\ IsInjective(Tail(qs)) /\ Range(Tail(qs)) = Range(qs) \ {Head(qs)}
<1>1. Head(qs) \in S /\ Tail(qs) \in Seq(S) /\ Range(qs) = {Head(qs)} \cup Range(Tail(qs))
  BY RangeHeadTail
<1>2. IsInjective(Tail(qs)) /\ Head(qs) \notin Range(Tail(qs))
  BY InjectiveTail
<1> QED
  BY <1>1, <1>2

LEMMA BlockMoves ==
  ASSUME NEW ms, NEW b, NEW qs \in Seq(Id!Call), NEW cs \in Seq(Id!Call),
         InBlock(ms, b, qs, cs), qs # <<>>
  PROVE  InBlock(ms, b, Tail(qs), Append(cs, Head(qs)))
<1>1. /\ Head(qs) \in Id!Call /\ Head(qs) \in Range(qs) /\ Tail(qs) \in Seq(Id!Call)
      /\ IsInjective(Tail(qs)) /\ Range(Tail(qs)) = Range(qs) \ {Head(qs)}
  BY HeadIs DEF InBlock
<1>2. Head(qs) \notin Range(cs)
  BY <1>1 DEF InBlock
<1>3. IsInjective(Append(cs, Head(qs)))
  BY <1>1, <1>2, InjectiveAppend DEF InBlock
<1>4. Range(Append(cs, Head(qs))) = Range(cs) \cup {Head(qs)}
  BY <1>1, RangeAppend
<1> QED
  BY <1>1, <1>3, <1>4 DEF InBlock

(* A result comes to the block: of the call at the head of a queue.        *)
LEMMA BlockAnswers ==
  ASSUME NEW ms, IdThread(ms), NEW n, UpTo(ms, n), NEW b, NEW qs \in Seq(Id!Call),
         NEW cs \in Seq(Id!Call), InBlock(ms, b, qs, cs)
  PROVE  /\ qs # <<>> =>
              LET r == Append(ms, Id!Answering(Head(qs)))
              IN  IdThread(r) /\ UpTo(r, n) /\ InBlock(r, b, Tail(qs), cs)
         /\ cs # <<>> =>
              LET r == Append(ms, Id!Answering(Head(cs)))
              IN  IdThread(r) /\ UpTo(r, n) /\ InBlock(r, b, qs, Tail(cs))
<1>1. ASSUME NEW x \in Range(qs) \cup Range(cs)
      PROVE  LET r == Append(ms, Id!Answering(x))
             IN  /\ IdThread(r) /\ UpTo(r, n) /\ b \in DOMAIN r /\ r[b].role = "assistant"
                 /\ \A j \in DOMAIN r : j > b => r[j].role = "tool"
                 /\ \A i \in DOMAIN r : OpenIn(r, i) => i = b \/ Over(r, i)
                 /\ {IdCall(c) : c \in Left(r, b)} = (Range(qs) \cup Range(cs)) \ {x}
  <2> DEFINE c == x.id
             r == Append(ms, Id!Answering(x))
  <2>1. /\ c \in 1..MaxCalls /\ x = IdCall(c) /\ x.of = c /\ c \in Ids
        /\ Log!Asks(ms[b], c) /\ c \notin Answered(Ids, ms)
    BY QueuedIs
  <2>2. Id!Answering(x) = IdGiven(c)
    BY <2>1 DEF Id!Answering, IdGiven
  <2>3. b \in DOMAIN ms /\ \A j \in DOMAIN ms : j > b => ms[j].role = "tool"
    BY DEF InBlock
  <2>4. /\ IdGiven(c) \in IdMessages /\ IdThread(r) /\ UpTo(r, n)
        /\ Answered(Ids, r) = Answered(Ids, ms) \cup {c}
        /\ b \in DOMAIN r /\ r[b] = ms[b]
        /\ \A j \in DOMAIN r : j > b => r[j].role = "tool"
        /\ \A i \in DOMAIN r : OpenIn(r, i) => i \in DOMAIN ms /\ OpenIn(ms, i)
    BY <2>1, <2>2, <2>3, IdAppendGive
  <2>5. \A i \in DOMAIN ms : Over(ms, i) => Over(r, i)
    BY <2>2, <2>4, IdGrows DEF IdThread
  <2> HIDE DEF r, c
  <2>6. \A i \in DOMAIN r : OpenIn(r, i) => i = b \/ Over(r, i)
    BY <2>4, <2>5 DEF InBlock
  <2>7. Left(r, b) = Left(ms, b) \ {c}
    BY <2>4 DEF Left
  <2>8. \A d, e : IdCall(d) = IdCall(e) => d = e
    <3>1. \A d : IdCall(d).id = d
      BY DEF IdCall
    <3> QED BY <3>1
  <2>9. {IdCall(d) : d \in Left(r, b)} = {IdCall(d) : d \in Left(ms, b)} \ {x}
    BY <2>1, <2>7, <2>8
  <2> QED BY <2>4, <2>6, <2>9 DEF InBlock, r
<1>2. ASSUME qs # <<>>
      PROVE  LET r == Append(ms, Id!Answering(Head(qs)))
             IN  IdThread(r) /\ UpTo(r, n) /\ InBlock(r, b, Tail(qs), cs)
  <2>1. /\ Head(qs) \in Range(qs) /\ IsInjective(Tail(qs))
        /\ Range(Tail(qs)) = Range(qs) \ {Head(qs)}
    BY <1>2, HeadIs DEF InBlock
  <2>2. /\ IsInjective(cs) /\ Range(Tail(qs)) \cap Range(cs) = {}
        /\ Range(Tail(qs)) \cup Range(cs) = (Range(qs) \cup Range(cs)) \ {Head(qs)}
    BY <2>1 DEF InBlock
  <2> DEFINE r == Append(ms, Id!Answering(Head(qs)))
  <2>3. /\ IdThread(r) /\ UpTo(r, n) /\ b \in DOMAIN r /\ r[b].role = "assistant"
        /\ \A j \in DOMAIN r : j > b => r[j].role = "tool"
        /\ \A i \in DOMAIN r : OpenIn(r, i) => i = b \/ Over(r, i)
        /\ {IdCall(c) : c \in Left(r, b)} = (Range(qs) \cup Range(cs)) \ {Head(qs)}
    BY <1>1, <2>1
  <2> HIDE DEF r
  <2>4. InBlock(r, b, Tail(qs), cs)
    BY <2>1, <2>2, <2>3 DEF InBlock
  <2> QED BY <2>3, <2>4 DEF r
<1>3. ASSUME cs # <<>>
      PROVE  LET r == Append(ms, Id!Answering(Head(cs)))
             IN  IdThread(r) /\ UpTo(r, n) /\ InBlock(r, b, qs, Tail(cs))
  <2>1. /\ Head(cs) \in Range(cs) /\ IsInjective(Tail(cs))
        /\ Range(Tail(cs)) = Range(cs) \ {Head(cs)}
    BY <1>3, HeadIs DEF InBlock
  <2>2. /\ IsInjective(qs) /\ Range(qs) \cap Range(Tail(cs)) = {}
        /\ Range(qs) \cup Range(Tail(cs)) = (Range(qs) \cup Range(cs)) \ {Head(cs)}
    BY <2>1 DEF InBlock
  <2> DEFINE r == Append(ms, Id!Answering(Head(cs)))
  <2>3. /\ IdThread(r) /\ UpTo(r, n) /\ b \in DOMAIN r /\ r[b].role = "assistant"
        /\ \A j \in DOMAIN r : j > b => r[j].role = "tool"
        /\ \A i \in DOMAIN r : OpenIn(r, i) => i = b \/ Over(r, i)
        /\ {IdCall(c) : c \in Left(r, b)} = (Range(qs) \cup Range(cs)) \ {Head(cs)}
    BY <1>1, <2>1
  <2> HIDE DEF r
  <2>4. InBlock(r, b, qs, Tail(cs))
    BY <2>1, <2>2, <2>3 DEF InBlock
  <2> QED BY <2>3, <2>4 DEF r
<1> QED
  BY <1>2, <1>3

-----------------------------------------------------------------------------
(* The steps of the ids. *)

LEMMA IdSayKeeps == ASSUME IdInv, Id!Say PROVE IdInv'
<1>1. /\ stage = "idle" /\ thread' = Append(thread, Id!User) /\ log' = thread'
      /\ stage' = "request" /\ up /\ said < MaxSaid /\ said' = said + 1
      /\ UNCHANGED <<up, ahead, allowed, items, issued, crashes, decided>>
  BY DEF Id!Say
<1>2. /\ IdThread(thread') /\ UpTo(thread', issued)
      /\ \A i \in DOMAIN thread' : OpenIn(thread', i) => i \in DOMAIN thread /\ OpenIn(thread, i)
  BY <1>1, IdAppendPlain, IdPlainOnes DEF IdInv
<1>3. \A i \in DOMAIN thread : Over(thread', i)
  <2>1. Id!User \in IdMessages /\ thread \in Seq(IdMessages)
    BY IdPlainOnes DEF IdMessages, IdInv, IdThread
  <2> QED BY <1>1, <2>1, IdGrows
<1>4. Flow(stage', thread', ahead', allowed')
  <2>1. ahead' = <<>> /\ allowed' = <<>>
    BY <1>1 DEF IdInv, Flow
  <2> QED BY <1>1, <1>2, <1>3, <2>1 DEF Flow
<1>5. said' \in 0..MaxSaid
  <2>1. said \in Nat /\ MaxSaid \in Nat
    BY PartsAssumption DEF IdInv, Id!TypeOK, Id!CallIdsAssumption
  <2> QED BY <1>1, <2>1
<1>6. Id!TypeOK'
  BY <1>1, <1>5 DEF IdInv, Id!TypeOK
<1> QED
  BY <1>1, <1>2, <1>4, <1>6 DEF IdInv

LEMMA IdReplyKeeps ==
  ASSUME IdsRestart = FALSE, IdInv, NEW size \in 1..MaxReply, Id!Reply(size)
  PROVE  IdInv'
<1> DEFINE m == IdAsked([k \in 1..size |-> issued + k])
<1>0. MaxReply \in Nat /\ MaxCalls \in Nat /\ 1..MaxCalls \subseteq Ids /\ issued \in 0..MaxCalls
  BY PartsAssumption DEF IdInv, Id!TypeOK, Id!CallIdsAssumption
<1>1. /\ stage = "request" /\ issued + size <= MaxCalls /\ issued' = issued + size
      /\ ahead' = Id!Block(issued + 1, size) /\ thread' = Append(thread, Id!Asking(ahead'))
      /\ stage' = "block"
      /\ UNCHANGED <<up, log, allowed, items, said, crashes, decided>>
  BY DEF Id!Reply
<1>2. size \in Nat /\ issued \in Nat
  BY <1>0
<1>3. ahead' = [k \in 1..size |-> IdCall(issued + k)]
  <2>1. \A k \in 1..size : issued + 1 + k - 1 = issued + k
    BY <1>2
  <2>2. Id!Block(issued + 1, size) = [k \in 1..size |-> IdCall(issued + k)]
    BY <2>1 DEF Id!Block, Id!IdOf, IdCall
  <2> QED BY <1>1, <2>2
<1>4. Id!Asking(ahead') = m
  <2>1. DOMAIN ahead' = 1..size
    BY <1>3
  <2>2. \A k \in 1..size : ahead'[k].id = issued + k /\ ahead'[k].of = issued + k
    BY <1>3 DEF IdCall
  <2> QED BY <2>1, <2>2 DEF Id!Asking, IdAsked
<1>5. /\ m \in IdMessages /\ IdThread(thread') /\ UpTo(thread', issued')
      /\ \A c \in Ids : Log!Asks(m, c) <=> c \in (issued + 1)..(issued + size)
      /\ Answered(Ids, thread') = Answered(Ids, thread)
      /\ \A c \in (issued + 1)..(issued + size) : c \notin Answered(Ids, thread)
  <2>1. IdThread(thread) /\ UpTo(thread, issued) /\ thread' = Append(thread, m)
    BY <1>1, <1>4 DEF IdInv
  <2> HIDE DEF m
  <2> QED BY <1>1, <1>2, <2>1, IdAppendAsk DEF m
<1> DEFINE b == Len(thread) + 1
<1>6. /\ thread \in Seq(IdMessages) /\ Len(thread) \in Nat /\ DOMAIN thread' = 1..b
      /\ DOMAIN thread = 1..Len(thread) /\ thread'[b] = m
      /\ m.role = "assistant"
  <2>1. thread \in Seq(IdMessages) /\ thread' = Append(thread, m)
    BY <1>1, <1>4 DEF IdInv, IdThread
  <2>2. m.role = "assistant"
    BY DEF IdAsked
  <2> HIDE DEF m
  <2> QED BY <1>5, <2>1, <2>2, AppendIs
<1>7. \A i \in DOMAIN thread : OpenIn(thread', i) => Over(thread', i)
  <2>1. \A i \in DOMAIN thread : OpenIn(thread', i) => OpenIn(thread, i)
    BY <1>1, <1>4, <1>5, <1>6, IdGrows
  <2>2. \A i \in DOMAIN thread : Over(thread, i) => Over(thread', i)
    BY <1>1, <1>4, <1>5, <1>6, IdGrows
  <2>3. \A i \in DOMAIN thread : OpenIn(thread, i) => Over(thread, i)
    BY <1>1 DEF IdInv, Flow
  <2> QED BY <2>1, <2>2, <2>3
<1> HIDE DEF m
<1>8. Left(thread', b) = (issued + 1)..(issued + size)
  <2>1. (issued + 1)..(issued + size) \subseteq Ids
    <3>1. (issued + 1)..(issued + size) \subseteq 1..MaxCalls
      BY <1>0, <1>1, <1>2
    <3> QED BY <1>0, <3>1
  <2> QED BY <1>5, <1>6, <2>1 DEF Left
<1>9. \A d, e : IdCall(d) = IdCall(e) => d = e
  <2>1. \A d : IdCall(d).id = d
    BY DEF IdCall
  <2> QED BY <2>1
<1>10. ahead' \in Seq(Id!Call) /\ IsInjective(ahead') /\ allowed' = <<>>
  <2>1. \A k \in 1..size : issued + k \in 1..MaxCalls
    BY <1>0, <1>1, <1>2
  <2>2. \A k \in 1..size : IdCall(issued + k) \in Id!Call
    BY <1>0, <2>1 DEF IdCall, Id!Call
  <2>3. ahead' \in Seq(Id!Call)
    BY <1>2, <1>3, <2>2
  <2>4. IsInjective(ahead')
    <3> SUFFICES ASSUME NEW k \in 1..size, NEW l \in 1..size, ahead'[k] = ahead'[l] PROVE k = l
      BY <1>3 DEF IsInjective
    <3>1. issued + k = issued + l
      BY <1>3, <1>9
    <3> QED BY <1>2, <3>1
  <2>5. allowed' = <<>>
    BY <1>1 DEF IdInv, Flow
  <2> QED BY <2>3, <2>4, <2>5
<1>11. Range(ahead') = {IdCall(c) : c \in Left(thread', b)}
  <2>1. \A x : x \in Range(ahead') <=> \E k \in 1..size : x = IdCall(issued + k)
    BY <1>3 DEF Range
  <2>2. \A k \in 1..size : issued + k \in (issued + 1)..(issued + size)
    BY <1>2
  <2>3. \A c \in (issued + 1)..(issued + size) : c - issued \in 1..size /\ issued + (c - issued) = c
    BY <1>2
  <2>4. ASSUME NEW c \in (issued + 1)..(issued + size)
        PROVE  \E k \in 1..size : IdCall(c) = IdCall(issued + k)
    BY <2>3
  <2> QED BY <1>8, <2>1, <2>2, <2>4
<1>12. InBlock(thread', b, ahead', allowed')
  <2>1. b \in 1..b /\ \A j \in 1..b : ~(j > b) /\ (j = b \/ j \in 1..Len(thread))
    BY <1>6
  <2>2. Range(allowed') = {} /\ IsInjective(allowed')
    BY <1>10, RangeEmpty, InjectiveEmpty
  <2> HIDE DEF b
  <2> QED BY <1>6, <1>7, <1>10, <1>11, <2>1, <2>2 DEF InBlock
<1>13. Flow(stage', thread', ahead', allowed')
  BY <1>1, <1>12 DEF Flow
<1>14. Id!TypeOK'
  <2>1. issued' \in 0..MaxCalls
    BY <1>0, <1>1, <1>2
  <2> QED BY <1>1, <1>10, <2>1 DEF IdInv, Id!TypeOK
<1>15. IdThread(log') /\ UpTo(log', issued')
  BY <1>1, <1>2, UpToMore DEF IdInv
<1> QED
  BY <1>1, <1>5, <1>13, <1>14, <1>15 DEF IdInv

LEMMA IdEndsKeep == ASSUME IdInv, Id!Conclude \/ Id!Refuse PROVE IdInv'
<1>1. PICK m \in IdPlain : thread' = Append(thread, m)
  BY IdPlainOnes DEF Id!Conclude, Id!Refuse
<1>2. /\ stage = "request" /\ log' = thread' /\ stage' = "idle"
      /\ UNCHANGED <<up, ahead, allowed, items, issued, said, crashes, decided>>
  BY DEF Id!Conclude, Id!Refuse
<1>3. /\ IdThread(thread') /\ UpTo(thread', issued)
      /\ \A i \in DOMAIN thread' : OpenIn(thread', i) => i \in DOMAIN thread /\ OpenIn(thread, i)
  BY <1>1, IdAppendPlain DEF IdInv
<1>4. \A i \in DOMAIN thread : Over(thread, i) => Over(thread', i)
  <2>1. m \in IdMessages /\ thread \in Seq(IdMessages)
    BY DEF IdMessages, IdInv, IdThread
  <2> QED BY <1>1, <2>1, IdGrows
<1>5. Flow(stage', thread', ahead', allowed')
  <2>1. ahead' = <<>> /\ allowed' = <<>> /\ \A i \in DOMAIN thread : OpenIn(thread, i) => Over(thread, i)
    BY <1>2 DEF IdInv, Flow
  <2> QED BY <1>2, <1>3, <1>4, <2>1 DEF Flow
<1>6. Id!TypeOK'
  BY <1>2 DEF IdInv, Id!TypeOK
<1>7. up
  BY <1>2 DEF IdInv
<1> QED
  BY <1>2, <1>3, <1>5, <1>6, <1>7 DEF IdInv

LEMMA IdClearKeeps == ASSUME IdInv, Id!Clear PROVE IdInv'
<1>1. /\ stage = "block" /\ ahead # <<>> /\ allowed' = Append(allowed, Head(ahead))
      /\ ahead' = Tail(ahead)
      /\ UNCHANGED <<up, stage, thread, log, items, issued, said, crashes, decided>>
  BY DEF Id!Clear
<1>2. ahead \in Seq(Id!Call) /\ allowed \in Seq(Id!Call)
  BY DEF IdInv, Id!TypeOK
<1>3. PICK b : InBlock(thread, b, ahead, allowed)
  BY <1>1 DEF IdInv, Flow
<1>4. InBlock(thread, b, ahead', allowed')
  BY <1>1, <1>2, <1>3, BlockMoves
<1>5. ahead' \in Seq(Id!Call) /\ allowed' \in Seq(Id!Call)
  BY <1>1, <1>2
<1>6. Flow(stage', thread', ahead', allowed')
  BY <1>1, <1>4 DEF Flow
<1>7. Id!TypeOK'
  BY <1>1, <1>5 DEF IdInv, Id!TypeOK
<1> QED
  BY <1>1, <1>6, <1>7 DEF IdInv

LEMMA IdPromptKeeps == ASSUME IdInv, Id!Prompt PROVE IdInv'
<1> DEFINE x == Head(ahead)
<1>1. /\ stage = "block" /\ ahead # <<>> /\ stage' = "prompt"
      /\ items' = [i \in DOMAIN items \cup {x.id} |->
                     IF i \in DOMAIN items THEN items[i] ELSE [of |-> x.of, state |-> "pending"]]
      /\ log' \in {thread, log}
      /\ UNCHANGED <<up, thread, ahead, allowed, issued, said, crashes, decided>>
  BY DEF Id!Prompt
<1>2. ahead \in Seq(Id!Call) /\ allowed \in Seq(Id!Call)
  BY DEF IdInv, Id!TypeOK
<1>3. PICK b : InBlock(thread, b, ahead, allowed)
  BY <1>1 DEF IdInv, Flow
<1>4. x \in Range(ahead)
  BY <1>1, <1>2, <1>3, HeadIs DEF InBlock
<1>5. x.of = x.id /\ x.id \in 1..MaxCalls /\ x.id \in Ids
  BY <1>2, <1>3, <1>4, QueuedIs DEF IdInv
<1> HIDE DEF x
<1>6. \A id \in DOMAIN items' : id \in Ids /\ items'[id] \in Id!Item /\ items'[id].of = id
  <2>1. DOMAIN items' = DOMAIN items \cup {x.id}
    BY <1>1
  <2>2. \A id \in DOMAIN items : id \in Ids /\ items[id] \in Id!Item /\ items[id].of = id
    BY DEF IdInv, Id!TypeOK
  <2>3. [of |-> x.of, state |-> "pending"] \in Id!Item /\ [of |-> x.of, state |-> "pending"].of = x.id
    BY <1>5 DEF Id!Item
  <2> QED BY <1>1, <1>5, <2>1, <2>2, <2>3
<1>7. Flow(stage', thread', ahead', allowed')
  BY <1>1, <1>3 DEF Flow
<1>8. Id!TypeOK'
  BY <1>1, <1>6 DEF IdInv, Id!TypeOK
<1>9. ahead' # <<>> /\ Head(ahead').id \in DOMAIN items'
  BY <1>1 DEF x
<1>10. up
  BY <1>1 DEF IdInv
<1> QED
  BY <1>1, <1>6, <1>7, <1>8, <1>9, <1>10 DEF IdInv

LEMMA IdTakeKeeps == ASSUME IdInv, Id!TakeAnswer PROVE IdInv'
<1> DEFINE x == Head(ahead)
<1>1. /\ stage = "prompt" /\ stage' = "block" /\ ahead' = Tail(ahead)
      /\ decided' = decided \cup {<<items[x.id].of, x.of>>}
      /\ \/ allowed' = Append(allowed, x) /\ UNCHANGED thread
         \/ thread' = Append(thread, Id!Answering(x)) /\ UNCHANGED allowed
      /\ UNCHANGED <<up, log, items, issued, said, crashes>>
  BY DEF Id!TakeAnswer
<1>2. ahead \in Seq(Id!Call) /\ allowed \in Seq(Id!Call)
  BY DEF IdInv, Id!TypeOK
<1>3. ahead # <<>> /\ x.id \in DOMAIN items
  BY <1>1 DEF IdInv
<1>4. PICK b : InBlock(thread, b, ahead, allowed)
  BY <1>1 DEF IdInv, Flow
<1>5. x \in Range(ahead) /\ x \in Id!Call
  BY <1>2, <1>3, <1>4, HeadIs DEF InBlock
<1>6. x.of = x.id /\ x.id \in 1..MaxCalls
  BY <1>2, <1>4, <1>5, QueuedIs DEF IdInv
<1>7. items[x.id].of = x.id
  BY <1>3 DEF IdInv
<1> HIDE DEF x
<1>8. /\ \A pair \in decided' : pair[1] = pair[2]
      /\ decided' \subseteq (1..MaxCalls) \X (1..MaxCalls)
  <2>1. decided' = decided \cup {<<x.id, x.id>>}
    BY <1>1, <1>6, <1>7
  <2>2. <<x.id, x.id>> \in (1..MaxCalls) \X (1..MaxCalls)
    BY <1>6
  <2> QED BY <2>1, <2>2 DEF IdInv, Id!TypeOK
<1>9. ahead' \in Seq(Id!Call) /\ allowed' \in Seq(Id!Call)
  BY <1>1, <1>2, <1>3, <1>5
<1>10. IdThread(thread') /\ UpTo(thread', issued) /\ InBlock(thread', b, ahead', allowed')
  <2>1. IdThread(thread) /\ UpTo(thread, issued)
    BY DEF IdInv
  <2>2. CASE allowed' = Append(allowed, x) /\ UNCHANGED thread
    BY <1>1, <1>2, <1>3, <1>4, <2>1, <2>2, BlockMoves DEF x
  <2>3. CASE thread' = Append(thread, Id!Answering(x)) /\ UNCHANGED allowed
    BY <1>1, <1>2, <1>3, <1>4, <2>1, <2>3, BlockAnswers DEF x
  <2> QED BY <1>1, <2>2, <2>3
<1>11. Flow(stage', thread', ahead', allowed')
  BY <1>1, <1>10 DEF Flow
<1>12. Id!TypeOK'
  BY <1>1, <1>8, <1>9 DEF IdInv, Id!TypeOK
<1>13. up
  BY <1>1 DEF IdInv
<1> QED
  BY <1>1, <1>8, <1>10, <1>11, <1>12, <1>13 DEF IdInv

LEMMA IdExecuteKeeps == ASSUME IdInv, Id!Execute PROVE IdInv'
<1>1. /\ stage = "block" /\ allowed # <<>> /\ thread' = Append(thread, Id!Answering(Head(allowed)))
      /\ allowed' = Tail(allowed)
      /\ UNCHANGED <<up, stage, log, ahead, items, issued, said, crashes, decided>>
  BY DEF Id!Execute
<1>2. ahead \in Seq(Id!Call) /\ allowed \in Seq(Id!Call)
  BY DEF IdInv, Id!TypeOK
<1>3. PICK b : InBlock(thread, b, ahead, allowed)
  BY <1>1 DEF IdInv, Flow
<1>4. IdThread(thread') /\ UpTo(thread', issued) /\ InBlock(thread', b, ahead', allowed')
  BY <1>1, <1>2, <1>3, BlockAnswers DEF IdInv
<1>5. allowed' \in Seq(Id!Call)
  BY <1>1, <1>2
<1>6. Flow(stage', thread', ahead', allowed')
  BY <1>1, <1>4 DEF Flow
<1>7. Id!TypeOK'
  BY <1>1, <1>5 DEF IdInv, Id!TypeOK
<1>8. up
  BY <1>1 DEF IdInv
<1> QED
  BY <1>1, <1>4, <1>6, <1>7, <1>8 DEF IdInv

LEMMA IdEndBlockKeeps == ASSUME IdInv, Id!EndBlock PROVE IdInv'
<1>1. /\ stage = "block" /\ ahead = <<>> /\ allowed = <<>> /\ log' = thread /\ stage' = "request"
      /\ UNCHANGED <<up, thread, ahead, allowed, items, issued, said, crashes, decided>>
  BY DEF Id!EndBlock
<1>2. PICK b : InBlock(thread, b, ahead, allowed)
  BY <1>1 DEF IdInv, Flow
<1>3. Left(thread, b) = {}
  BY <1>1, <1>2, RangeEmpty DEF InBlock
<1>4. \A i \in DOMAIN thread : OpenIn(thread, i) => Over(thread, i)
  BY <1>2, <1>3 DEF InBlock, OpenIn, Left
<1>5. Flow(stage', thread', ahead', allowed')
  BY <1>1, <1>4 DEF Flow
<1>6. Id!TypeOK'
  BY <1>1 DEF IdInv, Id!TypeOK
<1>7. up
  BY <1>1 DEF IdInv
<1> QED
  BY <1>1, <1>5, <1>6, <1>7 DEF IdInv

(* A thread that comes from the log. *)
LEMMA IdLoads ==
  ASSUME IdInv
  PROVE  /\ IdThread(Id!Repaired(log)) /\ UpTo(Id!Repaired(log), issued)
         /\ \A i \in DOMAIN Id!Repaired(log) :
              OpenIn(Id!Repaired(log), i) => i = Len(Id!Repaired(log))
  BY IdRepair DEF IdInv

LEMMA IdResolveKeeps ==
  ASSUME IdInv, NEW id \in Ids, Id!Resolve(id) PROVE IdInv'
<1>1. /\ id \in DOMAIN items /\ items[id].state = "pending"
      /\ items' = [items EXCEPT ![id].state = "resolved"]
      /\ UNCHANGED <<allowed, issued, said, crashes, decided>>
  BY DEF Id!Resolve
<1>2. /\ DOMAIN items' \subseteq Ids
      /\ \A i \in DOMAIN items' : items'[i] \in Id!Item /\ items'[i].of = i
  <2>1. /\ DOMAIN items \subseteq Ids
        /\ \A i \in DOMAIN items : items[i] \in Id!Item /\ items[i].of = i
    BY DEF IdInv, Id!TypeOK
  <2>2. DOMAIN items' = DOMAIN items
    BY <1>1
  <2>3. \A i \in DOMAIN items : i # id => items'[i] = items[i]
    BY <1>1
  <2>4. items'[id] = [items[id] EXCEPT !.state = "resolved"]
    BY <1>1
  <2>5. items'[id] \in Id!Item /\ items'[id].of = id
    BY <1>1, <2>1, <2>4 DEF Id!Item
  <2> QED BY <2>1, <2>2, <2>3, <2>5
<1>3. CASE stage # "idle"
  <2>1. UNCHANGED <<up, stage, thread, log, ahead>>
    BY <1>3 DEF Id!Resolve
  <2>2. Id!TypeOK'
    BY <1>1, <1>2, <2>1 DEF IdInv, Id!TypeOK
  <2>3. stage' = "prompt" => ahead' # <<>> /\ Head(ahead').id \in DOMAIN items'
    BY <1>1, <2>1 DEF IdInv
  <2>4. Flow(stage', thread', ahead', allowed')
    BY <1>1, <2>1 DEF IdInv
  <2> QED BY <1>1, <1>2, <2>1, <2>2, <2>3, <2>4 DEF IdInv
<1>4. CASE stage = "idle"
  <2>1. /\ up' = TRUE /\ thread' = (IF up THEN thread ELSE Id!Repaired(log)) /\ log' = thread'
        /\ ahead' = Id!Resumable(thread')
        /\ stage' = IF ahead' = <<>> THEN "idle" ELSE "block"
    BY <1>4 DEF Id!Resolve
  <2>2. /\ IdThread(thread') /\ UpTo(thread', issued)
        /\ \A i \in DOMAIN thread' : OpenIn(thread', i) => Over(thread', i) \/ i = Len(thread')
    <3>1. CASE up
      BY <1>4, <2>1, <3>1 DEF IdInv, Flow
    <3>2. CASE ~up
      BY <2>1, <3>2, IdLoads
    <3> QED BY <3>1, <3>2
  <2> DEFINE b == Len(thread')
  <2>3. /\ ahead' \in Seq(Id!Call) /\ IsInjective(ahead')
        /\ ahead' # <<>> =>
              /\ b \in DOMAIN thread' /\ thread'[b].role = "assistant"
              /\ Range(ahead') = {IdCall(c) : c \in Left(thread', b)}
              /\ \A i \in DOMAIN thread' : OpenIn(thread', i) => i = b \/ Over(thread', i)
    BY <2>1, <2>2, IdResumes
  <2>4. allowed' = <<>>
    BY <1>1, <1>4 DEF IdInv, Flow
  <2>5. ASSUME ahead' # <<>> PROVE InBlock(thread', b, ahead', allowed')
    <3>1. \A j \in DOMAIN thread' : ~(j > b)
      BY <2>2 DEF IdThread
    <3>2. Range(allowed') = {} /\ IsInjective(allowed')
      BY <2>4, RangeEmpty, InjectiveEmpty
    <3> HIDE DEF b
    <3> QED BY <2>3, <2>5, <3>1, <3>2 DEF InBlock
  <2>6. Flow(stage', thread', ahead', allowed')
    <3>1. CASE ahead' = <<>>
      BY <2>1, <2>2, <2>4, <3>1 DEF Flow
    <3>2. CASE ahead' # <<>>
      BY <2>1, <2>5, <3>2 DEF Flow
    <3> QED BY <3>1, <3>2
  <2>7. Id!TypeOK'
    BY <1>1, <1>2, <2>1, <2>3, <2>4 DEF IdInv, Id!TypeOK
  <2> QED BY <1>1, <1>2, <2>1, <2>2, <2>6, <2>7 DEF IdInv
<1> QED
  BY <1>3, <1>4

LEMMA IdOpenKeeps == ASSUME IdInv, Id!Open PROVE IdInv'
<1>1. /\ ~up /\ up' = TRUE /\ thread' = Id!Repaired(log) /\ log' = thread'
      /\ UNCHANGED <<stage, ahead, allowed, items, issued, said, crashes, decided>>
  BY DEF Id!Open
<1>2. stage = "idle" /\ ahead = <<>> /\ allowed = <<>>
  BY <1>1 DEF IdInv, Flow
<1>3. /\ IdThread(thread') /\ UpTo(thread', issued)
      /\ \A i \in DOMAIN thread' : OpenIn(thread', i) => i = Len(thread')
  BY <1>1, IdLoads
<1>4. Flow(stage', thread', ahead', allowed')
  BY <1>1, <1>2, <1>3 DEF Flow
<1>5. Id!TypeOK'
  BY <1>1 DEF IdInv, Id!TypeOK
<1> QED
  BY <1>1, <1>2, <1>3, <1>4, <1>5 DEF IdInv

LEMMA IdCrashKeeps == ASSUME IdInv, Id!Crash PROVE IdInv'
<1>1. /\ crashes < MaxCrashes /\ crashes' = crashes + 1 /\ up' = FALSE /\ stage' = "idle"
      /\ thread' = <<>> /\ ahead' = <<>> /\ allowed' = <<>>
      /\ UNCHANGED <<log, items, issued, said, decided>>
  BY DEF Id!Crash
<1>2. IdThread(<<>>) /\ UpTo(<<>>, issued)
  BY IdEmpty
<1>3. Flow(stage', thread', ahead', allowed')
  BY <1>1 DEF Flow
<1>4. Id!TypeOK'
  <2>1. crashes \in Nat /\ MaxCrashes \in Nat
    BY PartsAssumption DEF IdInv, Id!TypeOK, Id!CallIdsAssumption
  <2>2. crashes' \in 0..MaxCrashes
    BY <1>1, <2>1
  <2>3. <<>> \in Seq(Id!Call)
    OBVIOUS
  <2> QED BY <1>1, <2>2, <2>3 DEF IdInv, Id!TypeOK
<1> QED
  BY <1>1, <1>2, <1>3, <1>4 DEF IdInv

LEMMA IdStarts == Id!Init => IdInv
<1> SUFFICES ASSUME Id!Init PROVE IdInv
  OBVIOUS
<1>1. /\ up = TRUE /\ stage = "idle" /\ thread = <<>> /\ log = <<>> /\ ahead = <<>>
      /\ allowed = <<>> /\ items = <<>> /\ issued = 0 /\ said = 0 /\ crashes = 0 /\ decided = {}
  BY DEF Id!Init
<1>2. IdThread(<<>>) /\ UpTo(<<>>, issued)
  BY IdEmpty
<1>3. {MaxCalls, MaxSaid, MaxCrashes} \subseteq Nat
  BY PartsAssumption DEF Id!CallIdsAssumption
<1>4. <<>> \in Seq(Id!Call) /\ DOMAIN <<>> = {}
  OBVIOUS
<1>5. Id!TypeOK
  <2>1. issued \in 0..MaxCalls /\ said \in 0..MaxSaid /\ crashes \in 0..MaxCrashes
    BY <1>1, <1>3
  <2> QED BY <1>1, <1>4, <2>1 DEF Id!TypeOK
<1>6. Flow(stage, thread, ahead, allowed)
  BY <1>1 DEF Flow
<1> QED
  BY <1>1, <1>2, <1>4, <1>5, <1>6 DEF IdInv

LEMMA IdNextKeeps ==
  ASSUME IdsRestart = FALSE, IdInv, Id!Next PROVE IdInv'
  BY IdSayKeeps, IdReplyKeeps, IdEndsKeep, IdClearKeeps, IdPromptKeeps, IdTakeKeeps,
     IdExecuteKeeps, IdEndBlockKeeps, IdResolveKeeps, IdOpenKeeps, IdCrashKeeps DEF Id!Next

LEMMA IdStutters == ASSUME IdInv, UNCHANGED idVars PROVE IdInv'
<1>1. UNCHANGED <<up, stage, thread, log, ahead, allowed, items, issued, said, crashes, decided>>
  BY DEF idVars
<1>2. Id!TypeOK'
  BY <1>1 DEF IdInv, Id!TypeOK
<1>3. Flow(stage', thread', ahead', allowed')
  BY <1>1 DEF IdInv
<1> QED
  BY <1>1, <1>2, <1>3 DEF IdInv

(* What the invariant says of results and of requests.                     *)
LEMMA OwnResults ==
  ASSUME NEW ms, IdThread(ms)
  PROVE  \A i, j \in DOMAIN ms :
           ms[i].role = "tool" /\ ms[i].real =>
             /\ ms[j].role = "tool" /\ ms[j].real /\ i # j => ms[i].about # ms[j].about
             /\ \E k \in 1..(i - 1) :
                  ms[k].role = "assistant" /\ ms[k].calls # <<>>
                    /\ <<ms[i].calls[1], ms[i].about[1]>>
                         \in {<<ms[k].calls[n], ms[k].about[n]>> : n \in DOMAIN ms[k].calls}
                    /\ \A n \in (k + 1)..(i - 1) : ms[n].role # "assistant"
<1>0. /\ ms \in Seq(IdMessages) /\ Len(ms) \in Nat /\ DOMAIN ms = 1..Len(ms)
      /\ \A i \in DOMAIN ms : ms[i] \in IdMessages
  BY DEF IdThread
<1>1. \A i \in DOMAIN ms : ms[i].role = "tool" /\ ms[i].real =>
        \E c \in 1..MaxCalls : ms[i] = IdGiven(c)
  BY <1>0, IdMessageIs
<1>2. ASSUME NEW i \in DOMAIN ms, ms[i].role = "tool", ms[i].real,
             NEW j \in DOMAIN ms, ms[j].role = "tool", ms[j].real, i # j
      PROVE  ms[i].about # ms[j].about
  <2>1. PICK c \in 1..MaxCalls : ms[i] = IdGiven(c)
    BY <1>1, <1>2
  <2>2. PICK d \in 1..MaxCalls : ms[j] = IdGiven(d)
    BY <1>1, <1>2
  <2>3. c \in Ids /\ Log!Gives(ms[i], c) /\ Log!Gives(ms[j], d)
    BY <2>1, <2>2, IdsAre DEF IdGiven, Log!Gives
  <2>4. c # d
    BY <1>2, <2>3 DEF IdThread, Paired
  <2>5. ms[i].about = <<c>> /\ ms[j].about = <<d>> /\ <<c>>[1] = c /\ <<d>>[1] = d
    BY <2>1, <2>2 DEF IdGiven
  <2> QED BY <2>4, <2>5
<1>3. ASSUME NEW i \in DOMAIN ms, ms[i].role = "tool", ms[i].real
      PROVE  \E k \in 1..(i - 1) :
               ms[k].role = "assistant" /\ ms[k].calls # <<>>
                 /\ <<ms[i].calls[1], ms[i].about[1]>>
                      \in {<<ms[k].calls[n], ms[k].about[n]>> : n \in DOMAIN ms[k].calls}
                 /\ \A n \in (k + 1)..(i - 1) : ms[n].role # "assistant"
  <2>1. PICK c \in 1..MaxCalls : ms[i] = IdGiven(c)
    BY <1>1, <1>3
  <2>2. c \in Ids /\ Log!Gives(ms[i], c) /\ ms[i].calls[1] = c /\ ms[i].about[1] = c
    BY <2>1, IdsAre DEF IdGiven, Log!Gives
  <2>3. PICK k \in 1..(i - 1) : Log!Asks(ms[k], c) /\ \A n \in (k + 1)..i : ms[n].role = "tool"
    BY <2>2 DEF IdThread, Followed
  <2>4. k \in DOMAIN ms /\ \A n \in (k + 1)..(i - 1) : n \in (k + 1)..i
    BY <1>0
  <2>5. ms[k].role = "assistant" /\ \E n \in DOMAIN ms[k].calls : ms[k].calls[n] = c
    BY <2>3 DEF Log!Asks, Log!ToSet
  <2>6. PICK n \in DOMAIN ms[k].calls : ms[k].calls[n] = c
    BY <2>5
  <2>7. ms[k].calls # <<>>
    BY <2>6
  <2>8. ms[k].about = ms[k].calls
    BY <1>0, <2>4, <2>5, <2>7, IdMessageIs
  <2>9. <<c, c>> \in {<<ms[k].calls[l], ms[k].about[l]>> : l \in DOMAIN ms[k].calls}
    BY <2>6, <2>8
  <2>10. \A l \in (k + 1)..(i - 1) : ms[l].role # "assistant"
    BY <2>3, <2>4
  <2> QED BY <2>2, <2>5, <2>7, <2>9, <2>10
<1> QED
  BY <1>2, <1>3

LEMMA IdsAreKept == ASSUME IdInv PROVE CallsKeepTheirIds
<1>1. Id!AnswersAreOwn
  BY DEF IdInv, Id!AnswersAreOwn
<1>2. Id!ResultsAreOwn
  <2>1. \A ms \in {thread, log, Id!Repaired(log)} : IdThread(ms)
    BY IdLoads DEF IdInv
  <2> QED BY <2>1, OwnResults DEF Id!ResultsAreOwn
<1>3. Id!RefusedOnlyWhenSpokenOver
  <2> SUFFICES ASSUME stage = "request", ~Id!Taken(thread)
               PROVE  \E i, j \in DOMAIN thread :
                        /\ i < j /\ thread[j] = Id!User
                        /\ thread[i].role = "assistant"
                        /\ Id!ToSet(thread[i].calls) \ Id!AnsweredIn(thread) # {}
    BY DEF Id!RefusedOnlyWhenSpokenOver
  <2>1. ~Settled(thread)
    BY SettledIsTaken DEF IdInv
  <2>2. PICK i \in DOMAIN thread : OpenIn(thread, i)
    BY <2>1 DEF Settled
  <2>3. Over(thread, i)
    BY <2>2 DEF IdInv, Flow
  <2>4. PICK j \in DOMAIN thread : i < j /\ thread[j] = Id!User
    BY <2>3 DEF Over
  <2>5. PICK c \in Ids : Log!Asks(thread[i], c) /\ c \notin Answered(Ids, thread)
    BY <2>2 DEF OpenIn
  <2>6. thread[i].role = "assistant" /\ c \in Id!ToSet(thread[i].calls)
    BY <2>5 DEF Log!Asks, Log!ToSet, Id!ToSet
  <2>7. Id!AnsweredIn(thread) = Answered(Ids, thread)
    BY IdMends
  <2> QED BY <2>4, <2>5, <2>6, <2>7
<1> QED
  BY <1>1, <1>2, <1>3 DEF CallsKeepTheirIds

LEMMA IdInductive ==
  ASSUME IdsRestart = FALSE
  PROVE  /\ Init => IdInv
         /\ IdInv /\ [Next]_<<part, turnVars, compactVars, permitVars, approvalVars, logVars,
                              idVars>>
              => IdInv'
<1>1. Init => IdInv
  BY IdStarts DEF Init
<1>2. ASSUME IdInv,
             [Next]_<<part, turnVars, compactVars, permitVars, approvalVars, logVars, idVars>>
      PROVE  IdInv'
  <2>1. Id!Next \/ UNCHANGED idVars
    BY <1>2 DEF Next, TurnStep, CompactStep, PermitStep, ApprovalStep, LogStep, IdStep
  <2> QED BY <1>2, <2>1, IdNextKeeps, IdStutters
<1> QED
  BY <1>1, <1>2

(* A prompt, a result and a resume find their call by its id: with ids of  *)
(* their own, no call takes another's answer or result, and a request is   *)
(* refused only for a call a crash left open.                              *)
THEOREM EngineKeepsIds ==
  ASSUME IdsRestart = FALSE PROVE Spec => []CallsKeepTheirIds
  BY IdInductive, IdsAreKept, PTL DEF Spec

-----------------------------------------------------------------------------
(* The types, of ids that restart as well. *)

IdQueues == {qs \in Seq(Id!Call) : \A k, l \in DOMAIN qs : qs[k].id = qs[l].id => k = l}
IdShapes ==
  IdPlain \cup {Id!Placeholder(c) : c \in Ids} \cup {Id!Answering(x) : x \in Id!Call}
    \cup {Id!Asking(qs) : qs \in IdQueues}

IdTypes ==
  /\ Id!TypeOK
  /\ thread \in Seq(IdShapes) /\ log \in Seq(IdShapes)
  /\ stage = "prompt" => ahead # <<>> /\ Head(ahead).id \in DOMAIN items

LEMMA IdShapeIs ==
  ASSUME NEW m \in IdShapes
  PROVE  /\ m.calls \in Seq(Ids) /\ IsInjective(m.calls)
         /\ m.role = "tool" => \E c \in Ids : m.calls = <<c>>
         /\ m.role = "assistant" /\ m.calls # <<>> => Id!CallsOf(m) \in Seq(Id!Call)
<1> DEFINE Goal ==
         /\ m.calls \in Seq(Ids) /\ IsInjective(m.calls)
         /\ m.role = "tool" => \E c \in Ids : m.calls = <<c>>
         /\ m.role = "assistant" /\ m.calls # <<>> => Id!CallsOf(m) \in Seq(Id!Call)
<1>1. <<>> \in Seq(Ids) /\ IsInjective(<<>>)
  BY InjectiveEmpty
<1>2. \A c \in Ids : <<c>> \in Seq(Ids) /\ IsInjective(<<c>>)
  BY DEF IsInjective
<1>3. CASE m \in IdPlain
  <2>1. m.calls = <<>> /\ m.role # "tool"
    BY <1>3 DEF IdPlain, Id!User, Id!Notice, Id!Assistant
  <2> QED BY <1>1, <2>1
<1>4. ASSUME NEW c \in Ids, m = Id!Placeholder(c) PROVE Goal
  <2>1. m.role = "tool" /\ m.calls = <<c>>
    BY <1>4 DEF Id!Placeholder
  <2> QED BY <1>2, <2>1
<1>5. ASSUME NEW x \in Id!Call, m = Id!Answering(x) PROVE Goal
  <2>1. x.id \in Ids /\ m.role = "tool" /\ m.calls = <<x.id>>
    BY <1>5 DEF Id!Answering, Id!Call
  <2> QED BY <1>2, <2>1
<1>6. ASSUME NEW qs \in IdQueues, m = Id!Asking(qs) PROVE Goal
  <2>1. qs \in Seq(Id!Call) /\ \A k, l \in DOMAIN qs : qs[k].id = qs[l].id => k = l
    BY DEF IdQueues
  <2>2. /\ DOMAIN qs = 1..Len(qs) /\ Len(qs) \in Nat
        /\ \A k \in DOMAIN qs : qs[k] \in Id!Call
    BY <2>1
  <2>3. m.calls = [k \in 1..Len(qs) |-> qs[k].id] /\ m.about = [k \in 1..Len(qs) |-> qs[k].of]
          /\ m.role = "assistant"
    BY <1>6, <2>2 DEF Id!Asking
  <2>4. \A k \in 1..Len(qs) : qs[k].id \in Ids /\ [id |-> qs[k].id, of |-> qs[k].of] \in Id!Call
    BY <2>2 DEF Id!Call
  <2>5. m.calls \in Seq(Ids)
    <3>1. \A n \in Nat : \A f \in [1..n -> Ids] : f \in Seq(Ids)
      OBVIOUS
    <3>2. m.calls \in [1..Len(qs) -> Ids]
      BY <2>3, <2>4
    <3> QED BY <2>2, <3>1, <3>2
  <2>6. IsInjective(m.calls)
    BY <2>1, <2>2, <2>3 DEF IsInjective
  <2>7. Id!CallsOf(m) = [k \in 1..Len(qs) |-> [id |-> qs[k].id, of |-> qs[k].of]]
    BY <2>3 DEF Id!CallsOf
  <2>8. Id!CallsOf(m) \in Seq(Id!Call)
    BY <2>2, <2>4, <2>7
  <2> QED BY <2>3, <2>5, <2>6, <2>8
<1> QED
  BY <1>3, <1>4, <1>5, <1>6 DEF IdShapes

LEMMA IdShapeKind == Kind(Ids, IdShapes)
<1>1. \A c \in Ids : Log!Placeholder(c) \in IdShapes
  BY DEF IdShapes, Log!Placeholder, Id!Placeholder
<1> QED
  BY <1>1, IdShapeIs DEF Kind

LEMMA IdRepairTypes ==
  ASSUME NEW ms \in Seq(IdShapes) PROVE Id!Repaired(ms) \in Seq(IdShapes)
  BY IdMends, IdShapeKind, MendedInSeq

LEMMA IdResumeTypes ==
  ASSUME NEW ms \in Seq(IdShapes) PROVE Id!Resumable(ms) \in Seq(Id!Call)
<1> DEFINE B == {i \in 1..Len(ms) : ms[i].role = "assistant" /\ ms[i].calls # <<>>}
           U == {i \in 1..Len(ms) : ms[i].role = "user"}
           b == Id!LastBlock(ms)
           u == Id!LastUser(ms)
           T == {c \in Id!Call : c.id \in Id!Unanswered(ms)}
<1>1. Len(ms) \in Nat /\ \A i \in 1..Len(ms) : ms[i] \in IdShapes
  OBVIOUS
<1>2. \A I : Id!Max(I) = Log!Max(I)
  BY DEF Id!Max, Log!Max
<1>3. /\ b = IF B # {} THEN Log!Max(B) ELSE 0
      /\ u = IF U # {} THEN Log!Max(U) ELSE 0
  BY <1>2 DEF Id!LastBlock, Id!LastUser, Id!SelectLastInSeq
<1>4. Id!Resumable(ms) = IF b <= u THEN <<>> ELSE Kept(Id!CallsOf(ms[b]), T)
  BY DEF Id!Resumable, Id!Kept, Kept
<1>5. <<>> \in Seq(Id!Call)
  OBVIOUS
<1> HIDE DEF b, u, T
<1>6. (U # {} => u \in U) /\ (B # {} => b \in B)
  BY <1>1, <1>3, MaxIs
<1>7. u \in Nat
  BY <1>1, <1>3, <1>6
<1>8. CASE B # {}
  <2>1. ms[b] \in IdShapes /\ ms[b].role = "assistant" /\ ms[b].calls # <<>>
    BY <1>1, <1>6, <1>8
  <2>2. Id!CallsOf(ms[b]) \in Seq(Id!Call)
    BY <2>1, IdShapeIs
  <2>3. Kept(Id!CallsOf(ms[b]), T) \in Seq(Id!Call)
    BY <2>2, KeptInSeq
  <2> QED BY <1>4, <1>5, <2>3
<1>9. CASE B = {}
  BY <1>3, <1>4, <1>5, <1>7, <1>9
<1> QED
  BY <1>8, <1>9

LEMMA IdItemsTyped ==
  ASSUME IdTypes, Id!Next
  PROVE  DOMAIN items' \subseteq Ids /\ \A id \in DOMAIN items' : items'[id] \in Id!Item
<1>1. DOMAIN items \subseteq Ids /\ \A id \in DOMAIN items : items[id] \in Id!Item
  BY DEF IdTypes, Id!TypeOK
<1>2. CASE Id!Prompt
  <2> DEFINE x == Head(ahead)
  <2>1. x \in Id!Call
    <3>1. ahead \in Seq(Id!Call) /\ ahead # <<>>
      BY <1>2 DEF Id!Prompt, IdTypes, Id!TypeOK
    <3> QED BY <3>1
  <2>2. items' = [i \in DOMAIN items \cup {x.id} |->
                    IF i \in DOMAIN items THEN items[i] ELSE [of |-> x.of, state |-> "pending"]]
    BY <1>2 DEF Id!Prompt
  <2> HIDE DEF x
  <2>3. x.id \in Ids /\ [of |-> x.of, state |-> "pending"] \in Id!Item
    BY <2>1 DEF Id!Call, Id!Item
  <2> QED BY <1>1, <2>2, <2>3
<1>3. ASSUME NEW id \in Ids, Id!Resolve(id)
      PROVE  DOMAIN items' \subseteq Ids /\ \A i \in DOMAIN items' : items'[i] \in Id!Item
  <2>1. id \in DOMAIN items /\ items' = [items EXCEPT ![id].state = "resolved"]
    BY <1>3 DEF Id!Resolve
  <2>2. DOMAIN items' = DOMAIN items /\ \A i \in DOMAIN items : i # id => items'[i] = items[i]
    BY <2>1
  <2>3. items'[id] = [items[id] EXCEPT !.state = "resolved"]
    BY <2>1
  <2>4. items'[id] \in Id!Item
    BY <1>1, <2>1, <2>3 DEF Id!Item
  <2> QED BY <1>1, <2>2, <2>4
<1>4. CASE UNCHANGED items
  BY <1>1, <1>4
<1> QED
  BY <1>2, <1>3, <1>4
     DEF Id!Next, Id!Say, Id!Conclude, Id!Refuse, Id!Clear, Id!TakeAnswer, Id!Execute,
         Id!EndBlock, Id!Reply, Id!Open, Id!Crash

LEMMA IdTypeStep ==
  ASSUME IdTypes, Id!Next
  PROVE  IdTypes'
<1>0. /\ MaxReply \in Nat /\ MaxCalls \in Nat /\ MaxSaid \in Nat /\ MaxCrashes \in Nat
      /\ 1..MaxCalls \subseteq Ids
  BY PartsAssumption DEF Id!CallIdsAssumption
<1>1. /\ thread \in Seq(IdShapes) /\ log \in Seq(IdShapes)
      /\ ahead \in Seq(Id!Call) /\ allowed \in Seq(Id!Call)
      /\ stage \in {"idle", "request", "block", "prompt"} /\ up \in BOOLEAN
      /\ issued \in 0..MaxCalls /\ said \in 0..MaxSaid /\ crashes \in 0..MaxCrashes
      /\ decided \subseteq (1..MaxCalls) \X (1..MaxCalls)
  BY DEF IdTypes, Id!TypeOK
<1>2. DOMAIN items' \subseteq Ids /\ \A id \in DOMAIN items' : items'[id] \in Id!Item
  BY IdItemsTyped
<1>3. \A m \in IdPlain : m \in IdShapes
  BY DEF IdShapes
<1>4. \A x \in Id!Call : Id!Answering(x) \in IdShapes
  BY DEF IdShapes
<1>5. \A ms \in Seq(IdShapes) : \A m \in IdShapes : Append(ms, m) \in Seq(IdShapes)
  OBVIOUS
<1>6. \A qs \in Seq(Id!Call) : qs # <<>> => Head(qs) \in Id!Call /\ Tail(qs) \in Seq(Id!Call)
  OBVIOUS
<1>7. \A qs \in Seq(Id!Call) : \A x \in Id!Call : Append(qs, x) \in Seq(Id!Call)
  OBVIOUS
<1>8. <<>> \in Seq(Id!Call) /\ <<>> \in Seq(IdShapes)
  OBVIOUS
<1>9. CASE Id!Say
  <2>1. said' \in 0..MaxSaid
    BY <1>0, <1>1, <1>9 DEF Id!Say
  <2>2. thread' \in Seq(IdShapes) /\ log' \in Seq(IdShapes)
    BY <1>1, <1>3, <1>5, <1>9, IdPlainOnes DEF Id!Say
  <2>3. /\ stage' = "request" /\ UNCHANGED <<up, ahead, allowed, issued, crashes, decided>>
    BY <1>9 DEF Id!Say
  <2> QED BY <1>1, <1>2, <2>1, <2>2, <2>3 DEF IdTypes, Id!TypeOK
<1>10. CASE Id!Conclude \/ Id!Refuse
  <2>1. thread' \in Seq(IdShapes) /\ log' \in Seq(IdShapes)
    BY <1>1, <1>3, <1>5, <1>10, IdPlainOnes DEF Id!Conclude, Id!Refuse
  <2>2. stage' = "idle" /\ UNCHANGED <<up, ahead, allowed, issued, said, crashes, decided>>
    BY <1>10 DEF Id!Conclude, Id!Refuse
  <2> QED BY <1>1, <1>2, <2>1, <2>2 DEF IdTypes, Id!TypeOK
<1>11. ASSUME NEW size \in 1..MaxReply, Id!Reply(size) PROVE IdTypes'
  <2>1. /\ issued + size <= MaxCalls /\ issued' = issued + size
        /\ ahead' = Id!Block(issued + 1, size) /\ thread' = Append(thread, Id!Asking(ahead'))
        /\ stage' = "block" /\ UNCHANGED <<up, log, allowed, said, crashes, decided>>
    BY <1>11 DEF Id!Reply
  <2>2. issued \in Nat /\ size \in Nat /\ issued' \in 0..MaxCalls
    BY <1>0, <1>1, <2>1
  <2> DEFINE idOf(k) == IF IdsRestart THEN k ELSE issued + k
  <2>3. ahead' = [k \in 1..size |-> [id |-> idOf(k), of |-> issued + k]]
    <3>1. \A k \in 1..size : issued + 1 + k - 1 = issued + k
      BY <2>2
    <3> QED BY <2>1, <3>1 DEF Id!Block, Id!IdOf
  <2>4. \A k \in 1..size : idOf(k) \in 1..MaxCalls /\ issued + k \in 1..MaxCalls
    BY <1>0, <2>1, <2>2
  <2>5. \A k, l \in 1..size : idOf(k) = idOf(l) => k = l
    BY <2>2
  <2> HIDE DEF idOf
  <2>6. \A k \in 1..size : [id |-> idOf(k), of |-> issued + k] \in Id!Call
    BY <1>0, <2>4 DEF Id!Call
  <2>7. ahead' \in Seq(Id!Call)
    BY <2>2, <2>3, <2>6
  <2>8. DOMAIN ahead' = 1..size /\ \A k \in 1..size : ahead'[k].id = idOf(k)
    BY <2>3
  <2>9. ahead' \in IdQueues
    BY <2>5, <2>7, <2>8 DEF IdQueues
  <2>10. thread' \in Seq(IdShapes)
    <3>1. Id!Asking(ahead') \in IdShapes
      BY <2>9 DEF IdShapes
    <3> QED BY <1>1, <1>5, <2>1, <3>1
  <2> QED BY <1>1, <1>2, <2>1, <2>2, <2>7, <2>10 DEF IdTypes, Id!TypeOK
<1>12. CASE Id!Clear
  <2>1. ahead' \in Seq(Id!Call) /\ allowed' \in Seq(Id!Call)
    BY <1>1, <1>6, <1>7, <1>12 DEF Id!Clear
  <2>2. stage = "block" /\ UNCHANGED <<up, stage, thread, log, issued, said, crashes, decided>>
    BY <1>12 DEF Id!Clear
  <2> QED BY <1>1, <1>2, <2>1, <2>2 DEF IdTypes, Id!TypeOK
<1>13. CASE Id!Prompt
  <2>1. /\ ahead # <<>> /\ Head(ahead).id \in DOMAIN items' /\ stage' = "prompt"
        /\ log' \in {thread, log}
        /\ UNCHANGED <<up, thread, ahead, allowed, issued, said, crashes, decided>>
    BY <1>13 DEF Id!Prompt
  <2> QED BY <1>1, <1>2, <2>1 DEF IdTypes, Id!TypeOK
<1>14. CASE Id!TakeAnswer
  <2> DEFINE x == Head(ahead)
  <2>1. /\ stage = "prompt" /\ stage' = "block" /\ ahead' = Tail(ahead)
        /\ decided' = decided \cup {<<items[x.id].of, x.of>>}
        /\ \/ allowed' = Append(allowed, x) /\ UNCHANGED thread
           \/ thread' = Append(thread, Id!Answering(x)) /\ UNCHANGED allowed
        /\ UNCHANGED <<up, log, items, issued, said, crashes>>
    BY <1>14 DEF Id!TakeAnswer
  <2>2. ahead # <<>> /\ x.id \in DOMAIN items
    BY <2>1 DEF IdTypes
  <2>3. x \in Id!Call /\ ahead' \in Seq(Id!Call)
    BY <1>1, <1>6, <2>1, <2>2
  <2> HIDE DEF x
  <2>4. x.of \in 1..MaxCalls /\ items[x.id].of \in 1..MaxCalls
    <3>1. items[x.id] \in Id!Item
      BY <2>2 DEF IdTypes, Id!TypeOK
    <3> QED BY <2>3, <3>1 DEF Id!Call, Id!Item
  <2>5. decided' \subseteq (1..MaxCalls) \X (1..MaxCalls)
    BY <1>1, <2>1, <2>4
  <2>6. allowed' \in Seq(Id!Call) /\ thread' \in Seq(IdShapes)
    BY <1>1, <1>4, <1>5, <1>7, <2>1, <2>3
  <2> QED BY <1>1, <1>2, <2>1, <2>3, <2>5, <2>6 DEF IdTypes, Id!TypeOK
<1>15. CASE Id!Execute
  <2>1. thread' \in Seq(IdShapes) /\ allowed' \in Seq(Id!Call)
    BY <1>1, <1>4, <1>5, <1>6, <1>15 DEF Id!Execute
  <2>2. stage = "block" /\ UNCHANGED <<up, stage, log, ahead, issued, said, crashes, decided>>
    BY <1>15 DEF Id!Execute
  <2> QED BY <1>1, <1>2, <2>1, <2>2 DEF IdTypes, Id!TypeOK
<1>16. CASE Id!EndBlock
  <2>1. /\ log' = thread /\ stage' = "request"
        /\ UNCHANGED <<up, thread, ahead, allowed, issued, said, crashes, decided>>
    BY <1>16 DEF Id!EndBlock
  <2> QED BY <1>1, <1>2, <2>1 DEF IdTypes, Id!TypeOK
<1>17. ASSUME NEW id \in Ids, Id!Resolve(id) PROVE IdTypes'
  <2>1. UNCHANGED <<allowed, issued, said, crashes, decided>>
    BY <1>17 DEF Id!Resolve
  <2>2. CASE stage # "idle"
    <3>1. UNCHANGED <<up, stage, thread, log, ahead>> /\ items' = [items EXCEPT ![id].state = "resolved"]
      BY <1>17, <2>2 DEF Id!Resolve
    <3>2. DOMAIN items' = DOMAIN items
      BY <3>1
    <3> QED BY <1>1, <1>2, <2>1, <3>1, <3>2 DEF IdTypes, Id!TypeOK
  <2>3. CASE stage = "idle"
    <3>1. /\ up' = TRUE /\ thread' = (IF up THEN thread ELSE Id!Repaired(log)) /\ log' = thread'
          /\ ahead' = Id!Resumable(thread')
          /\ stage' = IF ahead' = <<>> THEN "idle" ELSE "block"
      BY <1>17, <2>3 DEF Id!Resolve
    <3>2. thread' \in Seq(IdShapes)
      BY <1>1, <3>1, IdRepairTypes
    <3>3. ahead' \in Seq(Id!Call)
      BY <3>1, <3>2, IdResumeTypes
    <3> QED BY <1>1, <1>2, <2>1, <3>1, <3>2, <3>3 DEF IdTypes, Id!TypeOK
  <2> QED BY <2>2, <2>3
<1>18. CASE Id!Open
  <2>1. thread' \in Seq(IdShapes) /\ log' \in Seq(IdShapes)
    BY <1>1, <1>18, IdRepairTypes DEF Id!Open
  <2>2. up' = TRUE /\ UNCHANGED <<stage, ahead, allowed, items, issued, said, crashes, decided>>
    BY <1>18 DEF Id!Open
  <2>3. stage' = "prompt" => ahead' # <<>> /\ Head(ahead').id \in DOMAIN items'
    BY <2>2 DEF IdTypes
  <2> QED BY <1>1, <1>2, <2>1, <2>2, <2>3 DEF IdTypes, Id!TypeOK
<1>19. CASE Id!Crash
  <2>1. crashes' \in 0..MaxCrashes
    BY <1>0, <1>1, <1>19 DEF Id!Crash
  <2>2. /\ up' = FALSE /\ stage' = "idle" /\ thread' = <<>> /\ ahead' = <<>> /\ allowed' = <<>>
        /\ UNCHANGED <<log, issued, said, decided>>
    BY <1>19 DEF Id!Crash
  <2> QED BY <1>1, <1>2, <1>8, <2>1, <2>2 DEF IdTypes, Id!TypeOK
<1> QED
  BY <1>9, <1>10, <1>11, <1>12, <1>13, <1>14, <1>15, <1>16, <1>17, <1>18, <1>19 DEF Id!Next

LEMMA IdTypesInductive ==
  /\ Init => IdTypes
  /\ IdTypes /\ [Next]_<<part, turnVars, compactVars, permitVars, approvalVars, logVars, idVars>>
       => IdTypes'
<1>1. Init => IdTypes
  <2> SUFFICES ASSUME Init PROVE IdTypes
    OBVIOUS
  <2>1. IdInv /\ stage = "idle" /\ thread = <<>> /\ log = <<>>
    BY IdStarts DEF Init, Id!Init
  <2>2. <<>> \in Seq(IdShapes)
    OBVIOUS
  <2> QED BY <2>1, <2>2 DEF IdInv, IdTypes
<1>2. ASSUME IdTypes,
             [Next]_<<part, turnVars, compactVars, permitVars, approvalVars, logVars, idVars>>
      PROVE  IdTypes'
  <2>1. Id!Next \/ UNCHANGED idVars
    BY <1>2 DEF Next, TurnStep, CompactStep, PermitStep, ApprovalStep, LogStep, IdStep
  <2>2. CASE UNCHANGED idVars
    <3>1. UNCHANGED <<up, stage, thread, log, ahead, allowed, items, issued, said, crashes, decided>>
      BY <2>2 DEF idVars
    <3> QED BY <1>2, <3>1 DEF IdTypes, Id!TypeOK
  <2> QED BY <1>2, <2>1, <2>2, IdTypeStep
<1> QED
  BY <1>1, <1>2

(* The values each variable ranges over. *)
THEOREM EngineTypes == Spec => []TypeOK
<1>1. Spec => []Turn!TypeOK
  <2>1. ProvedTurn!Spec => []ProvedTurn!TypeOK
    BY TurnIsProved, ProvedTurn!TypeCorrect
  <2>2. ProvedTurn!TypeOK => Turn!TypeOK
    BY DEF Turn!TypeOK, ProvedTurn!TypeOK, Turn!Phases, ProvedTurn!Phases, Turn!CallSeqs,
           ProvedTurn!CallSeqs, Turn!SeqOf, ProvedTurn!SeqOf, Turn!IsInjective,
           ProvedTurn!IsInjective, Turn!Outcomes, ProvedTurn!Outcomes
  <2> QED BY EngineHasTurn, <2>1, <2>2, PTL
<1>2. Spec => []Permit!TypeOK
  <2>1. Proved!PermissionsAssumption
    BY PartsAssumption DEF Permit!PermissionsAssumption, Proved!PermissionsAssumption
  <2>2. Proved!Spec => []Proved!TypeOK
    BY <2>1, Proved!TypeCorrect
  <2>3. Proved!TypeOK => Permit!TypeOK
    BY DEF Permit!TypeOK, Proved!TypeOK, Permit!Modes, Proved!Modes, Permit!ToolNames,
           Proved!ToolNames, Permit!Args, Proved!Args, Permit!Rules, Proved!Rules,
           Permit!Consents, Proved!Consents, Permit!Scope, Proved!Scope
  <2> QED BY EngineHasPermissions, <2>2, <2>3, PTL
<1>3. Spec => []Store!TypeOK
  <2>1. Store!StoreAssumption
    BY PartsAssumption
  <2>2. Init => StoreInv
    BY <2>1, StoreInit DEF Init
  <2>3. StoreInv /\ [Next]_<<part, turnVars, compactVars, permitVars, approvalVars, logVars,
                             idVars>>
          => StoreInv'
    <3>1. [Next]_<<part, turnVars, compactVars, permitVars, approvalVars, logVars, idVars>>
            => [Store!Next]_approvalVars
      BY DEF Next, TurnStep, CompactStep, PermitStep, ApprovalStep, LogStep, IdStep
    <3> QED BY <2>1, <3>1, StoreStep
  <2>4. StoreInv => Store!TypeOK
    BY DEF StoreInv
  <2> QED BY <2>2, <2>3, <2>4, PTL DEF Spec
<1>4. Spec => []Compact!TypeOK
  <2>1. CompactInv => Compact!TypeOK
    BY DEF CompactInv
  <2> QED BY <2>1, CompactInductive, PTL DEF Spec
<1>5. Spec => []Log!TypeOK
  <2>1. LogInv => Log!TypeOK
    BY DEF LogInv
  <2> QED BY <2>1, LogInductive, PTL DEF Spec
<1>6. Spec => []Id!TypeOK
  <2>1. IdTypes => Id!TypeOK
    BY DEF IdTypes
  <2> QED BY <2>1, IdTypesInductive, PTL DEF Spec
<1>7. Spec => [](part \in {"turn", "compaction", "permissions", "approvals", "log", "ids"})
  <2>1. Init => part \in {"turn", "compaction", "permissions", "approvals", "log", "ids"}
    BY DEF Init
  <2>2. part \in {"turn", "compaction", "permissions", "approvals", "log", "ids"}
          /\ [Next]_<<part, turnVars, compactVars, permitVars, approvalVars, logVars, idVars>>
          => (part \in {"turn", "compaction", "permissions", "approvals", "log", "ids"})'
    BY DEF Next, TurnStep, CompactStep, PermitStep, ApprovalStep, LogStep, IdStep
  <2> QED BY <2>1, <2>2, PTL DEF Spec
<1>8. /\ Turn!TypeOK /\ Permit!TypeOK /\ Store!TypeOK /\ Compact!TypeOK /\ Log!TypeOK /\ Id!TypeOK
      /\ part \in {"turn", "compaction", "permissions", "approvals", "log", "ids"}
      => TypeOK
  BY DEF TypeOK
<1> QED
  BY <1>1, <1>2, <1>3, <1>4, <1>5, <1>6, <1>7, <1>8, PTL

=============================================================================
