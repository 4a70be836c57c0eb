------------------------- MODULE Automations_proofs -------------------------
(***************************************************************************)
(* Proofs about Automations, for any schedule, requests, wakes and bounds: *)
(* types, that no two scheduled runs of a task go at once, that a decision *)
(* is undone by a lost update only, that runs are counted and firings and  *)
(* wakes start once.                                                       *)
(***************************************************************************)
EXTENDS Automations, FiniteSetTheorems, SequenceTheorems, WellFoundedInduction, TLAPS

(* Who is to save a record holds a copy of it, which is the task's row as  *)
(* long as nobody else has written.                                        *)
Current(x) == x.copy # None /\ (~x.stale => x.copy = row)

CopiesAreCurrent ==
  /\ \A j \in Jobs : jobs[j].phase = "saving" => Current(jobs[j])
  /\ \A q \in Requests : reqs[q].op # "none" => Current(reqs[q])

(* A run that is to start knows which firing it is. *)
FiringsAreKnown ==
  \A j \in Jobs : jobs[j].phase = "spawned" => jobs[j].firing # None

IInv == TypeOK /\ CopiesAreCurrent /\ FiringsAreKnown

JobType == [phase : {"free", "spawned", "running", "fetching", "saving"},
            firing : Times, beside : BOOLEAN, ok : BOOLEAN,
            copy : Records, stale : BOOLEAN]
ReqType == [op : Ops \cup {"none", "finalize"}, copy : Records, stale : BOOLEAN]

-----------------------------------------------------------------------------
(* Types. *)

(* A set of times has an earliest one. *)
LEMMA MinOfTimes ==
  ASSUME NEW S, S \subseteq Nat, S # {} PROVE Min(S) \in S
<1> DEFINE R == {ss \in Nat \X Nat : ss[1] < ss[2]}
<1>1. IsWellFoundedOn(R, Nat)
  BY NatLessThanWellFounded DEF OpToRel
<1>2. \A x, y \in Nat : <<y, x>> \in R <=> y < x
  OBVIOUS
<1> HIDE DEF R
<1>3. \E x \in S : \A y \in S : ~(<<y, x>> \in R)
  BY <1>1, WFMin
<1>4. PICK x \in S : \A y \in S : ~(<<y, x>> \in R)
  BY <1>3
<1>5. ASSUME NEW y \in S PROVE x <= y
  <2>1. x \in Nat /\ y \in Nat /\ ~(<<y, x>> \in R)
    BY <1>4
  <2>2. ~(y < x)
    BY <1>2, <2>1
  <2> QED
    BY <2>1, <2>2
<1> QED
  BY <1>5 DEF Min

(* The wakes of a tick are lined up. *)
LEMMA LinedUp ==
  ASSUME NEW S, IsFiniteSet(S) PROVE SetToSeq(S) \in Seq(S)
<1> DEFINE n == Cardinality(S)
<1>1. n \in Nat /\ ExistsBijection(1..n, S)
  BY FS_CardinalityType
<1> HIDE DEF n
<1>2. \E f \in [1..n -> S] : IsInjective(f)
  BY <1>1 DEF ExistsBijection, Bijection, Injection, Surjection, IsInjective
<1>3. SetToSeq(S) \in [1..n -> S]
  BY <1>2 DEF SetToSeq, n
<1> QED
  BY <1>1, <1>3, SeqDef

(* What a save writes is a record. *)
LEMMA SavedType ==
  ASSUME NEW rec \in Record, clock \in Nat
  PROVE  Saved(rec) \in Record
<1> DEFINE later == {s \in Slots : s > clock}
<1>1. Min(Slots) \in Slots /\ (later # {} => Min(later) \in Slots)
  <2>1. Slots \subseteq Nat /\ Slots # {} /\ later \subseteq Nat
    BY AutomationsAssumption
  <2> QED
    BY <2>1, MinOfTimes
<1>2. rec.kind = "once" \/ rec.kind = "cron"
  BY DEF Record
<1>3. ComputeNext(rec) \in Times
  BY <1>1, <1>2 DEF ComputeNext, Times
<1> QED
  BY <1>3 DEF Saved, Record, Times

(* The end of a run makes a record of a record, with the same grant. *)
LEMMA AdvancedType ==
  ASSUME NEW rec \in Record, NEW ok \in BOOLEAN
  PROVE  Advanced(rec, ok) \in Record /\ Advanced(rec, ok).granted = rec.granted
<1> DEFINE n == IF ok THEN rec.count + 1 ELSE rec.count
<1>1. n \in Nat
  BY DEF Record
<1>2. Advanced(rec, ok) = [rec EXCEPT !.count = n, !.attempted = TRUE]
  BY DEF Advanced, Record
<1> HIDE DEF n
<1> QED
  BY <1>1, <1>2 DEF Record

(* So does an edit, and only two of them touch the grant. *)
LEMMA EditedType ==
  ASSUME NEW rec \in Record, NEW op \in Ops
  PROVE  /\ Edited(rec, op) \in Record
         /\ op = "revoke" => ~Edited(rec, op).granted
         /\ op # "mint" /\ ~rec.granted => ~Edited(rec, op).granted
<1>1. CASE op = "seen"
  BY <1>1 DEF Edited
<1>2. CASE op = "enable" \/ op = "disable" \/ op = "recron"
  BY <1>2 DEF Edited, Record
<1>3. CASE op = "revoke" \/ op = "mint"
  BY <1>3 DEF Edited, Record
<1> QED
  BY <1>1, <1>2, <1>3 DEF Ops

(* History marks the copies of others. *)
LEMMA OutdatedTypes ==
  ASSUME TypeOK, NEW j, NEW q
  PROVE  /\ OthersOutdated(jobs, j) \in [Jobs -> JobType]
         /\ OthersOutdated(reqs, q) \in [Requests -> ReqType]
         /\ \A k \in Jobs : OthersOutdated(jobs, j)[k].phase = jobs[k].phase
<1>1. jobs \in [Jobs -> JobType] /\ reqs \in [Requests -> ReqType]
  BY DEF TypeOK, JobType, ReqType
<1> QED
  BY <1>1 DEF OthersOutdated, Outdated, JobType, ReqType

(* The tasks' rows are times and records; free jobs and requests are typed. *)
LEMMA FreeTypes == NoJob \in JobType /\ NoReq \in ReqType
  BY DEF NoJob, NoReq, JobType, ReqType, Times, Records

(* What a save writes, given copies that are held. *)
LEMMA PutTypes ==
  ASSUME TypeOK, NEW q \in Requests, NEW rec \in Record, Put(q, rec)
  PROVE  /\ row' \in Records /\ lost' \in BOOLEAN
         /\ jobs' \in [Jobs -> JobType] /\ reqs' \in [Requests -> ReqType]
<1>1. row' \in Records
  BY SavedType DEF Put, TypeOK, Records
<1>2. reqs[q].stale \in BOOLEAN
  BY DEF TypeOK
<1>3. jobs' \in [Jobs -> JobType] /\ reqs' \in [Requests -> ReqType]
  BY OutdatedTypes, FreeTypes DEF Put
<1> QED
  BY <1>1, <1>2, <1>3 DEF Put, TypeOK

(* A tick's wakes. *)
LEMMA DeliverTypes ==
  ASSUME TypeOK, NEW ws \in Seq(Wakes), Deliver(ws)
  PROVE  waking' \in Seq(Wakes) /\ delivered' \in [Wakes -> Nat]
<1>1. ws # <<>> => Head(ws) \in Wakes
  BY HeadTailProperties
<1> QED
  BY <1>1 DEF Deliver, TypeOK

(* Every action keeps the types. *)
LEMMA TypeStep ==
  ASSUME IInv, [Next]_vars PROVE TypeOK'
<1> USE AutomationsAssumption DEF IInv, wakeVars, consentVars
<1>0. jobs \in [Jobs -> JobType] /\ reqs \in [Requests -> ReqType]
  BY DEF TypeOK, JobType, ReqType
<1>1. CASE Advance
  BY <1>1 DEF Advance, TypeOK
<1>2. CASE Tick
  <2>1. SetToSeq(DueWakes) \in Seq(Wakes)
    <3>1. DueWakes \subseteq Wakes /\ IsFiniteSet(DueWakes)
      BY FS_Subset DEF DueWakes
    <3>2. SetToSeq(DueWakes) \in Seq(DueWakes)
      BY <3>1, LinedUp
    <3> QED
      BY <3>1, <3>2, SeqDef
  <2>2. waking' \in Seq(Wakes) /\ delivered' \in [Wakes -> Nat]
    BY <1>2, <2>1, DeliverTypes DEF Tick
  <2>3. jobs' \in [Jobs -> JobType]
    <3>1. CASE ~IsDue
      BY <1>0, <1>2, <3>1 DEF Tick
    <3>2. CASE IsDue
      <4>1. row.next \in Times
        BY <3>2 DEF IsDue, TypeOK, Records, Record
      <4>2. PICK j \in Jobs :
              jobs' = [jobs EXCEPT ![j] =
                 [NoJob EXCEPT !.phase = "spawned", !.firing = row.next,
                    !.beside = \E k \in Jobs : jobs[k].phase # "free"]]
        BY <1>2, <3>2 DEF Tick
      <4>3. [NoJob EXCEPT !.phase = "spawned", !.firing = row.next,
                    !.beside = \E k \in Jobs : jobs[k].phase # "free"] \in JobType
        BY <4>1 DEF NoJob, JobType, Records
      <4> QED
        BY <1>0, <4>2, <4>3
    <3> QED
      BY <3>1, <3>2
  <2> QED
    BY <1>2, <2>2, <2>3 DEF Tick, TypeOK, JobType
<1>3. ASSUME NEW w \in Wakes, EndWake(w) PROVE TypeOK'
  <2>1. Tail(waking) \in Seq(Wakes)
    BY <1>3, HeadTailProperties DEF EndWake, TypeOK
  <2>2. waking' \in Seq(Wakes) /\ delivered' \in [Wakes -> Nat]
    BY <1>3, <2>1, DeliverTypes DEF EndWake
  <2> QED
    BY <1>3, <2>2 DEF EndWake, TypeOK
<1>4. ASSUME NEW w \in JobWakes, JobExits(w) PROVE TypeOK'
  BY <1>4 DEF JobExits, TypeOK
<1>5. ASSUME NEW j \in Jobs, JobStart(j) PROVE TypeOK'
  <2>1. jobs' \in [Jobs -> JobType] /\ guard' \in BOOLEAN
    <3>1. [NoJob EXCEPT !.phase = "running"] \in JobType
      BY FreeTypes DEF JobType
    <3> QED
      BY <1>0, <1>5, <3>1, FreeTypes DEF JobStart, TypeOK
  <2>2. fired' \subseteq Slots
    <3>1. jobs[j].firing \in Slots
      BY <1>0, <1>5 DEF JobStart, FiringsAreKnown, JobType, Times
    <3> QED
      BY <1>5, <3>1 DEF JobStart, TypeOK
  <2> QED
    BY <1>5, <2>1, <2>2 DEF JobStart, TypeOK, JobType
<1>6. ASSUME NEW j \in Jobs, JobFetch(j) PROVE TypeOK'
  <2>1. jobs' \in [Jobs -> JobType]
    BY <1>0, <1>6, FreeTypes DEF JobFetch, TypeOK, JobType
  <2> QED
    BY <1>6, <2>1 DEF JobFetch, TypeOK, JobType
<1>7. ASSUME NEW j \in Jobs, JobSave(j) PROVE TypeOK'
  <2>1. jobs[j].copy \in Record /\ jobs[j].ok \in BOOLEAN
        /\ jobs[j].stale \in BOOLEAN
    BY <1>0, <1>7 DEF JobSave, CopiesAreCurrent, Current, JobType, Records
  <2>2. Advanced(jobs[j].copy, jobs[j].ok) \in Record
    BY <2>1, AdvancedType
  <2>3. row' \in Records
    BY <1>7, <2>2, SavedType DEF JobSave, TypeOK, Records
  <2>4. jobs' \in [Jobs -> JobType] /\ reqs' \in [Requests -> ReqType]
    BY <1>7, OutdatedTypes, FreeTypes DEF JobSave
  <2> QED
    BY <1>7, <2>1, <2>3, <2>4 DEF JobSave, TypeOK, JobType, ReqType
<1>8. ASSUME NEW j \in Jobs, NEW ok \in BOOLEAN, RunnerDone(j, ok) PROVE TypeOK'
  <2>1. jobs' \in [Jobs -> JobType]
    BY <1>0, <1>8 DEF RunnerDone, JobType
  <2>2. oks' \in Nat
    BY <1>8 DEF RunnerDone, TypeOK
  <2> QED
    BY <1>8, <2>1, <2>2 DEF RunnerDone, TypeOK, JobType
<1>9. ASSUME NEW q \in Requests, NEW op \in Ops, Get(q, op) PROVE TypeOK'
  <2>1. reqs' \in [Requests -> ReqType]
    BY <1>0, <1>9 DEF Get, TypeOK, ReqType
  <2> QED
    BY <1>9, <2>1 DEF Get, TypeOK, ReqType
<1>10. ASSUME NEW q \in Requests, SaveEdit(q) PROVE TypeOK'
  <2>1. reqs[q].copy \in Record /\ reqs[q].op \in Ops
    BY <1>0, <1>10 DEF SaveEdit, CopiesAreCurrent, Current, Ops, ReqType, Records
  <2>2. Edited(reqs[q].copy, reqs[q].op) \in Record
    BY <2>1, EditedType
  <2>3. /\ row' \in Records /\ lost' \in BOOLEAN
        /\ jobs' \in [Jobs -> JobType] /\ reqs' \in [Requests -> ReqType]
    BY <1>10, <2>2, PutTypes DEF SaveEdit
  <2> QED
    BY <1>10, <2>3 DEF SaveEdit, TypeOK, JobType, ReqType
<1>11. ASSUME NEW q \in Requests, GetFinalize(q) PROVE TypeOK'
  <2>1. reqs' \in [Requests -> ReqType]
    BY <1>0, <1>11 DEF GetFinalize, TypeOK, ReqType
  <2> QED
    BY <1>11, <2>1 DEF GetFinalize, TypeOK, ReqType
<1>12. ASSUME NEW q \in Requests, SaveFinalize(q) PROVE TypeOK'
  <2>1. reqs[q].copy \in Record
    BY <1>0, <1>12 DEF SaveFinalize, CopiesAreCurrent, Current, ReqType, Records
  <2>2. Advanced(reqs[q].copy, TRUE) \in Record
    BY <2>1, AdvancedType
  <2>3. /\ row' \in Records /\ lost' \in BOOLEAN
        /\ jobs' \in [Jobs -> JobType] /\ reqs' \in [Requests -> ReqType]
    BY <1>12, <2>2, PutTypes DEF SaveFinalize
  <2> QED
    BY <1>12, <2>3 DEF SaveFinalize, TypeOK, JobType, ReqType
<1>13. CASE Delete
  <2>1. jobs' \in [Jobs -> JobType] /\ reqs' \in [Requests -> ReqType]
    BY <1>13, OutdatedTypes DEF Delete
  <2> QED
    BY <1>13, <2>1 DEF Delete, TypeOK, JobType, ReqType, Records
<1>14. CASE PrepareManual
  BY <1>14 DEF PrepareManual, TypeOK
<1>15. CASE Crash
  <2>1. jobs' \in [Jobs -> JobType] /\ reqs' \in [Requests -> ReqType]
    BY <1>15, FreeTypes DEF Crash
  <2>2. waking' \in Seq(Wakes)
    BY <1>15, EmptySeq DEF Crash
  <2>3. crashes' \in 0..MaxCrashes
    BY <1>15 DEF Crash, TypeOK
  <2> QED
    BY <1>15, <2>1, <2>2, <2>3 DEF Crash, TypeOK, JobType, ReqType
<1>16. CASE UNCHANGED vars
  BY <1>16 DEF vars, TypeOK
<1> QED
  BY <1>1, <1>2, <1>3, <1>4, <1>5, <1>6, <1>7, <1>8, <1>9, <1>10, <1>11, <1>12,
     <1>13, <1>14, <1>15, <1>16 DEF Next, JobStep

(* A write by somebody else marks a copy and changes nothing else. *)
MarkedJob(x, y) == /\ y.phase = x.phase /\ y.firing = x.firing /\ y.copy = x.copy
                   /\ y.beside = x.beside /\ y.ok = x.ok
                   /\ x.copy # None => y.stale
MarkedReq(x, y) == y.op = x.op /\ y.copy = x.copy /\ (x.copy # None => y.stale)

LEMMA NoneIsNobody == None \notin Jobs /\ None \notin Requests
  BY AutomationsAssumption DEF Jobs

LEMMA MarkedJobs ==
  ASSUME TypeOK, NEW j, NEW k \in Jobs, k # j
  PROVE  MarkedJob(jobs[k], OthersOutdated(jobs, j)[k])
<1>1. jobs \in [Jobs -> JobType]
  BY DEF TypeOK, JobType
<1>2. OthersOutdated(jobs, j)[k] = Outdated(jobs[k])
  BY <1>1 DEF OthersOutdated
<1> QED
  BY <1>1, <1>2 DEF Outdated, MarkedJob, JobType

LEMMA MarkedReqs ==
  ASSUME TypeOK, NEW q, NEW r \in Requests, r # q
  PROVE  MarkedReq(reqs[r], OthersOutdated(reqs, q)[r])
<1>1. reqs \in [Requests -> ReqType]
  BY DEF TypeOK, ReqType
<1>2. OthersOutdated(reqs, q)[r] = Outdated(reqs[r])
  BY <1>1 DEF OthersOutdated
<1> QED
  BY <1>1, <1>2 DEF Outdated, MarkedReq, ReqType

(* Every action keeps the copies current, or marks them. *)
LEMMA CopiesStep ==
  ASSUME IInv, [Next]_vars PROVE CopiesAreCurrent' /\ FiringsAreKnown'
<1> USE DEF IInv, wakeVars, consentVars, CopiesAreCurrent, FiringsAreKnown, Current
<1> DEFINE Goal == CopiesAreCurrent' /\ FiringsAreKnown'
<1>0. jobs \in [Jobs -> JobType] /\ reqs \in [Requests -> ReqType]
  BY DEF TypeOK, JobType, ReqType
<1>1. CASE UNCHANGED <<row, jobs, reqs>>
  BY <1>1
<1>2. CASE Tick
  <2>1. CASE ~IsDue
    BY <1>2, <2>1 DEF Tick
  <2>2. CASE IsDue
    <3>1. row.next # None
      BY <2>2 DEF IsDue
    <3>2. PICK j \in Jobs :
            jobs' = [jobs EXCEPT ![j] =
               [NoJob EXCEPT !.phase = "spawned", !.firing = row.next,
                  !.beside = \E k \in Jobs : jobs[k].phase # "free"]]
      BY <1>2, <2>2 DEF Tick
    <3>3. /\ jobs'[j].phase = "spawned" /\ jobs'[j].firing = row.next
          /\ \A k \in Jobs \ {j} : jobs'[k] = jobs[k]
      BY <1>0, <3>2 DEF NoJob
    <3> QED
      BY <1>2, <3>1, <3>3 DEF Tick
  <2> QED
    BY <2>1, <2>2
<1>3. ASSUME NEW j \in Jobs, JobStart(j) PROVE Goal
  <2>1. /\ jobs'[j].phase \in {"free", "running"}
        /\ \A k \in Jobs \ {j} : jobs'[k] = jobs[k]
    BY <1>0, <1>3 DEF JobStart, NoJob
  <2> QED
    BY <1>3, <2>1 DEF JobStart
<1>4. ASSUME NEW j \in Jobs, JobFetch(j) PROVE Goal
  <2>1. /\ jobs'[j].phase = "free" \/ (jobs'[j].phase = "saving" /\ jobs'[j].copy = row
                                         /\ row # None)
        /\ \A k \in Jobs \ {j} : jobs'[k] = jobs[k]
    BY <1>0, <1>4 DEF JobFetch, NoJob, JobType
  <2> QED
    BY <1>4, <2>1 DEF JobFetch
<1>5. ASSUME NEW j \in Jobs, NEW ok \in BOOLEAN, RunnerDone(j, ok) PROVE Goal
  <2>1. /\ jobs'[j].phase = "fetching"
        /\ \A k \in Jobs \ {j} : jobs'[k] = jobs[k]
    BY <1>0, <1>5 DEF RunnerDone, JobType
  <2> QED
    BY <1>5, <2>1 DEF RunnerDone
<1>a. ASSUME NEW k \in Jobs, MarkedJob(jobs[k], jobs'[k])
      PROVE  /\ jobs'[k].phase = "saving" => Current(jobs[k])'
             /\ jobs'[k].phase = "spawned" => jobs'[k].firing # None
  BY <1>a DEF MarkedJob
<1>b. ASSUME NEW r \in Requests, MarkedReq(reqs[r], reqs'[r])
      PROVE  reqs'[r].op # "none" => Current(reqs[r])'
  BY <1>b DEF MarkedReq
<1>6. ASSUME NEW j \in Jobs, JobSave(j) PROVE Goal
  <2>1. /\ jobs'[j].phase = "free"
        /\ \A k \in Jobs \ {j} : MarkedJob(jobs[k], jobs'[k])
    BY <1>0, <1>6, MarkedJobs, OutdatedTypes DEF JobSave, NoJob
  <2>2. \A r \in Requests : MarkedReq(reqs[r], reqs'[r])
    BY <1>6, MarkedReqs, NoneIsNobody DEF JobSave
  <2>3. ASSUME NEW k \in Jobs
        PROVE  /\ jobs'[k].phase = "saving" => Current(jobs[k])'
               /\ jobs'[k].phase = "spawned" => jobs'[k].firing # None
    <3>1. CASE k = j
      BY <2>1, <3>1
    <3>2. CASE k # j
      BY <1>a, <2>1, <3>2
    <3> QED
      BY <3>1, <3>2
  <2> QED
    BY <1>b, <2>2, <2>3
<1>7. ASSUME NEW q \in Requests, NEW rec, Put(q, rec) PROVE Goal
  <2>1. /\ reqs'[q].op = "none"
        /\ \A r \in Requests \ {q} : MarkedReq(reqs[r], reqs'[r])
    BY <1>0, <1>7, MarkedReqs, OutdatedTypes DEF Put, NoReq
  <2>2. \A k \in Jobs : MarkedJob(jobs[k], jobs'[k])
    BY <1>7, MarkedJobs, NoneIsNobody DEF Put
  <2>3. ASSUME NEW r \in Requests
        PROVE  reqs'[r].op # "none" => Current(reqs[r])'
    <3>1. CASE r = q
      BY <2>1, <3>1
    <3>2. CASE r # q
      BY <1>b, <2>1, <3>2
    <3> QED
      BY <3>1, <3>2
  <2> QED
    BY <1>a, <2>2, <2>3
<1>8. CASE Delete
  <2>1. \A r \in Requests : MarkedReq(reqs[r], reqs'[r])
    BY <1>8, MarkedReqs, NoneIsNobody DEF Delete
  <2>2. \A k \in Jobs : MarkedJob(jobs[k], jobs'[k])
    BY <1>8, MarkedJobs, NoneIsNobody DEF Delete
  <2> QED
    BY <1>a, <1>b, <2>1, <2>2
<1>9. ASSUME NEW q \in Requests, NEW op, op # "none", row # None,
             reqs' = [reqs EXCEPT ![q] = [op |-> op, copy |-> row, stale |-> FALSE]],
             UNCHANGED <<row, jobs>>
      PROVE  Goal
  BY <1>0, <1>9
<1>10. CASE Crash
  BY <1>10 DEF Crash, NoJob, NoReq
<1> QED
  BY <1>1, <1>2, <1>3, <1>4, <1>5, <1>6, <1>7, <1>8, <1>9, <1>10
     DEF Next, JobStep, vars, Advance, EndWake, JobExits, PrepareManual, Get, GetFinalize,
         SaveEdit, SaveFinalize, Ops

-----------------------------------------------------------------------------
(* Overlap. *)

(* A step that changes no phase into or out of "running". *)
LEMMA OverlapKept ==
  ASSUME NoOverlap, UNCHANGED guard,
         \A k \in Jobs : jobs'[k].phase = "running" <=> jobs[k].phase = "running"
  PROVE  NoOverlap'
  BY DEF NoOverlap

LEMMA OverlapStep ==
  ASSUME IInv, NoOverlap, [Next]_vars PROVE NoOverlap'
<1> USE DEF IInv, wakeVars, consentVars
<1>0. jobs \in [Jobs -> JobType]
  BY DEF TypeOK, JobType
<1>1. CASE UNCHANGED <<guard, jobs>>
  BY <1>1, OverlapKept
<1>2. CASE Tick
  <2>1. \A k \in Jobs : jobs'[k] = jobs[k]
                          \/ (jobs[k].phase = "free" /\ jobs'[k].phase = "spawned")
    BY <1>0, <1>2 DEF Tick, FirstFree, NoJob
  <2> QED
    BY <1>2, <2>1, OverlapKept DEF Tick
<1>3. ASSUME NEW j \in Jobs, JobStart(j) PROVE NoOverlap'
  <2>1. CASE guard
    <3>1. \A k \in Jobs : jobs'[k] = jobs[k]
                            \/ (jobs[k].phase = "spawned" /\ jobs'[k].phase = "free")
      BY <1>0, <1>3, <2>1 DEF JobStart, NoJob
    <3> QED
      BY <1>3, <2>1, <3>1, OverlapKept DEF JobStart
  <2>2. CASE ~guard
    <3>1. /\ jobs'[j].phase = "running"
          /\ \A k \in Jobs \ {j} : jobs'[k] = jobs[k]
          /\ guard' = TRUE
      BY <1>0, <1>3, <2>2 DEF JobStart, NoJob
    <3> QED
      BY <2>2, <3>1 DEF NoOverlap
  <2> QED
    BY <2>1, <2>2
<1>4. ASSUME NEW j \in Jobs, NEW ok \in BOOLEAN, RunnerDone(j, ok) PROVE NoOverlap'
  <2>1. /\ jobs[j].phase = "running" /\ jobs'[j].phase = "fetching"
        /\ \A k \in Jobs \ {j} : jobs'[k] = jobs[k]
        /\ guard' = FALSE
    BY <1>0, <1>4 DEF RunnerDone, JobType
  <2> QED
    BY <2>1 DEF NoOverlap
<1>5. ASSUME NEW j \in Jobs, JobFetch(j) PROVE NoOverlap'
  <2>1. \A k \in Jobs : jobs'[k] = jobs[k]
                  \/ (jobs[k].phase = "fetching" /\ jobs'[k].phase \in {"free", "saving"})
    BY <1>0, <1>5 DEF JobFetch, NoJob, JobType
  <2> QED
    BY <1>5, <2>1, OverlapKept DEF JobFetch
<1>6. ASSUME NEW j \in Jobs, JobSave(j) PROVE NoOverlap'
  <2>1. \A k \in Jobs : jobs'[k].phase = jobs[k].phase
                          \/ (jobs[k].phase = "saving" /\ jobs'[k].phase = "free")
    BY <1>0, <1>6, OutdatedTypes DEF JobSave, NoJob
  <2> QED
    BY <1>6, <2>1, OverlapKept DEF JobSave
<1>7. CASE jobs' = OthersOutdated(jobs, None) /\ UNCHANGED guard
  BY <1>7, OutdatedTypes, OverlapKept
<1>8. CASE Crash
  BY <1>8 DEF Crash, NoJob, NoOverlap
<1> QED
  BY <1>1, <1>2, <1>3, <1>4, <1>5, <1>6, <1>7, <1>8
     DEF Next, JobStep, vars, Advance, EndWake, JobExits, PrepareManual, Get, GetFinalize,
         SaveEdit, SaveFinalize, Put, Delete

-----------------------------------------------------------------------------
(* Decisions. *)

LEMMA SavedKeepsGrant ==
  ASSUME NEW rec \in Record PROVE Saved(rec).granted = rec.granted
  BY DEF Saved, Record

(* A save of a copy that is current respects the decisions before it.      *)
LEMMA DecisionsStep ==
  ASSUME IInv, DecisionsStick, [Next]_vars PROVE DecisionsStick'
<1> USE DEF IInv, wakeVars, consentVars
<1>0. jobs \in [Jobs -> JobType] /\ reqs \in [Requests -> ReqType]
  BY DEF TypeOK, JobType, ReqType
<1>1. CASE UNCHANGED <<row, deleted, revoked, lost>>
  BY <1>1 DEF DecisionsStick
<1>2. ASSUME NEW j \in Jobs, JobSave(j) PROVE DecisionsStick'
  <2>1. jobs[j].copy \in Record /\ jobs[j].ok \in BOOLEAN
    BY <1>0, <1>2 DEF JobSave, CopiesAreCurrent, Current, JobType, Records
  <2>2. row'.granted = jobs[j].copy.granted
    BY <1>2, <2>1, AdvancedType, SavedKeepsGrant DEF JobSave
  <2>3. ~lost' => ~lost /\ jobs[j].copy = row /\ row # None
    BY <1>2 DEF JobSave, CopiesAreCurrent, Current
  <2> QED
    BY <1>2, <2>2, <2>3 DEF JobSave, DecisionsStick
<1>3. ASSUME NEW q \in Requests, SaveEdit(q) PROVE DecisionsStick'
  <2>1. reqs[q].copy \in Record /\ reqs[q].op \in Ops
    BY <1>0, <1>3 DEF SaveEdit, CopiesAreCurrent, Current, ReqType, Records, Ops
  <2>2. row'.granted = Edited(reqs[q].copy, reqs[q].op).granted
    BY <1>3, <2>1, EditedType, SavedKeepsGrant DEF SaveEdit, Put
  <2>3. ~lost' => ~lost /\ reqs[q].copy = row /\ row # None
    BY <1>3 DEF SaveEdit, Put, CopiesAreCurrent, Current, Ops
  <2>4. revoked' => reqs[q].op = "revoke" \/ (revoked /\ reqs[q].op # "mint")
    BY <1>3 DEF SaveEdit
  <2>5. UNCHANGED deleted
    BY <1>3 DEF SaveEdit
  <2> QED
    BY <2>1, <2>2, <2>3, <2>4, <2>5, EditedType DEF DecisionsStick, Record
<1>4. ASSUME NEW q \in Requests, SaveFinalize(q) PROVE DecisionsStick'
  <2>1. reqs[q].copy \in Record
    BY <1>0, <1>4 DEF SaveFinalize, CopiesAreCurrent, Current, ReqType, Records
  <2>2. row'.granted = reqs[q].copy.granted
    BY <1>4, <2>1, AdvancedType, SavedKeepsGrant DEF SaveFinalize, Put
  <2>3. ~lost' => ~lost /\ reqs[q].copy = row /\ row # None
    BY <1>4 DEF SaveFinalize, Put, CopiesAreCurrent, Current
  <2> QED
    BY <1>4, <2>2, <2>3 DEF SaveFinalize, DecisionsStick
<1>5. CASE Delete
  BY <1>5 DEF Delete, DecisionsStick
<1> QED
  BY <1>1, <1>2, <1>3, <1>4, <1>5
     DEF Next, JobStep, vars, Advance, Tick, EndWake, JobExits, JobStart, JobFetch,
         RunnerDone, PrepareManual, Get, GetFinalize, Crash

-----------------------------------------------------------------------------
(* What a write does to a record. *)

LEMMA SavedIs ==
  ASSUME NEW rec \in Record, clock \in Nat
  PROVE  /\ Saved(rec).count = rec.count /\ Saved(rec).kind = rec.kind
         /\ Saved(rec).attempted = rec.attempted
         /\ \/ Saved(rec).next = None
            \/ Saved(rec).next \in Nat /\ Saved(rec).next > clock
            \/ rec.kind = "once" /\ ~rec.attempted
<1> DEFINE later == {s \in Slots : s > clock}
           next == IF rec.enabled THEN ComputeNext(rec) ELSE None
<1>1. later # {} => Min(later) \in later
  <2>1. later \subseteq Nat
    BY AutomationsAssumption
  <2> QED
    BY <2>1, MinOfTimes
<1>2. later # {} => Min(later) \in Nat /\ Min(later) > clock
  BY <1>1, AutomationsAssumption
<1>3. \/ next = None
      \/ next \in Nat /\ next > clock
      \/ rec.kind = "once" /\ ~rec.attempted
  <2>1. CASE rec.kind = "once"
    BY <2>1 DEF ComputeNext, Record
  <2>2. CASE rec.kind # "once"
    BY <1>2, <2>2 DEF ComputeNext, Record
  <2> QED
    BY <2>1, <2>2
<1>4. Saved(rec) = [rec EXCEPT !.next = next]
  BY DEF Saved
<1> HIDE DEF next
<1> QED
  BY <1>3, <1>4 DEF Record

LEMMA AdvancedIs ==
  ASSUME NEW rec \in Record, NEW ok \in BOOLEAN
  PROVE  /\ Advanced(rec, ok).count = (IF ok THEN rec.count + 1 ELSE rec.count)
         /\ Advanced(rec, ok).attempted /\ Advanced(rec, ok).kind = rec.kind
<1> DEFINE n == IF ok THEN rec.count + 1 ELSE rec.count
<1>1. Advanced(rec, ok) = [rec EXCEPT !.count = n, !.attempted = TRUE]
  BY DEF Advanced, Record
<1> HIDE DEF n
<1>2. Advanced(rec, ok).count = n /\ Advanced(rec, ok).attempted /\ Advanced(rec, ok).kind = rec.kind
  BY <1>1 DEF Record
<1> QED
  BY <1>2 DEF n

LEMMA EditedIs ==
  ASSUME NEW rec \in Record, NEW op \in Ops
  PROVE  /\ Edited(rec, op).count = rec.count /\ Edited(rec, op).attempted = rec.attempted
         /\ Edited(rec, op).kind = "once" => rec.kind = "once"
<1>1. CASE op = "seen"
  BY <1>1 DEF Edited
<1>2. CASE op = "enable" \/ op = "disable" \/ op = "recron"
  BY <1>2 DEF Edited, Record
<1>3. CASE op = "revoke" \/ op = "mint"
  BY <1>3 DEF Edited, Record
<1> QED
  BY <1>1, <1>2, <1>3 DEF Ops

(* What a save of a copy writes, if nobody wrote since the copy was read. *)
Wrote(count, attempted) ==
  /\ row' # None /\ row # None /\ row'.count = row.count + count
  /\ row.attempted => row'.attempted
  /\ attempted => row'.attempted
  /\ row'.kind = "once" => row.kind = "once"
  /\ \/ row'.next = None
     \/ row'.next \in Nat /\ row'.next > clock
     \/ row'.kind = "once" /\ ~row'.attempted

LEMMA JobSaveWrote ==
  ASSUME IInv, NEW j \in Jobs, JobSave(j), ~lost'
  PROVE  ~lost /\ Wrote(IF jobs[j].ok THEN 1 ELSE 0, TRUE)
<1>1. jobs \in [Jobs -> JobType] /\ clock \in Nat /\ row \in Records
  BY AutomationsAssumption DEF IInv, TypeOK, JobType
<1>2. ~lost /\ jobs[j].copy = row /\ row # None /\ jobs[j].ok \in BOOLEAN
  BY <1>1 DEF JobSave, IInv, CopiesAreCurrent, Current, JobType
<1>3. row \in Record
  BY <1>1, <1>2 DEF Records
<1> DEFINE rec == Advanced(row, jobs[j].ok)
<1>4. row' = Saved(rec)
  BY <1>2 DEF JobSave
<1>5. /\ rec \in Record /\ rec.attempted /\ rec.kind = row.kind
      /\ rec.count = row.count + (IF jobs[j].ok THEN 1 ELSE 0)
  <2>1. /\ rec \in Record /\ rec.attempted /\ rec.kind = row.kind
        /\ rec.count = IF jobs[j].ok THEN row.count + 1 ELSE row.count
    BY <1>2, <1>3, AdvancedType, AdvancedIs
  <2>2. row.count \in Nat
    BY <1>3 DEF Record
  <2> HIDE DEF rec
  <2> QED
    BY <2>1, <2>2
<1> HIDE DEF rec
<1>6. row' \in Record
  BY <1>1, <1>4, <1>5, SavedType
<1>7. row' # None
  BY <1>6, AutomationsAssumption
<1> QED
  BY <1>1, <1>2, <1>4, <1>5, <1>7, SavedIs DEF Wrote

LEMMA PutWrote ==
  ASSUME IInv, NEW q \in Requests, NEW rec \in Record, Put(q, rec), ~lost', reqs[q].op # "none",
         NEW n \in Nat, NEW over \in BOOLEAN,
         reqs[q].copy \in Record =>
           /\ rec.count = reqs[q].copy.count + n /\ (over => rec.attempted)
           /\ reqs[q].copy.attempted => rec.attempted
           /\ rec.kind = "once" => reqs[q].copy.kind = "once"
  PROVE  ~lost /\ Wrote(n, over)
<1>1. clock \in Nat /\ row \in Records
  BY AutomationsAssumption DEF IInv, TypeOK
<1>2. ~lost /\ reqs[q].copy = row /\ row # None
  BY DEF Put, IInv, CopiesAreCurrent, Current
<1>3. row \in Record
  BY <1>1, <1>2 DEF Records
<1>4. row' = Saved(rec)
  BY DEF Put
<1>5. row' \in Record
  BY <1>1, <1>4, SavedType
<1>6. row' # None
  BY <1>5, AutomationsAssumption
<1> QED
  BY <1>1, <1>2, <1>3, <1>4, <1>6, SavedIs DEF Wrote

LEMMA SaveEditWrote ==
  ASSUME IInv, NEW q \in Requests, SaveEdit(q), ~lost' PROVE ~lost /\ Wrote(0, FALSE)
<1>1. reqs[q].copy \in Record /\ reqs[q].op \in Ops /\ reqs[q].op # "none"
  BY DEF IInv, SaveEdit, TypeOK, CopiesAreCurrent, Current, Records, Ops
<1> DEFINE rec == Edited(reqs[q].copy, reqs[q].op)
<1>2. Put(q, rec) /\ rec \in Record
  BY <1>1, EditedType DEF SaveEdit
<1>3. /\ rec.count = reqs[q].copy.count + 0 /\ (reqs[q].copy.attempted => rec.attempted)
      /\ rec.kind = "once" => reqs[q].copy.kind = "once"
  BY <1>1, EditedIs DEF Record
<1> HIDE DEF rec
<1> QED
  BY <1>1, <1>2, <1>3, PutWrote

LEMMA SaveFinalizeWrote ==
  ASSUME IInv, NEW q \in Requests, SaveFinalize(q), ~lost' PROVE ~lost /\ Wrote(1, TRUE)
<1>1. reqs[q].copy \in Record /\ reqs[q].op # "none"
  BY DEF IInv, SaveFinalize, TypeOK, CopiesAreCurrent, Current, Records
<1> DEFINE rec == Advanced(reqs[q].copy, TRUE)
<1>2. Put(q, rec) /\ rec \in Record
  BY <1>1, AdvancedType DEF SaveFinalize
<1>3. /\ rec.count = reqs[q].copy.count + 1 /\ rec.attempted
      /\ rec.kind = "once" => reqs[q].copy.kind = "once"
  BY <1>1, AdvancedIs
<1> HIDE DEF rec
<1> QED
  BY <1>1, <1>2, <1>3, PutWrote

-----------------------------------------------------------------------------
(* Runs that are counted. *)

(* Runs that ended well and are still to be recorded. *)
ToCount(j) == jobs[j].phase \in {"fetching", "saving"} /\ jobs[j].ok
Uncounted == {j \in Jobs : ToCount(j)}

LEMMA UncountedIsFinite == IsFiniteSet(Uncounted) /\ Cardinality(Uncounted) \in Nat
<1>1. IsFiniteSet(Jobs)
  BY FS_Interval, AutomationsAssumption DEF Jobs
<1>2. IsFiniteSet(Uncounted)
  BY <1>1, FS_Subset DEF Uncounted
<1> QED
  BY <1>2, FS_CardinalityType

Counted == ~lost /\ crashes = 0 /\ row # None => row.count + Cardinality(Uncounted) = oks

(* A step that ends or records no run. *)
LEMMA CountKept ==
  ASSUME Counted, ~lost' => ~lost, UNCHANGED <<crashes, oks>>,
         ~lost' /\ row' # None => row # None /\ row'.count = row.count,
         \A j \in Jobs : ToCount(j)' <=> ToCount(j)
  PROVE  Counted'
<1>1. Uncounted' = Uncounted
  BY DEF Uncounted
<1> QED
  BY <1>1 DEF Counted

LEMMA CountStep ==
  ASSUME IInv, Counted, [Next]_vars PROVE Counted'
<1> USE DEF wakeVars, consentVars
<1>1. /\ jobs \in [Jobs -> JobType] /\ oks \in Nat /\ row \in Records
      /\ row # None => row.count \in Nat
  BY DEF IInv, TypeOK, JobType, Records, Record
<1>2. CASE UNCHANGED <<row, jobs, lost, crashes, oks>>
  BY <1>2, CountKept DEF ToCount
<1>3. ASSUME NEW j \in Jobs, UNCHANGED <<row, lost, crashes, oks>>,
             \A k \in Jobs \ {j} : jobs'[k] = jobs[k], ToCount(j)' <=> ToCount(j)
      PROVE  Counted'
  <2>1. \A k \in Jobs : ToCount(k)' <=> ToCount(k)
    BY <1>3 DEF ToCount
  <2> QED
    BY <1>3, <2>1, CountKept
<1>4. CASE Tick
  <2>1. \A k \in Jobs : jobs'[k] = jobs[k]
                          \/ (jobs[k].phase = "free" /\ jobs'[k].phase = "spawned")
    BY <1>1, <1>4 DEF Tick, FirstFree, NoJob
  <2> QED
    BY <1>4, <2>1, CountKept DEF Tick, ToCount
<1>5. ASSUME NEW j \in Jobs, JobStart(j) PROVE Counted'
  <2>1. /\ jobs[j].phase = "spawned" /\ jobs'[j].phase \in {"free", "running"}
        /\ \A k \in Jobs \ {j} : jobs'[k] = jobs[k]
    BY <1>1, <1>5 DEF JobStart, NoJob
  <2> QED
    BY <1>3, <1>5, <2>1 DEF JobStart, ToCount
<1>6. ASSUME NEW j \in Jobs, JobFetch(j) PROVE Counted'
  <2>1. CASE row = None
    BY <1>6, <2>1 DEF JobFetch, Counted
  <2>2. CASE row # None
    <3>1. /\ jobs[j].phase = "fetching" /\ jobs'[j].phase = "saving" /\ jobs'[j].ok = jobs[j].ok
          /\ \A k \in Jobs \ {j} : jobs'[k] = jobs[k]
      BY <1>1, <1>6, <2>2 DEF JobFetch, JobType
    <3> QED
      BY <1>3, <1>6, <3>1 DEF JobFetch, ToCount
  <2> QED
    BY <2>1, <2>2
<1>7. ASSUME NEW j \in Jobs, NEW ok \in BOOLEAN, RunnerDone(j, ok) PROVE Counted'
  <2>1. /\ jobs[j].phase = "running" /\ jobs'[j].phase = "fetching" /\ jobs'[j].ok = ok
        /\ \A k \in Jobs \ {j} : jobs'[k] = jobs[k]
        /\ UNCHANGED <<row, lost, crashes>> /\ oks' = IF ok /\ ~lost THEN oks + 1 ELSE oks
    BY <1>1, <1>7 DEF RunnerDone, JobType
  <2>2. CASE ~ok
    BY <1>3, <2>1, <2>2 DEF ToCount
  <2>3. CASE ok
    <3>1. Uncounted' = Uncounted \cup {j} /\ j \notin Uncounted
      BY <2>1, <2>3 DEF Uncounted, ToCount
    <3>2. Cardinality(Uncounted') = Cardinality(Uncounted) + 1
      BY <3>1, UncountedIsFinite, FS_AddElement
    <3> QED
      BY <1>1, <2>1, <2>3, <3>2, UncountedIsFinite DEF Counted
  <2> QED
    BY <2>2, <2>3
<1>8. ASSUME NEW j \in Jobs, JobSave(j) PROVE Counted'
  <2> SUFFICES ASSUME ~lost', crashes' = 0, row' # None
               PROVE  row'.count + Cardinality(Uncounted') = oks'
    BY DEF Counted
  <2>1. /\ jobs[j].phase = "saving" /\ jobs'[j].phase = "free"
        /\ \A k \in Jobs \ {j} : MarkedJob(jobs[k], jobs'[k])
    BY <1>1, <1>8, MarkedJobs, OutdatedTypes DEF IInv, JobSave, NoJob
  <2>2. \A k \in Jobs \ {j} : ToCount(k)' <=> ToCount(k)
    BY <2>1 DEF ToCount, MarkedJob
  <2>3. ~lost /\ row # None /\ row'.count = row.count + (IF jobs[j].ok THEN 1 ELSE 0)
    BY <1>8, JobSaveWrote DEF Wrote
  <2>4. row.count + Cardinality(Uncounted) = oks /\ UNCHANGED <<crashes, oks>>
    BY <1>8, <2>3 DEF Counted, JobSave
  <2>5. CASE jobs[j].ok
    <3>1. Uncounted' = Uncounted \ {j} /\ j \in Uncounted
      BY <2>1, <2>2, <2>5 DEF Uncounted, ToCount
    <3>2. Cardinality(Uncounted') = Cardinality(Uncounted) - 1
      BY <3>1, UncountedIsFinite, FS_RemoveElement
    <3> QED
      BY <1>1, <2>3, <2>4, <2>5, <3>2, UncountedIsFinite
  <2>6. CASE ~jobs[j].ok
    <3>1. Uncounted' = Uncounted
      BY <2>1, <2>2, <2>6 DEF Uncounted, ToCount
    <3> QED
      BY <1>1, <2>3, <2>4, <2>6, <3>1
  <2> QED
    BY <2>5, <2>6
<1>9. ASSUME NEW q \in Requests, NEW rec, Put(q, rec)
      PROVE  \A k \in Jobs : ToCount(k)' <=> ToCount(k)
  <2>1. \A k \in Jobs : MarkedJob(jobs[k], jobs'[k])
    BY <1>9, MarkedJobs, NoneIsNobody DEF IInv, Put
  <2> QED
    BY <2>1 DEF ToCount, MarkedJob
<1>10. ASSUME NEW q \in Requests, SaveEdit(q) PROVE Counted'
  <2>1. ~lost' => ~lost /\ row # None /\ row'.count = row.count
    BY <1>1, <1>10, SaveEditWrote DEF Wrote
  <2>2. \A k \in Jobs : ToCount(k)' <=> ToCount(k)
    BY <1>9, <1>10 DEF SaveEdit
  <2> QED
    BY <1>10, <2>1, <2>2, CountKept DEF SaveEdit
<1>11. ASSUME NEW q \in Requests, SaveFinalize(q) PROVE Counted'
  <2> SUFFICES ASSUME ~lost', crashes' = 0, row' # None
               PROVE  row'.count + Cardinality(Uncounted') = oks'
    BY DEF Counted
  <2>1. ~lost /\ row # None /\ row'.count = row.count + 1
    BY <1>11, SaveFinalizeWrote DEF Wrote
  <2>2. Uncounted' = Uncounted
    BY <1>9, <1>11 DEF SaveFinalize, Uncounted
  <2>3. oks' = oks + 1 /\ UNCHANGED crashes
    BY <1>11 DEF SaveFinalize
  <2>4. row.count + Cardinality(Uncounted) = oks
    BY <2>1, <2>3 DEF Counted
  <2> QED
    BY <1>1, <2>1, <2>2, <2>3, <2>4, UncountedIsFinite
<1>12. CASE Delete
  BY <1>12 DEF Delete, Counted
<1>13. CASE Crash
  <2>1. crashes' # 0
    BY <1>13 DEF Crash, IInv, TypeOK
  <2> QED
    BY <2>1 DEF Counted
<1> QED
  BY <1>2, <1>4, <1>5, <1>6, <1>7, <1>8, <1>10, <1>11, <1>12, <1>13
     DEF Next, JobStep, vars, Advance, EndWake, JobExits, PrepareManual, Get, GetFinalize

-----------------------------------------------------------------------------
(* Firings. *)

(* A run that is not recorded yet. *)
Busy(j) == jobs[j].phase \in {"running", "fetching", "saving"}

(* A row still names a time that has fired only while a run is to be       *)
(* recorded.                                                               *)
FiredIsRecorded ==
  /\ crashes = 0 /\ ~lost /\ row # None
  /\ row.next \in fired \/ (row.kind = "once" /\ fired # {} /\ ~row.attempted)
  => \E j \in Jobs : Busy(j)

(* One run at a time is to start, and it is for a new firing. *)
SpawnedIsNew ==
  /\ \A j, k \in Jobs : jobs[j].phase = "spawned" /\ jobs[k].phase = "spawned" => j = k
  /\ \A j \in Jobs :
       jobs[j].phase = "spawned" /\ crashes = 0 /\ ~lost /\ ~jobs[j].beside
         => jobs[j].firing \notin fired

FiredIsPast ==
  /\ \A n \in fired : n \in Nat /\ n <= clock
  /\ \A j \in Jobs : jobs[j].phase = "spawned" => jobs[j].firing \in Nat /\ jobs[j].firing <= clock

FiringInv == FiredIsRecorded /\ SpawnedIsNew /\ FiredIsPast

(* A step that starts no run and writes no record. *)
LEMMA FiringsKept ==
  ASSUME FiringInv, UNCHANGED <<row, fired, crashes, lost, clock>>,
         \A j \in Jobs : /\ Busy(j) => Busy(j)' \/ row = None
                         /\ jobs'[j].phase = "spawned" =>
                              /\ jobs[j].phase = "spawned" /\ jobs'[j].firing = jobs[j].firing
                              /\ jobs'[j].beside = jobs[j].beside
  PROVE  FiringInv'
<1>1. FiredIsRecorded'
  BY DEF FiringInv, FiredIsRecorded
<1>2. SpawnedIsNew' /\ FiredIsPast'
  BY DEF FiringInv, SpawnedIsNew, FiredIsPast
<1> QED
  BY <1>1, <1>2 DEF FiringInv

(* A step that writes the record and starts no run. *)
LEMMA FiringsWritten ==
  ASSUME FiringInv, UNCHANGED <<fired, crashes, clock>>, clock \in Nat, NEW n, NEW over \in BOOLEAN,
         lost => lost', ~lost' => ~lost /\ Wrote(n, over),
         \A j \in Jobs : /\ Busy(j) => Busy(j)' \/ over
                         /\ jobs'[j].phase = "spawned" =>
                              /\ jobs[j].phase = "spawned" /\ jobs'[j].firing = jobs[j].firing
                              /\ jobs'[j].beside = jobs[j].beside
  PROVE  FiringInv'
<1>1. SpawnedIsNew' /\ FiredIsPast'
  BY DEF FiringInv, SpawnedIsNew, FiredIsPast
<1>2. FiredIsRecorded'
  <2> SUFFICES ASSUME crashes = 0, ~lost',
                      row'.next \in fired \/ (row'.kind = "once" /\ fired # {} /\ ~row'.attempted)
               PROVE  \E j \in Jobs : Busy(j)'
    BY DEF FiredIsRecorded
  <2>1. ~lost /\ Wrote(n, over)
    OBVIOUS
  <2>2. \A m \in fired : m \in Nat /\ ~(m > clock)
    BY DEF FiringInv, FiredIsPast
  <2>3. None \notin Nat
    BY AutomationsAssumption
  <2>4. row'.kind = "once" /\ ~row'.attempted /\ fired # {}
    BY <2>1, <2>2, <2>3 DEF Wrote
  <2>5. row # None /\ row.kind = "once" /\ ~row.attempted /\ ~over
    BY <2>1, <2>4 DEF Wrote
  <2> QED
    BY <2>1, <2>4, <2>5 DEF FiringInv, FiredIsRecorded
<1> QED
  BY <1>1, <1>2 DEF FiringInv

LEMMA FiringStep ==
  ASSUME IInv, FiringInv, [Next]_vars PROVE FiringInv'
<1> USE DEF wakeVars, consentVars
<1>1. /\ jobs \in [Jobs -> JobType] /\ clock \in Nat /\ row \in Records
      /\ row # None => row.next \in Times
  BY AutomationsAssumption DEF IInv, TypeOK, JobType, Records, Record
<1>2. CASE UNCHANGED <<row, jobs, fired, lost, crashes, clock>>
  BY <1>2, FiringsKept DEF Busy
<1>3. CASE Advance
  <2>1. clock' = clock + 1 /\ UNCHANGED <<row, jobs, fired, lost, crashes>>
    BY <1>3 DEF Advance
  <2> QED
    BY <1>1, <2>1 DEF FiringInv, FiredIsRecorded, SpawnedIsNew, FiredIsPast, Busy
<1>4. CASE Tick
  <2>1. UNCHANGED <<row, fired, lost, crashes, clock>> /\ \A k \in Jobs : jobs[k].phase # "spawned"
    BY <1>4 DEF Tick
  <2>2. CASE ~IsDue
    BY <1>2, <1>4, <2>1, <2>2 DEF Tick
  <2>3. CASE IsDue
    <3> DEFINE beside == \E k \in Jobs : jobs[k].phase # "free"
    <3>1. row # None /\ row.next # None /\ row.next <= clock
      BY <2>3 DEF IsDue
    <3>2. row.next \in Nat
      BY <1>1, <3>1, AutomationsAssumption DEF Times
    <3>3. PICK j \in Jobs :
            /\ jobs[j].phase = "free"
            /\ jobs' = [jobs EXCEPT ![j] = [NoJob EXCEPT !.phase = "spawned", !.firing = row.next,
                                                         !.beside = beside]]
      BY <1>4, <2>3 DEF Tick, FirstFree
    <3>4. beside \in BOOLEAN /\ (~beside => \A k \in Jobs : jobs[k].phase = "free")
      OBVIOUS
    <3> HIDE DEF beside
    <3>5. /\ jobs'[j].phase = "spawned" /\ jobs'[j].firing = row.next /\ jobs'[j].beside = beside
          /\ \A k \in Jobs \ {j} : jobs'[k] = jobs[k]
      BY <1>1, <3>3 DEF NoJob
    <3>6. \A k \in Jobs : Busy(k) => Busy(k)'
      BY <3>3, <3>5 DEF Busy
    <3>7. FiredIsRecorded'
      BY <2>1, <3>6 DEF FiringInv, FiredIsRecorded
    <3>8. FiredIsPast'
      BY <2>1, <3>1, <3>2, <3>5 DEF FiringInv, FiredIsPast
    <3>9. ~beside /\ crashes = 0 /\ ~lost => row.next \notin fired
      BY <3>1, <3>4 DEF FiringInv, FiredIsRecorded, Busy
    <3>10. SpawnedIsNew'
      BY <2>1, <3>5, <3>9 DEF SpawnedIsNew
    <3> QED
      BY <3>7, <3>8, <3>10 DEF FiringInv
  <2> QED
    BY <2>2, <2>3
<1>5. ASSUME NEW j \in Jobs, JobStart(j) PROVE FiringInv'
  <2>1. CASE guard
    <3>1. /\ jobs[j].phase = "spawned" /\ jobs'[j].phase = "free"
          /\ \A k \in Jobs \ {j} : jobs'[k] = jobs[k]
      BY <1>1, <1>5, <2>1 DEF JobStart, NoJob
    <3>2. UNCHANGED <<row, fired, lost, crashes, clock>>
      BY <1>5, <2>1 DEF JobStart
    <3>3. \A k \in Jobs : /\ Busy(k) => Busy(k)'
                          /\ jobs'[k].phase = "spawned" => jobs'[k] = jobs[k]
      BY <3>1 DEF Busy
    <3> QED
      BY <3>2, <3>3, FiringsKept
  <2>2. CASE ~guard
    <3>1. /\ jobs[j].phase = "spawned" /\ jobs'[j].phase = "running"
          /\ \A k \in Jobs \ {j} : jobs'[k] = jobs[k]
          /\ fired' = fired \cup {jobs[j].firing} /\ UNCHANGED <<row, lost, crashes, clock>>
      BY <1>1, <1>5, <2>2 DEF JobStart, NoJob
    <3>2. Busy(j)'
      BY <3>1 DEF Busy
    <3>3. \A k \in Jobs : jobs'[k].phase # "spawned"
      BY <3>1 DEF FiringInv, SpawnedIsNew
    <3> QED
      BY <3>1, <3>2, <3>3 DEF FiringInv, FiredIsRecorded, SpawnedIsNew, FiredIsPast
  <2> QED
    BY <2>1, <2>2
<1>6. ASSUME NEW j \in Jobs, JobFetch(j) PROVE FiringInv'
  <2>1. /\ jobs[j].phase = "fetching"
        /\ (jobs'[j].phase = "free" /\ row = None) \/ jobs'[j].phase = "saving"
        /\ \A k \in Jobs \ {j} : jobs'[k] = jobs[k]
    BY <1>1, <1>6 DEF JobFetch, NoJob, JobType
  <2>2. \A k \in Jobs : /\ Busy(k) => Busy(k)' \/ row = None
                        /\ jobs'[k].phase = "spawned" => jobs'[k] = jobs[k]
    BY <2>1 DEF Busy
  <2> QED
    BY <1>6, <2>2, FiringsKept DEF JobFetch
<1>7. ASSUME NEW j \in Jobs, NEW ok \in BOOLEAN, RunnerDone(j, ok) PROVE FiringInv'
  <2>1. /\ jobs'[j].phase = "fetching" /\ \A k \in Jobs \ {j} : jobs'[k] = jobs[k]
    BY <1>1, <1>7 DEF RunnerDone, JobType
  <2>2. \A k \in Jobs : /\ Busy(k) => Busy(k)'
                        /\ jobs'[k].phase = "spawned" => jobs'[k] = jobs[k]
    BY <2>1 DEF Busy
  <2> QED
    BY <1>7, <2>2, FiringsKept DEF RunnerDone
<1>8. ASSUME NEW j \in Jobs, JobSave(j) PROVE FiringInv'
  <2>1. /\ jobs'[j].phase = "free" /\ \A k \in Jobs \ {j} : MarkedJob(jobs[k], jobs'[k])
    BY <1>1, <1>8, MarkedJobs, OutdatedTypes DEF IInv, JobSave, NoJob
  <2>2. \A k \in Jobs : jobs'[k].phase = "spawned" =>
                          /\ jobs[k].phase = "spawned" /\ jobs'[k].firing = jobs[k].firing
                          /\ jobs'[k].beside = jobs[k].beside
    BY <2>1 DEF MarkedJob
  <2>3. UNCHANGED <<fired, crashes, clock>> /\ (lost => lost')
    BY <1>8 DEF JobSave
  <2>4. ~lost' => ~lost /\ Wrote(IF jobs[j].ok THEN 1 ELSE 0, TRUE)
    BY <1>8, JobSaveWrote
  <2> QED
    BY <1>1, <2>2, <2>3, <2>4, FiringsWritten
<1>9. ASSUME NEW q \in Requests, NEW rec, Put(q, rec)
      PROVE  /\ lost => lost'
             /\ \A k \in Jobs : /\ Busy(k) => Busy(k)'
                                /\ jobs'[k].phase = "spawned" =>
                                     /\ jobs[k].phase = "spawned" /\ jobs'[k].firing = jobs[k].firing
                                     /\ jobs'[k].beside = jobs[k].beside
  <2>1. \A k \in Jobs : MarkedJob(jobs[k], jobs'[k])
    BY <1>9, MarkedJobs, NoneIsNobody DEF IInv, Put
  <2> QED
    BY <1>9, <2>1 DEF Busy, MarkedJob, Put
<1>10. ASSUME NEW q \in Requests, SaveEdit(q) PROVE FiringInv'
  <2>1. ~lost' => ~lost /\ Wrote(0, FALSE)
    BY <1>10, SaveEditWrote
  <2>2. PICK rec : Put(q, rec) /\ UNCHANGED <<fired, crashes, clock>>
    BY <1>10 DEF SaveEdit
  <2> QED
    BY <1>1, <1>9, <2>1, <2>2, FiringsWritten
<1>11. ASSUME NEW q \in Requests, SaveFinalize(q) PROVE FiringInv'
  <2>1. ~lost' => ~lost /\ Wrote(1, TRUE)
    BY <1>11, SaveFinalizeWrote
  <2>2. PICK rec : Put(q, rec) /\ UNCHANGED <<fired, crashes, clock>>
    BY <1>11 DEF SaveFinalize
  <2> QED
    BY <1>1, <1>9, <2>1, <2>2, FiringsWritten
<1>12. CASE Delete
  <2>1. \A k \in Jobs : MarkedJob(jobs[k], jobs'[k])
    BY <1>12, MarkedJobs, NoneIsNobody DEF IInv, Delete
  <2>2. row' = None /\ UNCHANGED <<fired, crashes, clock, lost>>
    BY <1>12 DEF Delete
  <2> QED
    BY <2>1, <2>2 DEF FiringInv, FiredIsRecorded, SpawnedIsNew, FiredIsPast, MarkedJob
<1>13. CASE Crash
  <2>1. crashes' # 0 /\ (\A k \in Jobs : jobs'[k].phase = "free") /\ UNCHANGED <<fired, clock>>
    BY <1>13 DEF Crash, IInv, TypeOK, NoJob
  <2> QED
    BY <2>1 DEF FiringInv, FiredIsRecorded, SpawnedIsNew, FiredIsPast
<1> QED
  BY <1>2, <1>3, <1>4, <1>5, <1>6, <1>7, <1>8, <1>10, <1>11, <1>12, <1>13
     DEF Next, JobStep, vars, EndWake, JobExits, PrepareManual, Get, GetFinalize

-----------------------------------------------------------------------------
(* Wakes. *)

(* A tick resumes each wake that is to fire once; a wake is delivered once *)
(* for its firing and once for each crash that cut its turn.               *)
AtHead(w) == waking # <<>> /\ Head(waking) = w
WakeInv ==
  /\ IsInjective(waking)
  /\ \A i \in DOMAIN waking : wakes[waking[i]] # "fired"
  /\ \A w \in Wakes : delivered[w] <= IF wakes[w] = "fired" \/ AtHead(w) THEN crashes + 1 ELSE crashes

(* The head of a new line of wakes is delivered. *)
LEMMA DeliverStep ==
  ASSUME TypeOK, NEW ws \in Seq(Wakes), Deliver(ws), IsInjective(ws), UNCHANGED crashes,
         \A i \in DOMAIN ws : wakes'[ws[i]] # "fired",
         \A w \in Wakes : delivered[w] <= IF wakes'[w] = "fired" THEN crashes + 1 ELSE crashes
  PROVE  WakeInv'
<1>1. waking' = ws /\ delivered \in [Wakes -> Nat] /\ crashes \in Nat
  BY DEF Deliver, TypeOK
<1>2. CASE ws = <<>>
  BY <1>1, <1>2 DEF Deliver, WakeInv, AtHead
<1>3. CASE ws # <<>>
  <2>1. Head(ws) \in Wakes /\ Head(ws) = ws[1] /\ 1 \in DOMAIN ws
    BY <1>3, HeadTailProperties
  <2>2. delivered' = [delivered EXCEPT ![Head(ws)] = delivered[Head(ws)] + 1]
    BY <1>3 DEF Deliver
  <2>3. wakes'[Head(ws)] # "fired" /\ delivered[Head(ws)] <= crashes
    BY <2>1
  <2>4. \A w \in Wakes : AtHead(w)' <=> w = Head(ws)
    BY <1>1, <1>3 DEF AtHead
  <2>5. ASSUME NEW w \in Wakes
        PROVE  delivered'[w] <= IF wakes'[w] = "fired" \/ AtHead(w)' THEN crashes + 1 ELSE crashes
    <3>1. CASE w = Head(ws)
      <4>1. delivered'[w] = delivered[w] + 1 /\ delivered[w] \in Nat
        BY <1>1, <2>2, <3>1
      <4> QED
        BY <1>1, <2>3, <2>4, <3>1, <4>1
    <3>2. CASE w # Head(ws)
      <4>1. delivered'[w] = delivered[w] /\ ~AtHead(w)'
        BY <1>1, <2>1, <2>2, <2>4, <3>2
      <4> QED
        BY <4>1
    <3> QED
      BY <3>1, <3>2
  <2> QED
    BY <1>1, <2>5 DEF WakeInv
<1> QED
  BY <1>2, <1>3

LEMMA LinedUpOnce ==
  ASSUME NEW S, IsFiniteSet(S)
  PROVE  IsInjective(SetToSeq(S)) /\ \A i \in DOMAIN SetToSeq(S) : SetToSeq(S)[i] \in S
<1> DEFINE n == Cardinality(S)
<1>1. n \in Nat /\ ExistsBijection(1..n, S)
  BY FS_CardinalityType
<1> HIDE DEF n
<1>2. \E f \in [1..n -> S] : IsInjective(f)
  BY <1>1 DEF ExistsBijection, Bijection, Injection, Surjection, IsInjective
<1>3. SetToSeq(S) \in [1..n -> S] /\ IsInjective(SetToSeq(S))
  BY <1>2 DEF SetToSeq, n
<1> QED
  BY <1>3

LEMMA WakeStep ==
  ASSUME IInv, WakeInv, [Next]_vars PROVE WakeInv'
<1> USE DEF wakeVars, consentVars
<1>1. /\ waking \in Seq(Wakes) /\ delivered \in [Wakes -> Nat] /\ crashes \in Nat /\ TypeOK
      /\ wakes \in [Wakes -> {"pending", "due", "fired"}]
  BY DEF IInv, TypeOK
<1>2. CASE UNCHANGED <<wakes, waking, delivered, crashes>>
  BY <1>2 DEF WakeInv, AtHead
<1>3. CASE Tick
  <2> DEFINE ws == SetToSeq(DueWakes)
  <2>1. IsFiniteSet(DueWakes) /\ DueWakes \subseteq Wakes
    BY AutomationsAssumption, FS_Subset DEF DueWakes
  <2>2. ws \in Seq(DueWakes) /\ IsInjective(ws) /\ \A i \in DOMAIN ws : ws[i] \in DueWakes
    BY <2>1, LinedUp, LinedUpOnce
  <2>3. Deliver(ws) /\ UNCHANGED <<wakes, crashes>> /\ waking = <<>>
    BY <1>3 DEF Tick
  <2> HIDE DEF ws
  <2>4. ws \in Seq(Wakes)
    BY <2>1, <2>2
  <2>5. \A w \in DueWakes : wakes[w] # "fired"
    BY DEF DueWakes
  <2>6. \A w \in Wakes : delivered[w] <= IF wakes[w] = "fired" THEN crashes + 1 ELSE crashes
    BY <2>3 DEF WakeInv, AtHead
  <2> QED
    BY <1>1, <2>2, <2>3, <2>4, <2>5, <2>6, DeliverStep
<1>4. ASSUME NEW w \in Wakes, EndWake(w) PROVE WakeInv'
  <2> DEFINE ws == Tail(waking)
  <2>1. /\ waking # <<>> /\ w = Head(waking) /\ Deliver(ws) /\ UNCHANGED crashes
        /\ wakes' = [wakes EXCEPT ![w] = "fired"]
    BY <1>4 DEF EndWake
  <2>2. /\ ws \in Seq(Wakes) /\ w = waking[1] /\ Len(waking) \in Nat /\ Len(waking) > 0
        /\ DOMAIN ws = 1..(Len(waking) - 1) /\ \A i \in DOMAIN ws : ws[i] = waking[i + 1]
    BY <1>1, <2>1, HeadTailProperties
  <2> HIDE DEF ws
  <2>3. \A i \in DOMAIN ws : i + 1 \in DOMAIN waking /\ 1 \in DOMAIN waking /\ i + 1 # 1
    BY <1>1, <2>2
  <2>4. IsInjective(ws) /\ \A i \in DOMAIN ws : ws[i] # w /\ wakes[ws[i]] # "fired"
    BY <2>2, <2>3 DEF WakeInv, IsInjective
  <2>5. \A i \in DOMAIN ws : ws[i] \in Wakes
    BY <2>2
  <2>6. \A i \in DOMAIN ws : wakes'[ws[i]] # "fired"
    BY <1>1, <2>1, <2>4, <2>5
  <2>7. \A v \in Wakes : delivered[v] <= IF wakes'[v] = "fired" THEN crashes + 1 ELSE crashes
    BY <1>1, <2>1 DEF WakeInv, AtHead
  <2> QED
    BY <1>1, <2>1, <2>2, <2>4, <2>6, <2>7, DeliverStep
<1>5. CASE Crash
  <2>1. waking' = <<>> /\ crashes' = crashes + 1 /\ UNCHANGED <<wakes, delivered>>
    BY <1>5 DEF Crash
  <2>2. \A w \in Wakes : delivered[w] \in Nat /\ delivered[w] <= crashes + 1
    BY <1>1 DEF WakeInv
  <2>3. \A w \in Wakes : ~AtHead(w)'
    BY <2>1 DEF AtHead
  <2>4. \A w \in Wakes : delivered'[w] <= IF wakes'[w] = "fired" \/ AtHead(w)' THEN crashes' + 1
                                                                            ELSE crashes'
    BY <1>1, <2>1, <2>2, <2>3
  <2> QED
    BY <2>1, <2>4 DEF WakeInv, IsInjective
<1> QED
  BY <1>2, <1>3, <1>4, <1>5
     DEF Next, JobStep, vars, Advance, JobExits, JobStart, JobFetch, JobSave, RunnerDone, Get,
         SaveEdit, GetFinalize, SaveFinalize, Put, Delete, PrepareManual

-----------------------------------------------------------------------------
(* The first state, and the theorems. *)

LEMMA InitIInv == Init => IInv /\ NoOverlap /\ DecisionsStick
<1> SUFFICES ASSUME Init PROVE IInv /\ NoOverlap /\ DecisionsStick
  OBVIOUS
<1> USE AutomationsAssumption DEF Init
<1>1. row \in Record
  <2>1. PICK kind \in {"once", "cron"} :
          row = Saved([enabled |-> TRUE, kind |-> kind, next |-> None, count |-> 0,
                       attempted |-> FALSE, granted |-> TRUE])
    OBVIOUS
  <2>2. [enabled |-> TRUE, kind |-> kind, next |-> None, count |-> 0,
         attempted |-> FALSE, granted |-> TRUE] \in Record
    BY DEF Record, Times
  <2>3. clock \in Nat
    OBVIOUS
  <2> QED
    BY <2>1, <2>2, <2>3, SavedType
<1>2. TypeOK
  <2>1. jobs \in [Jobs -> JobType] /\ reqs \in [Requests -> ReqType]
    BY FreeTypes
  <2>2. waking \in Seq(Wakes) /\ delivered \in [Wakes -> Nat]
        /\ wakes \in [Wakes -> {"pending", "due", "fired"}]
    BY EmptySeq
  <2>3. /\ clock \in 0..MaxTime /\ edits \in 0..MaxEdits /\ crashes \in 0..MaxCrashes
    <3>1. MaxTime \in Nat /\ MaxEdits \in Nat /\ MaxCrashes \in Nat
      OBVIOUS
    <3> QED
      BY <3>1
  <2>4. /\ manual \in {"none", "running", "ok"} /\ guard \in BOOLEAN
        /\ exited \subseteq JobWakes /\ fired \subseteq Slots /\ oks \in Nat
    OBVIOUS
  <2>5. {revoked, deleted, lost} \subseteq BOOLEAN
    BY Zenon
  <2> QED
    BY <1>1, <2>1, <2>2, <2>3, <2>4, <2>5 DEF TypeOK, JobType, ReqType, Records
<1>3. CopiesAreCurrent /\ FiringsAreKnown /\ NoOverlap
  BY DEF CopiesAreCurrent, FiringsAreKnown, NoOverlap, NoJob, NoReq
<1>4. DecisionsStick
  BY DEF DecisionsStick
<1> QED
  BY <1>2, <1>3, <1>4 DEF IInv

LEMMA Inductive == Spec => []IInv
<1>1. Init => IInv
  BY InitIInv
<1>2. IInv /\ [Next]_vars => IInv'
  BY TypeStep, CopiesStep DEF IInv
<1> QED
  BY <1>1, <1>2, PTL DEF Spec

(* Every variable of the scheduler, its task and its wakes keeps the       *)
(* values it is meant to have, for any schedule, edits and crashes.        *)
THEOREM TypeCorrect == Spec => []TypeOK
<1>1. IInv => TypeOK
  BY DEF IInv
<1> QED
  BY <1>1, Inductive, PTL

(* _running_ids is enough: two scheduled runs of a task never overlap,     *)
(* whatever the number of run_task coroutines, and the guard outlives no   *)
(* run.                                                                    *)
THEOREM RunsDoNotOverlap == Spec => []NoOverlap
<1>1. Init => NoOverlap
  BY InitIInv
<1>2. IInv /\ NoOverlap /\ [Next]_vars => NoOverlap'
  BY OverlapStep
<1> QED
  BY <1>1, <1>2, Inductive, PTL DEF Spec

(* A revoked grant or a deleted task comes back only by a save that        *)
(* overwrites a row it has not seen, for any number of requests and runs.  *)
THEOREM DecisionsHold == Spec => []DecisionsStick
<1>1. Init => DecisionsStick
  BY InitIInv
<1>2. IInv /\ DecisionsStick /\ [Next]_vars => DecisionsStick'
  BY DecisionsStep
<1> QED
  BY <1>1, <1>2, Inductive, PTL DEF Spec

(* run_count plus the runs that ended well and are still to be recorded is *)
(* the number of runs that ended well, scheduled or manual.                *)
THEOREM RunsAreCounted == Spec => []CountIsRuns
<1>1. Init => Counted
  <2> SUFFICES ASSUME Init PROVE Counted
    OBVIOUS
  <2>1. row \in Record /\ row.count = 0
    <3>1. PICK kind \in {"once", "cron"} :
            row = Saved([enabled |-> TRUE, kind |-> kind, next |-> None, count |-> 0,
                         attempted |-> FALSE, granted |-> TRUE])
      BY DEF Init
    <3> DEFINE rec == [enabled |-> TRUE, kind |-> kind, next |-> None, count |-> 0,
                       attempted |-> FALSE, granted |-> TRUE]
    <3>2. rec \in Record /\ rec.count = 0 /\ clock \in Nat
      BY DEF Record, Times, Init
    <3> HIDE DEF rec
    <3>3. row = Saved(rec)
      BY <3>1 DEF rec
    <3> QED
      BY <3>2, <3>3, SavedType, SavedIs
  <2>2. Uncounted = {}
    BY DEF Init, Uncounted, ToCount, NoJob
  <2> QED
    BY <2>1, <2>2, FS_EmptySet DEF Counted, Init
<1>2. IInv /\ Counted /\ [Next]_vars => Counted'
  BY CountStep
<1>3. Counted => CountIsRuns
  BY DEF Counted, CountIsRuns, Uncounted, ToCount
<1> QED
  BY <1>1, <1>2, <1>3, Inductive, PTL DEF Spec

(* A firing starts one run unless a crash cut it, an edit undid its record *)
(* or the tick that spawned the second came beside the first.              *)
THEOREM FiringsStartOnce == Spec => FiringStartsOnce
<1>1. Init => FiringInv
  BY DEF Init, FiringInv, FiredIsRecorded, SpawnedIsNew, FiredIsPast, NoJob
<1>2. IInv /\ FiringInv /\ [Next]_vars => FiringInv'
  BY FiringStep
<1>3. IInv /\ FiringInv => [\A j \in Jobs :
                      /\ jobs[j].phase = "spawned" /\ jobs'[j].phase = "running"
                      /\ jobs[j].firing \in fired
                      => crashes > 0 \/ lost \/ jobs[j].beside]_vars
  <2>1. IInv => crashes \in Nat
    BY AutomationsAssumption DEF IInv, TypeOK
  <2> QED
    BY <2>1 DEF FiringInv, SpawnedIsNew
<1> QED
  BY <1>1, <1>2, <1>3, Inductive, PTL DEF Spec, FiringStartsOnce

(* Only a crash delivers a wake twice. *)
THEOREM WakesOnce == Spec => []WakesFireOnce
<1>1. Init => WakeInv
  BY DEF Init, WakeInv, AtHead, IsInjective
<1>2. IInv /\ WakeInv /\ [Next]_vars => WakeInv'
  BY WakeStep
<1>3. IInv /\ WakeInv => WakesFireOnce
  <2>1. IInv => delivered \in [Wakes -> Nat] /\ crashes \in Nat
    BY DEF IInv, TypeOK
  <2> QED
    BY <2>1 DEF WakeInv, WakesFireOnce
<1> QED
  BY <1>1, <1>2, <1>3, Inductive, PTL DEF Spec

=============================================================================
