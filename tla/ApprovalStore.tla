---------------------------- MODULE ApprovalStore ----------------------------
(***************************************************************************)
(* The file of permanent approvals (approval_store.py).  The server and    *)
(* each engine hold a store of their own over the same file: reads are     *)
(* cached by the file's mtime, writes go through a lock that all stores of *)
(* the process share.  A store belongs to whoever uses it: an engine uses  *)
(* its own from one thread at a time, the server uses its own from all     *)
(* the threads that serve requests.                                        *)
(***************************************************************************)
EXTENDS Naturals, FiniteSets

CONSTANTS
  Stores,     (* ApprovalStore instances                                   *)
  Engines,    (* those of engines: one operation at a time                 *)
  Workers,    (* threads                                                   *)
  Grants,     (* tools, commands or tool and target pairs                  *)
  MaxWrites,  (* bound: mutations of the file                              *)
  NoWorker    (* the lock is free                                          *)

(* What the constants are; Engine assumes it. *)
StoreAssumption ==
  /\ Engines \subseteq Stores
  /\ Stores # {} /\ Grants # {}
  /\ NoWorker \notin Workers
  /\ MaxWrites \in Nat

VARIABLES
  file,     (* the grants on disk                                          *)
  mtime,    (* of the file; 0: there is none.  Each write has a new one    *)
  lock,     (* _LOCKS[path]                                                *)
  cache,    (* store._cache                                                *)
  stamp,    (* store._mtime; 0 for None                                    *)
  job,      (* what each thread does                                       *)
  ledger,   (* history: the grants the finished writes add up to           *)
  crossed   (* history: a load of a shared store put an old content over   *)
            (* its cache                                                   *)

past == <<ledger, crossed>>
storeVars == <<file, mtime, lock, cache, stamp, job, past>>

(* _load and then _mutate around it, one step per line that another thread *)
(* can come before.                                                        *)
Lines == {"free", "locking", "drop", "stat", "read", "cache", "stamp", "done",
          "copy", "replace", "adopt", "restamp", "unlock"}

(* saw: the mtime read; data: the content; seen: what the file has held    *)
(* since the operation began (history).                                    *)
Free == [line |-> "free", store |-> CHOOSE s \in Stores : TRUE, op |-> "load",
         grant |-> CHOOSE g \in Grants : TRUE, saw |-> 0, data |-> {}, seen |-> {}]

Goto(w, line) == job' = [job EXCEPT ![w].line = line]

-----------------------------------------------------------------------------

(* An engine is at one operation at a time. *)
Available(s) == s \in Engines => \A w \in Workers : job[w].line # "free" => job[w].store # s

(* evaluate, or the list of the Settings screen *)
BeginLoad(w, s) ==
  /\ job[w].line = "free"
  /\ Available(s)
  /\ job' = [job EXCEPT ![w] = [Free EXCEPT !.line = "stat", !.store = s,
                                            !.seen = {file}]]
  /\ UNCHANGED <<file, mtime, lock, cache, stamp, past>>

(* A grant from a prompt goes through the store of the prompt's engine, a  *)
(* revocation from the Settings screen through the server's.               *)
BeginMutate(w, s, op, g) ==
  /\ job[w].line = "free"
  /\ op = "grant" <=> s \in Engines
  /\ Available(s)
  /\ mtime < MaxWrites
  /\ job' = [job EXCEPT ![w] = [Free EXCEPT !.line = "locking", !.store = s,
                                            !.op = op, !.grant = g, !.seen = {file}]]
  /\ UNCHANGED <<file, mtime, lock, cache, stamp, past>>

(* Mutant of Lock: each store has a lock of its own. *)
LockOwn(w) ==
  /\ job[w].line = "locking"
  /\ \A v \in Workers \ {w} :
        job[v].store = job[w].store => job[v].op = "load" \/ job[v].line \in {"free", "locking"}
  /\ Goto(w, "drop")
  /\ UNCHANGED <<file, mtime, lock, cache, stamp, past>>

Lock(w) ==
  /\ job[w].line = "locking"
  /\ lock = NoWorker
  /\ lock' = w
  /\ Goto(w, "drop")
  /\ UNCHANGED <<file, mtime, cache, stamp, past>>

(* The cache is dropped: the file is read again inside the lock. *)
Drop(w) ==
  /\ job[w].line = "drop"
  /\ stamp' = [stamp EXCEPT ![job[w].store] = 0]
  /\ Goto(w, "stat")
  /\ UNCHANGED <<file, mtime, lock, cache, past>>

Loaded(w) == IF job[w].op = "load" THEN "done" ELSE "copy"

(* A missing file, a cache that is current, or a file to read. *)
Stat(w) ==
  LET s == job[w].store IN
  /\ job[w].line = "stat"
  /\ IF mtime = 0
     THEN /\ cache' = [cache EXCEPT ![s] = {}]
          /\ stamp' = [stamp EXCEPT ![s] = 0]
          /\ Goto(w, Loaded(w))
     ELSE /\ job' = [job EXCEPT ![w] =
                       [@ EXCEPT !.saw = mtime,
                                 !.line = IF mtime = stamp[s] THEN Loaded(w) ELSE "read"]]
          /\ UNCHANGED <<cache, stamp>>
  /\ UNCHANGED <<file, mtime, lock, past>>

Read(w) ==
  /\ job[w].line = "read"
  /\ job' = [job EXCEPT ![w] = [@ EXCEPT !.data = file, !.line = "cache"]]
  /\ UNCHANGED <<file, mtime, lock, cache, stamp, past>>

SetCache(w) ==
  /\ job[w].line = "cache"
  /\ cache' = [cache EXCEPT ![job[w].store] = job[w].data]
  /\ Goto(w, "stamp")
  /\ crossed' = (crossed \/ (job[w].data # file /\ job[w].store \notin Engines))
  /\ UNCHANGED <<file, mtime, lock, stamp, ledger>>

(* Mutant of SetStamp: the mtime is taken after the read. *)
SetStampLate(w) ==
  /\ job[w].line = "stamp"
  /\ stamp' = [stamp EXCEPT ![job[w].store] = mtime]
  /\ Goto(w, Loaded(w))
  /\ UNCHANGED <<file, mtime, lock, cache, past>>

SetStamp(w) ==
  /\ job[w].line = "stamp"
  /\ stamp' = [stamp EXCEPT ![job[w].store] = job[w].saw]
  /\ Goto(w, Loaded(w))
  /\ UNCHANGED <<file, mtime, lock, cache, past>>

(* The load returns what the cache then holds. *)
Done(w) ==
  /\ job[w].line = "done"
  /\ job' = [job EXCEPT ![w] = Free]
  /\ UNCHANGED <<file, mtime, lock, cache, stamp, past>>

Apply(op, g, S) == IF op = "grant" THEN S \cup {g} ELSE S \ {g}

(* The mutation works on a copy of what its own load left in the cache.    *)
Copy(w) ==
  /\ job[w].line = "copy"
  /\ job' = [job EXCEPT ![w] =
               [@ EXCEPT !.data = Apply(job[w].op, job[w].grant, cache[job[w].store]),
                         !.line = "replace"]]
  /\ UNCHANGED <<file, mtime, lock, cache, stamp, past>>

(* The temporary file takes the place of the file; every load under way    *)
(* may return the new content.                                             *)
Replace(w) ==
  /\ job[w].line = "replace"
  /\ mtime < MaxWrites
  /\ file' = job[w].data
  /\ mtime' = mtime + 1
  /\ ledger' = Apply(job[w].op, job[w].grant, ledger)
  /\ job' = [v \in Workers |->
               IF v = w THEN [job[w] EXCEPT !.line = "adopt"]
                        ELSE [job[v] EXCEPT !.seen = @ \cup {file'}]]
  /\ UNCHANGED <<lock, cache, stamp, crossed>>

(* The write failed: nothing is adopted, the cache stays dropped. *)
WriteFails(w) ==
  /\ job[w].line = "replace"
  /\ Goto(w, "unlock")
  /\ UNCHANGED <<file, mtime, lock, cache, stamp, past>>

Adopt(w) ==
  /\ job[w].line = "adopt"
  /\ cache' = [cache EXCEPT ![job[w].store] = job[w].data]
  /\ Goto(w, "restamp")
  /\ UNCHANGED <<file, mtime, lock, stamp, past>>

Restamp(w) ==
  /\ job[w].line = "restamp"
  /\ stamp' = [stamp EXCEPT ![job[w].store] = mtime]
  /\ Goto(w, "unlock")
  /\ UNCHANGED <<file, mtime, lock, cache, past>>

Unlock(w) ==
  /\ job[w].line = "unlock"
  /\ lock' = IF lock = w THEN NoWorker ELSE lock
  /\ job' = [job EXCEPT ![w] = Free]
  /\ UNCHANGED <<file, mtime, cache, stamp, past>>

-----------------------------------------------------------------------------

Init ==
  /\ file = {} /\ mtime = 0 /\ ledger = {} /\ crossed = FALSE
  /\ lock = NoWorker
  /\ cache = [s \in Stores |-> {}]
  /\ stamp = [s \in Stores |-> 0]
  /\ job = [w \in Workers |-> Free]

Begin(w) ==
  \E s \in Stores :
    \/ BeginLoad(w, s)
    \/ \E op \in {"grant", "revoke"}, g \in Grants : BeginMutate(w, s, op, g)

Step(w) ==
  \/ Lock(w) \/ Drop(w) \/ Stat(w) \/ Read(w) \/ SetCache(w) \/ SetStamp(w)
  \/ Done(w) \/ Copy(w) \/ Replace(w) \/ WriteFails(w) \/ Adopt(w) \/ Restamp(w) \/ Unlock(w)

Next == \E w \in Workers : Begin(w) \/ Step(w)

Spec == Init /\ [][Next]_storeVars

-----------------------------------------------------------------------------
(* Properties. *)

Job == [line : Lines, store : Stores, op : {"load", "grant", "revoke"},
        grant : Grants, saw : 0..MaxWrites, data : SUBSET Grants,
        seen : SUBSET (SUBSET Grants)]

(* The values each variable ranges over. *)
TypeOK ==
  /\ {file, ledger} \subseteq SUBSET Grants
  /\ mtime \in 0..MaxWrites
  /\ lock \in Workers \cup {NoWorker}
  /\ cache \in [Stores -> SUBSET Grants]
  /\ stamp \in [Stores -> 0..MaxWrites]
  /\ job \in [Workers -> Job]
  /\ crossed \in BOOLEAN

(* No writer drops another's grant or brings a revoked one back (_LOCKS:   *)
(* "an unsynchronized read-mutate-write pair could drop one writer's       *)
(* grant"), unless a load has put an old content over the cache of a store *)
(* that threads share; and an engine's check uses a content the file had   *)
(* while it was at it: a grant revoked before is gone from it.             *)
GrantsAreCurrent ==
  /\ file = ledger \/ crossed
  /\ \A w \in Workers : job[w].line = "done" /\ job[w].store \in Engines =>
        cache[job[w].store] \in job[w].seen

(* What the documentation says and the code does not do. *)

(* _mutate: "The lock serializes the whole read-mutate-write cycle".  A    *)
(* load takes no lock: it may put an old content over the cache between    *)
(* the read and the copy of a mutation of the same store.                  *)
NoWriteIsLost == file = ledger

=============================================================================
