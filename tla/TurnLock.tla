------------------------------ MODULE TurnLock ------------------------------
(***************************************************************************)
(* What a session promises about its engine (manager.try_mark_running,     *)
(* mark_idle, force_idle): the engine is used by one run at a time, and    *)
(* the thread only ever grows, by the hand of the run that holds the       *)
(* engine.  The promise is void once a live claim was cleared from         *)
(* outside; that the thread only grows is kept even then.                  *)
(***************************************************************************)
EXTENDS Sequences, SequencesExt

CONSTANTS
  Runs,   (* the runs that may use the engine *)
  Idle    (* the engine is free               *)

VARIABLES
  holder,  (* the run on the engine, or Idle  *)
  broken,  (* a live claim was cleared        *)
  thread   (* the user's messages so far      *)

vars == <<holder, broken, thread>>

Init ==
  /\ holder = Idle
  /\ broken = FALSE
  /\ thread = <<>>

(* A free engine is taken, with or without a first message. *)
Acquire(r) ==
  /\ holder = Idle
  /\ holder' = r
  /\ IsPrefix(thread, thread')
  /\ UNCHANGED broken

(* The run that holds the engine adds messages. *)
Write ==
  /\ holder # Idle
  /\ IsPrefix(thread, thread')
  /\ UNCHANGED <<holder, broken>>

Release ==
  /\ holder # Idle
  /\ holder' = Idle
  /\ UNCHANGED <<broken, thread>>

Break ==
  /\ broken' = TRUE
  /\ UNCHANGED <<holder, thread>>

(* After that, runs may overlap, and the thread still only grows. *)
Overlap ==
  /\ broken
  /\ holder' \in Runs \cup {Idle}
  /\ IsPrefix(thread, thread')
  /\ UNCHANGED broken

Next == (\E r \in Runs : Acquire(r)) \/ Write \/ Release \/ Break \/ Overlap

Spec == Init /\ [][Next]_vars

=============================================================================
