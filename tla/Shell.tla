-------------------------------- MODULE Shell --------------------------------
(***************************************************************************)
(* The persistent shell of a session (LocalExecutor on a POSIX system).    *)
(* run() writes a command and a trailer that prints a marker to the shell's *)
(* standard input and reads a queue until the marker comes; a reader       *)
(* thread per shell process fills the queue from its standard output.      *)
(*                                                                         *)
(* The reader puts into the executor's CURRENT queue, and a child of a     *)
(* closed shell keeps the shell's output open: both matter below.  Every   *)
(* command prints one marker that looks the same for all; "of" says whose  *)
(* it is, which the code cannot see.                                       *)
(***************************************************************************)
EXTENDS Naturals, Sequences, FiniteSets, Functions

CONSTANTS
  MaxCommands, \* bound: calls of run(), numbered
  Kinds,       \* of commands: "plain", "forks", "eats", "exits"
  MaxShells    \* bound: shell processes

(* What the constants are; Services assumes it. *)
ShellAssumption ==
  /\ MaxShells \in Nat \ {0} /\ MaxCommands \in Nat
  /\ "plain" \in Kinds /\ Kinds \subseteq {"plain", "forks", "eats", "exits"}

None == "none"
Shells == 1..MaxShells
Commands == 1..MaxCommands

VARIABLES
  shell,     (* the shell processes; "dying" has a SIGTERM on its way *)
  cur,       (* the executor's process *)
  input,     (* what a shell has not read yet: commands and trailers *)
  fg,        (* the command a shell waits for *)
  holds,     (* the processes that keep a shell's output open *)
  signalled, (* commands that were sent SIGINT *)
  printed,   (* commands that have printed their line *)
  kind,      (* what a command does; None before it is run *)
  done,      (* shells whose reader has put its end of file *)
  queue,     (* the executor's queue *)
  abort,     (* the event that a Stop sets *)
  call,      (* run() under way *)
  result,    (* what run() returned for each command *)
  poisoned   (* history: how a queue got what a closed shell had put there *)

vars == <<shell, cur, input, fg, holds, signalled, printed, kind, done, queue,
          abort, call, result, poisoned>>

NoCall == [cmd |-> 0, phase |-> None, late |-> FALSE, lines |-> {}]
NoResult == [end |-> None, marker |-> 0, lines |-> {}]
Item(what, c) == [what |-> what, of |-> c]

TypeOK ==
  /\ shell \in [Shells -> {"unborn", "up", "dying", "gone"}] /\ cur \in Shells
  /\ \A s \in Shells : \A i \in DOMAIN input[s] :
       input[s][i] \in [what : {"command", "trailer"}, of : Commands]
  /\ fg \in [Shells -> 0..MaxCommands] /\ holds \in [Shells -> SUBSET Commands]
  /\ signalled \subseteq Commands /\ printed \subseteq Commands
  /\ kind \in [Commands -> Kinds \cup {None}] /\ done \subseteq Shells
  /\ \A i \in DOMAIN queue :
       queue[i] \in [what : {"line", "marker", "eof"}, of : 0..MaxCommands]
  /\ abort \in BOOLEAN /\ poisoned \subseteq {"hasty", "former"}
  /\ call \in [cmd : 0..MaxCommands, phase : {None, "reading", "grace"},
               late : BOOLEAN, lines : SUBSET Commands]
  /\ result \in [Commands -> [end : {None, "marker", "eof", "stopped", "wedged", "broken"},
                              marker : 0..MaxCommands, lines : SUBSET Commands]]

Init ==
  /\ shell = [s \in Shells |-> IF s = 1 THEN "up" ELSE "unborn"] /\ cur = 1
  /\ input = [s \in Shells |-> <<>>] /\ fg = [s \in Shells |-> 0]
  /\ holds = [s \in Shells |-> {}] /\ signalled = {} /\ printed = {}
  /\ kind = [c \in Commands |-> None] /\ done = {} /\ queue = <<>>
  /\ abort = FALSE /\ call = NoCall /\ result = [c \in Commands |-> NoResult]
  /\ poisoned = {}

-----------------------------------------------------------------------------
(* The processes: external. *)

(* A reader thread puts what its shell's output carries into the queue     *)
(* that the executor has by then.                                          *)
Put(s, item) ==
  /\ queue' = Append(queue, item)
  /\ poisoned' = IF s = cur THEN poisoned ELSE poisoned \cup {"former"}

(* The shell takes the next line of its input: it starts a command, or it  *)
(* prints the marker with the exit status and the directory.               *)
ShellReads(s) ==
  /\ shell[s] \in {"up", "dying"} /\ fg[s] = 0 /\ input[s] # <<>>
  /\ input' = [input EXCEPT ![s] = IF Head(@).what = "command" /\ kind[Head(@).of] = "exits"
                                   THEN <<>> ELSE Tail(@)]
  /\ LET next == Head(input[s]) IN
     \/ /\ next.what = "trailer"
        /\ Put(s, Item("marker", next.of))
        /\ UNCHANGED <<shell, fg, holds>>
     \/ /\ next.what = "command" /\ kind[next.of] = "exits"
        /\ shell' = [shell EXCEPT ![s] = "gone"]
        /\ UNCHANGED <<fg, holds, queue, poisoned>>
     \/ /\ next.what = "command" /\ kind[next.of] # "exits"
        /\ fg' = [fg EXCEPT ![s] = next.of]
        /\ holds' = [holds EXCEPT ![s] = @ \cup {next.of}]
        /\ UNCHANGED <<shell, queue, poisoned>>
  /\ UNCHANGED <<cur, signalled, printed, kind, done, abort, call, result>>

(* A command that reads its input takes the shell's, trailer and all.      *)
Eats(s) ==
  /\ fg[s] # 0 /\ kind[fg[s]] = "eats" /\ shell[s] = "up" /\ input[s] # <<>>
  /\ input' = [input EXCEPT ![s] = Tail(@)]
  /\ UNCHANGED <<shell, cur, fg, holds, signalled, printed, kind, done, queue, abort,
                 call, result, poisoned>>

(* A process that is still there, if only as an orphan, prints its line.   *)
Prints(s, c) ==
  /\ c \in holds[s] \ printed
  /\ printed' = printed \cup {c}
  /\ Put(s, Item("line", c))
  /\ UNCHANGED <<shell, cur, input, fg, holds, signalled, kind, done, abort, call, result>>

(* The command the shell waits for ends: in its own time, or because of    *)
(* SIGINT; one that waits for input ends only then.  What it left in the   *)
(* background stays.                                                       *)
Ends(s) ==
  /\ fg[s] # 0 /\ (kind[fg[s]] = "eats" => fg[s] \in signalled)
  /\ fg' = [fg EXCEPT ![s] = 0]
  /\ holds' = [holds EXCEPT ![s] = IF kind[fg[s]] = "forks" THEN @ ELSE @ \ {fg[s]}]
  /\ UNCHANGED <<shell, cur, input, signalled, printed, kind, done, queue, abort, call,
                 result, poisoned>>

(* A background process or the orphan of a closed shell ends.              *)
OrphanEnds(s, c) ==
  /\ c \in holds[s] /\ fg[s] # c
  /\ holds' = [holds EXCEPT ![s] = @ \ {c}]
  /\ UNCHANGED <<shell, cur, input, fg, signalled, printed, kind, done, queue, abort, call,
                 result, poisoned>>

(* SIGTERM reaches the shell, not its children.                            *)
Dies(s) ==
  /\ shell[s] = "dying"
  /\ shell' = [shell EXCEPT ![s] = "gone"]
  /\ input' = [input EXCEPT ![s] = <<>>] /\ fg' = [fg EXCEPT ![s] = 0]
  /\ UNCHANGED <<cur, holds, signalled, printed, kind, done, queue, abort, call, result,
                 poisoned>>

(* The reader sees the end of the output once nobody holds it.             *)
ReaderEnds(s) ==
  /\ shell[s] = "gone" /\ holds[s] = {} /\ s \notin done
  /\ done' = done \cup {s}
  /\ Put(s, Item("eof", 0))
  /\ UNCHANGED <<shell, cur, input, fg, holds, signalled, printed, kind, abort, call, result>>

-----------------------------------------------------------------------------
(* run *)

Idle == call = NoCall
NextCommand == 1 + Cardinality({c \in Commands : kind[c] # None})

(* A shell known to be gone is replaced, and the queue with it.  The stop  *)
(* event is cleared, so a Stop that came before is forgotten.              *)
Run(c) ==
  /\ Idle /\ c = NextCommand
  /\ \E k \in Kinds : kind' = [kind EXCEPT ![c] = k]
  /\ abort' = FALSE
  /\ call' = [NoCall EXCEPT !.cmd = c, !.phase = "reading"]
  /\ IF shell[cur] = "gone"
     THEN /\ cur < MaxShells /\ cur' = cur + 1
          /\ shell' = [shell EXCEPT ![cur'] = "up"]
          /\ queue' = <<>>
     ELSE UNCHANGED <<cur, shell, queue>>
  /\ input' = [input EXCEPT ![cur'] = @ \o <<Item("command", c), Item("trailer", c)>>]
  /\ poisoned' = IF shell[cur] = "dying" THEN poisoned \cup {"hasty"} ELSE poisoned
  /\ UNCHANGED <<fg, holds, signalled, printed, done, result>>

(* A shell that dies between the look and the write: the write raises.     *)
RunBroken(c) ==
  /\ Idle /\ c = NextCommand /\ shell[cur] = "dying"
  /\ kind' = [kind EXCEPT ![c] = "plain"]
  /\ shell' = [shell EXCEPT ![cur] = "gone"]
  /\ input' = [input EXCEPT ![cur] = <<>>] /\ fg' = [fg EXCEPT ![cur] = 0]
  /\ abort' = FALSE
  /\ result' = [result EXCEPT ![c].end = "broken"]
  /\ UNCHANGED <<cur, holds, signalled, printed, done, queue, call, poisoned>>

Return(end, marker) ==
  /\ result' = [result EXCEPT ![call.cmd] =
                  [end |-> end, marker |-> marker, lines |-> call.lines]]
  /\ call' = NoCall

(* An item: a line is kept, a marker or the end of file ends the call.     *)
(* After a Stop no more is read than the item that was being waited for.   *)
Take ==
  /\ ~Idle /\ ~call.late /\ queue # <<>>
  /\ queue' = Tail(queue)
  /\ LET item == Head(queue) IN
     \/ /\ item.what = "line"
        /\ call' = [call EXCEPT !.late = abort, !.lines = @ \cup {item.of}]
        /\ UNCHANGED result
     \/ item.what = "marker" /\ Return("marker", item.of)
     \/ item.what = "eof" /\ Return("eof", 0)
  /\ UNCHANGED <<shell, cur, input, fg, holds, signalled, printed, kind, done, abort, poisoned>>

Interrupt == signalled' = signalled \cup (IF shell[cur] = "up" THEN holds[cur] ELSE {})

(* The first deadline: SIGINT to the shell's children, and three seconds   *)
(* for the marker.                                                         *)
Deadline ==
  /\ call.phase = "reading" /\ ~abort
  /\ call' = [call EXCEPT !.phase = "grace"]
  /\ Interrupt
  /\ UNCHANGED <<shell, cur, input, fg, holds, printed, kind, done, queue, abort, result,
                 poisoned>>

TerminateNot == UNCHANGED shell
Terminate == shell' = [shell EXCEPT ![cur] = IF @ = "up" THEN "dying" ELSE @]

(* The second: the shell is closed.                                        *)
GraceOver ==
  /\ call.phase = "grace" /\ ~abort
  /\ Terminate
  /\ Return("wedged", 0)
  /\ UNCHANGED <<cur, input, fg, holds, signalled, printed, kind, done, queue, abort, poisoned>>

(* A Stop is a deadline that has passed, at every turn of the loop: SIGINT, *)
(* and the shell is closed at once.                                        *)
Stopped ==
  /\ ~Idle /\ abort
  /\ Interrupt
  /\ Terminate
  /\ Return("stopped", 0)
  /\ UNCHANGED <<cur, input, fg, holds, printed, kind, done, queue, abort, poisoned>>

(* The user's Stop.                                                        *)
Stop ==
  /\ ~abort /\ ~Idle /\ abort' = TRUE
  /\ UNCHANGED <<shell, cur, input, fg, holds, signalled, printed, kind, done, queue, call,
                 result, poisoned>>

Next ==
  \/ \E s \in Shells :
       \/ ShellReads(s) \/ Eats(s) \/ Ends(s) \/ Dies(s) \/ ReaderEnds(s)
       \/ \E c \in Commands : Prints(s, c) \/ OrphanEnds(s, c)
  \/ \E c \in Commands : Run(c) \/ RunBroken(c)
  \/ Take \/ Deadline \/ GraceOver \/ Stopped \/ Stop

Spec == Init /\ [][Next]_vars

-----------------------------------------------------------------------------
(* A call returns on its own command's marker and with no line of a        *)
(* foreground command but its own.                                         *)
Own(c) ==
  /\ result[c].marker \in {0, c}
  /\ \A d \in result[c].lines : d = c \/ kind[d] = "forks"

(* The stream stays in step with the commands through timeouts, Stops,     *)
(* commands that eat the trailer or end the shell, unless a reader of a    *)
(* former shell has written into its successor's queue, or a command was   *)
(* given to a shell that had been closed and was not yet gone.             *)
OutputIsOwn == poisoned = {} => \A c \in Commands : Own(c)

(* What the comment in run() says of closing the shell: it is done "so     *)
(* future commands don't desync".  (Leave the haste aside: the next        *)
(* command usually comes later than the end of the shell.)                 *)
ResultsStayInStep ==
  "hasty" \notin poisoned => \A c \in Commands : result[c].marker \in {0, c}

=============================================================================
