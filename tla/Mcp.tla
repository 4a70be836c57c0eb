--------------------------------- MODULE Mcp ---------------------------------
(***************************************************************************)
(* The connections to MCP servers.  ensure() connects to a server under    *)
(* one lock for all of them: it starts a task that owns the connection     *)
(* (_serve) and waits for the task's word.  A connection that needs a      *)
(* sign-in opens the browser and waits for the redirect, if an explicit    *)
(* connect asked for it.  Reload closes what is open and cancels the tasks *)
(* that do not end by themselves.                                          *)
(***************************************************************************)
EXTENDS Naturals, Sequences, FiniteSets

CONSTANTS
  Servers,    \* MCP servers with OAuth
  Callers,    \* sessions that prepare their tools, and the user's connects
  MaxCalls,   \* bound: calls of ensure()
  MaxReloads  \* bound: reloads

(* What the constants are; Services assumes it. *)
McpAssumption == MaxCalls \in Nat /\ MaxReloads \in Nat

Tries == 1..MaxCalls

VARIABLES
  line,      (* callers at the lock: the first one holds it *)
  call,      (* what a caller asks for, and the task it waits for *)
  serve,     (* the tasks that own a connection *)
  ready,     (* a task's word to the call that waits for it *)
  conns,     (* the live connections, by server *)
  tasks,     (* the tasks, by server *)
  shut,      (* connections told to shut down *)
  cancelled, (* tasks told to stop at once *)
  pending,   (* the sign-in that waits for a redirect *)
  expected,  (* the sign-in whose state a redirect must carry *)
  pages,     (* sign-ins with a page in the browser *)
  tokens,    (* servers with stored tokens *)
  closing,   (* reload: the tasks it still waits for *)
  reloads,   (* used of MaxReloads *)
  calls,     (* used of MaxCalls *)
  ended      (* history: sign-ins that a redirect ended, and whose it was *)

vars == <<line, call, serve, ready, conns, tasks, shut, cancelled, pending, expected,
          pages, tokens, closing, reloads, calls, ended>>

NoTry == 0
NoCall == [what |-> "none", server |-> "none", task |-> NoTry]
NoServe == [server |-> "none", for |-> "none", interactive |-> FALSE, phase |-> "none"]
Reloading == [on |-> TRUE, left |-> {tasks[s] : s \in Servers} \ {NoTry}]

TypeOK ==
  /\ \A i \in DOMAIN line : /\ line[i] \in Callers
                            /\ \A j \in DOMAIN line : line[i] = line[j] => i = j
  /\ call \in [Callers -> [what : {"none", "turn", "connect"},
                           server : Servers \cup {"none"}, task : 0..MaxCalls]]
  /\ serve \in [Tries -> [server : Servers \cup {"none"}, for : {"none", "turn", "connect"},
                          interactive : BOOLEAN,
                          phase : {"none", "opening", "browser", "signing", "up", "gone"}]]
  /\ ready \in [Tries -> {"pending", "ok", "failed"}]
  /\ conns \in [Servers -> 0..MaxCalls] /\ tasks \in [Servers -> 0..MaxCalls]
  /\ shut \subseteq Tries /\ cancelled \subseteq Tries /\ pages \subseteq Tries
  /\ pending \in 0..MaxCalls /\ expected \in 0..MaxCalls /\ tokens \subseteq Servers
  /\ closing.on \in BOOLEAN /\ closing.left \subseteq Tries
  /\ reloads \in 0..MaxReloads /\ calls \in 0..MaxCalls
  /\ ended \subseteq Tries \X Tries

Init ==
  /\ line = <<>> /\ call = [c \in Callers |-> NoCall]
  /\ serve = [i \in Tries |-> NoServe] /\ ready = [i \in Tries |-> "pending"]
  /\ conns = [s \in Servers |-> NoTry] /\ tasks = [s \in Servers |-> NoTry]
  /\ shut = {} /\ cancelled = {} /\ pending = NoTry /\ expected = NoTry /\ pages = {}
  /\ tokens \in {{}, Servers} /\ closing = [on |-> FALSE, left |-> {}]
  /\ reloads = 0 /\ calls = 0 /\ ended = {}

-----------------------------------------------------------------------------
(* ensure() *)

Ask(c, what, s) ==
  /\ call[c] = NoCall /\ calls < MaxCalls
  /\ calls' = calls + 1
  /\ call' = [call EXCEPT ![c] = [what |-> what, server |-> s, task |-> NoTry]]
  /\ line' = Append(line, c)
  /\ UNCHANGED <<serve, ready, conns, tasks, shut, cancelled, pending, expected, pages,
                 tokens, closing, reloads, ended>>

(* A session prepares its tools before its first turn, and passes over a   *)
(* server without tokens.                                                  *)
Turn(c, s) == s \in tokens /\ Ask(c, "turn", s)

(* The user's connect.                                                     *)
Connect(c, s) == Ask(c, "connect", s)

Holds(c) == line # <<>> /\ Head(line) = c
Leave(c) == call' = [call EXCEPT ![c] = NoCall] /\ line' = Tail(line)
NextTry == 1 + Cardinality({i \in Tries : serve[i] # NoServe})

AlwaysInteractive(what) == TRUE
Interactive(what) == what = "connect"

(* With the lock: the connection there is, or a new task.                  *)
Enter(c) ==
  /\ Holds(c) /\ call[c].task = NoTry
  /\ LET s == call[c].server IN
     IF conns[s] # NoTry
     THEN Leave(c) /\ UNCHANGED <<serve, tasks>>
     ELSE /\ serve' = [serve EXCEPT ![NextTry] =
                         [server |-> s, for |-> call[c].what,
                          interactive |-> Interactive(call[c].what), phase |-> "opening"]]
          /\ tasks' = [tasks EXCEPT ![s] = NextTry]
          /\ call' = [call EXCEPT ![c].task = NextTry]
          /\ UNCHANGED line
  /\ UNCHANGED <<ready, conns, shut, cancelled, pending, expected, pages, tokens, closing,
                 reloads, calls, ended>>

(* The task has spoken: the connection is kept, or its error raised.       *)
Leaves(c) ==
  /\ Holds(c) /\ call[c].task # NoTry /\ ready[call[c].task] # "pending"
  /\ conns' = IF ready[call[c].task] = "ok"
              THEN [conns EXCEPT ![call[c].server] = call[c].task] ELSE conns
  /\ Leave(c)
  /\ UNCHANGED <<serve, ready, tasks, shut, cancelled, pending, expected, pages, tokens,
                 closing, reloads, calls, ended>>

-----------------------------------------------------------------------------
(* _serve *)

At(i, phase) == serve[i].phase = phase /\ i \notin cancelled
Go(i, phase) == serve' = [serve EXCEPT ![i].phase = phase]

(* However it ends, a task takes what is listed under its server's name.   *)
KeepListed(i) == UNCHANGED <<conns, tasks>>
Unlist(i) ==
  /\ conns' = [conns EXCEPT ![serve[i].server] = NoTry]
  /\ tasks' = [tasks EXCEPT ![serve[i].server] = NoTry]

Opened(i) ==
  /\ At(i, "opening") /\ serve[i].server \in tokens
  /\ Go(i, "up") /\ ready' = [ready EXCEPT ![i] = "ok"]
  /\ UNCHANGED <<line, call, conns, tasks, shut, cancelled, pending, expected, pages,
                 tokens, closing, reloads, calls, ended>>

(* An error, or a sign-in that nobody has asked for.                       *)
Failed(i) ==
  /\ At(i, "opening")
  /\ Go(i, "gone") /\ ready' = [ready EXCEPT ![i] = "failed"]
  /\ Unlist(i)
  /\ UNCHANGED <<line, call, shut, cancelled, pending, expected, pages, tokens, closing,
                 reloads, calls, ended>>

(* A sign-in, because there are no tokens or they are refused: the browser, *)
(* then the wait.  A stale wait would be cancelled by the new one.         *)
Browse(i) ==
  /\ At(i, "opening") /\ serve[i].interactive
  /\ Go(i, "browser") /\ expected' = i /\ pages' = pages \cup {i}
  /\ UNCHANGED <<line, call, ready, conns, tasks, shut, cancelled, pending, tokens, closing,
                 reloads, calls, ended>>

AwaitRedirect(i) ==
  /\ At(i, "browser")
  /\ Go(i, "signing") /\ pending' = i
  /\ cancelled' = IF pending = NoTry THEN cancelled ELSE cancelled \cup {pending}
  /\ UNCHANGED <<line, call, ready, conns, tasks, shut, expected, pages, tokens, closing,
                 reloads, calls, ended>>

(* deliver_callback: a redirect without the state of the sign-in that      *)
(* waits is ignored.                                                       *)
AnyRedirect(i) == pending # NoTry
Delivers(i) == pending # NoTry /\ expected = i

Redirect(i) ==
  /\ i \in pages /\ pages' = pages \ {i}
  /\ IF Delivers(i) /\ At(pending, "signing")
     THEN /\ Go(pending, "up") /\ ready' = [ready EXCEPT ![pending] = "ok"]
          /\ tokens' = tokens \cup {serve[pending].server}
          /\ ended' = ended \cup {<<pending, i>>}
          /\ pending' = NoTry /\ expected' = NoTry
     ELSE UNCHANGED <<serve, ready, tokens, ended, pending, expected>>
  /\ UNCHANGED <<line, call, conns, tasks, shut, cancelled, closing, reloads, calls>>

SignInTimesOut(i) ==
  /\ At(i, "signing")
  /\ Go(i, "gone") /\ ready' = [ready EXCEPT ![i] = "failed"]
  /\ pending' = NoTry /\ expected' = NoTry
  /\ Unlist(i)
  /\ UNCHANGED <<line, call, shut, cancelled, pages, tokens, closing, reloads, calls, ended>>

ShutDown(i) ==
  /\ At(i, "up") /\ i \in shut
  /\ Go(i, "gone") /\ Unlist(i)
  /\ UNCHANGED <<line, call, ready, shut, cancelled, pending, expected, pages, tokens,
                 closing, reloads, calls, ended>>

(* A cancelled task has no word for the call that waits for it.            *)
Cancelled(i) ==
  /\ i \in cancelled /\ serve[i].phase \notin {"none", "gone"}
  /\ Go(i, "gone") /\ Unlist(i)
  /\ IF serve[i].phase = "signing" THEN pending' = NoTry /\ expected' = NoTry
     ELSE UNCHANGED <<pending, expected>>
  /\ UNCHANGED <<line, call, ready, shut, cancelled, pages, tokens, closing, reloads, calls,
                 ended>>

-----------------------------------------------------------------------------
(* signout_mcp; disconnect_connector does the same.                        *)
SignOut(s) ==
  /\ s \in tokens \/ conns[s] # NoTry
  /\ shut' = shut \cup ({conns[s]} \ {NoTry})
  /\ tokens' = tokens \ {s}
  /\ UNCHANGED <<line, call, serve, ready, conns, tasks, cancelled, pending, expected, pages,
                 closing, reloads, calls, ended>>

(* aclose: the connections are told to shut down, each task has five       *)
(* seconds, and what is listed is forgotten at the end.                    *)
Reload ==
  /\ ~closing.on /\ reloads < MaxReloads
  /\ reloads' = reloads + 1
  /\ shut' = shut \cup ({conns[s] : s \in Servers} \ {NoTry})
  /\ closing' = Reloading
  /\ UNCHANGED <<line, call, serve, ready, conns, tasks, cancelled, pending, expected, pages,
                 tokens, calls, ended>>

ReloadWaits(i) ==
  /\ i \in closing.left
  /\ closing' = [closing EXCEPT !.left = @ \ {i}]
  /\ cancelled' = IF serve[i].phase = "gone" THEN cancelled ELSE cancelled \cup {i}
  /\ UNCHANGED <<line, call, serve, ready, conns, tasks, shut, pending, expected, pages,
                 tokens, reloads, calls, ended>>

ReloadEnds ==
  /\ closing.on /\ closing.left = {}
  /\ closing' = [closing EXCEPT !.on = FALSE]
  /\ conns' = [s \in Servers |-> NoTry] /\ tasks' = [s \in Servers |-> NoTry]
  /\ UNCHANGED <<line, call, serve, ready, shut, cancelled, pending, expected, pages, tokens,
                 reloads, calls, ended>>

Next ==
  \/ \E c \in Callers :
       \/ \E s \in Servers : Turn(c, s) \/ Connect(c, s)
       \/ Enter(c) \/ Leaves(c)
  \/ \E i \in Tries :
       \/ Opened(i) \/ Failed(i) \/ Browse(i) \/ AwaitRedirect(i) \/ Redirect(i)
       \/ SignInTimesOut(i) \/ ShutDown(i) \/ Cancelled(i) \/ ReloadWaits(i)
  \/ \E s \in Servers : SignOut(s)
  \/ Reload \/ ReloadEnds

Spec == Init /\ [][Next]_vars

-----------------------------------------------------------------------------
(* A page in the browser is there because the user has asked to connect    *)
(* that server, and a sign-in ends with the redirect of its own page, not  *)
(* with that of a sign-in given up before.                                 *)
SignInsAreAsked ==
  /\ \A i \in pages : serve[i].for = "connect"
  /\ \A pair \in ended : pair[1] = pair[2]

(* A call that waits for a task can still hear from it.                    *)
HearsFromTask(c) ==
  call[c].task # NoTry =>
    ready[call[c].task] # "pending" \/ serve[call[c].task].phase # "gone"

(* What is handed out as live has not been closed.                         *)
LiveIsOpen == \A s \in Servers : conns[s] # NoTry => serve[conns[s]].phase = "up"

(* Without a reload no call is stranded, nothing closed is handed out and  *)
(* every open connection can be closed.                                    *)
ConnectionsAreKept ==
  reloads = 0 =>
    /\ \A c \in Callers : HearsFromTask(c)
    /\ LiveIsOpen
    /\ \A i \in Tries : serve[i].phase = "up" => tasks[serve[i].server] = i

(* reload_mcp: "Drop live MCP connections so new sessions reconnect with   *)
(* fresh config."  A new session's call gets its turn: the call before it  *)
(* does not wait for good.                                                 *)
ReloadedReconnects == \A c \in Callers : HearsFromTask(c)

=============================================================================
