------------------------------ MODULE MCEngine ------------------------------
EXTENDS Engine

Call(tool, risk, connector, pinnable, arg) ==
  [tool |-> tool, risk |-> risk, connector |-> connector, pinnable |-> pinnable,
   arg |-> arg]

(* One call of each kind that evaluate tells apart, two targets of a       *)
(* connector's tool, and a command and a path of each sort.                *)
MCProposals ==
  {Call("run_shell", "exec", FALSE, FALSE, "git"),
   Call("run_shell", "exec", FALSE, FALSE, "rm"),
   Call("send_message", "external", TRUE, TRUE, "x"),
   Call("send_message", "external", TRUE, TRUE, "y"),
   Call("mcp__tool", "external", FALSE, FALSE, "none"),
   Call("write_file", "write", FALSE, FALSE, "inside"),
   Call("write_file", "write", FALSE, FALSE, "outside")}

=============================================================================
