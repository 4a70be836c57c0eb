------------------------------ MODULE Threads -------------------------------
(***************************************************************************)
(* The messages of a conversation and the repair that a load makes         *)
(* (conversations.py, _repair_tool_pairing).  A message is told apart by   *)
(* its role, the calls it asks for or answers, and whether its content is  *)
(* real or a placeholder; a user of this module may add fields.            *)
(***************************************************************************)
EXTENDS Naturals, Sequences, SequencesExt

CONSTANT Calls   (* tool_call ids                                          *)

-----------------------------------------------------------------------------
(* Messages. *)

User   == [role |-> "user",      calls |-> <<>>, real |-> TRUE]
Notice == [role |-> "notice",    calls |-> <<>>, real |-> TRUE]
Assistant(cs) == [role |-> "assistant", calls |-> cs, real |-> TRUE]
Result(c)      == [role |-> "tool", calls |-> <<c>>, real |-> TRUE]
Placeholder(c) == [role |-> "tool", calls |-> <<c>>, real |-> FALSE]

Asks(m, c) == m.role = "assistant" /\ c \in ToSet(m.calls)
Gives(m, c) == m.role = "tool" /\ m.calls = <<c>>
IssuedIn(ms) == {c \in Calls : \E i \in DOMAIN ms : Asks(ms[i], c)}
AnsweredIn(ms) == {c \in Calls : \E i \in DOMAIN ms : Gives(ms[i], c)}

(* engine._unanswered_trailing_tool_calls: back to the last user message.  *)
LastUser(ms) == SelectLastInSeq(ms, LAMBDA m : m.role = "user")
LastBlock(ms) ==
  SelectLastInSeq(ms, LAMBDA m : m.role = "assistant" /\ m.calls # <<>>)
Unanswered(ms) ==
  IF LastBlock(ms) <= LastUser(ms) THEN {}
  ELSE ToSet(ms[LastBlock(ms)].calls) \ AnsweredIn(ms)

-----------------------------------------------------------------------------
(* _repair_tool_pairing *)

FirstResult(ms, c) == SelectInSeq(ms, LAMBDA m : Gives(m, c))
LastAsk(ms, c) == SelectLastInSeq(ms, LAMBDA m : Asks(m, c))

(* A call with a result out of place, or with none and not in the very     *)
(* last message.                                                           *)
NeedsRepair(ms) ==
  \E c \in IssuedIn(ms) :
    IF c \in AnsweredIn(ms) THEN FirstResult(ms, c) # LastAsk(ms, c) + 1
    ELSE LastAsk(ms, c) # Len(ms)

(* Every block is followed by resultOf each of its calls, in order; the    *)
(* results found are left out where they were.                             *)
Rebuilt(ms, resultOf(_)) ==
  LET moved == {FirstResult(ms, c) : c \in IssuedIn(ms)}
      emit(i) ==
        IF ms[i].role = "assistant"
        THEN <<ms[i]>> \o FlattenSeq([k \in DOMAIN ms[i].calls |-> resultOf(ms[i].calls[k])])
        ELSE IF i \in moved THEN <<>> ELSE <<ms[i]>>
  IN IF NeedsRepair(ms) THEN FlattenSeq([i \in DOMAIN ms |-> emit(i)]) ELSE ms

Found(ms, c) == <<ms[FirstResult(ms, c)]>>

(* Mutant of Repaired: a lost result is left lost. *)
RepairedInPart(ms) ==
  Rebuilt(ms, LAMBDA c : IF c \in AnsweredIn(ms) THEN Found(ms, c) ELSE <<>>)

(* The results found are moved to their calls, and placeholders stand for  *)
(* the rest, unless the block comes last: that one is still to be resumed. *)
Repaired(ms) ==
  Rebuilt(ms, LAMBDA c : IF c \in AnsweredIn(ms) THEN Found(ms, c)
                         ELSE IF LastAsk(ms, c) = Len(ms) THEN <<>>
                         ELSE <<Placeholder(c)>>)

=============================================================================
