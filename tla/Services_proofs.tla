--------------------------- MODULE Services_proofs ---------------------------
(***************************************************************************)
(* What holds of the parts of Services, for any values of the constants,   *)
(* each proved under the names it has there (Tool!... is of Shell,         *)
(* Store!... of Accounts, Bridge!... of ClaudeWatch, Client!... of Mcp,    *)
(* Chat!... of Inbound, Kit!... of IntegrationTools).                      *)
(***************************************************************************)
EXTENDS Services, SeqLemmas

-----------------------------------------------------------------------------
(* Shell: a command's marker ends its own call. *)

Forks == {d \in Tool!Commands : kind[d] = "forks"}
Inputs == [what : {"command", "trailer"}, of : Tool!Commands]
Items == [what : {"line", "marker"}, of : Tool!Commands] \cup [what : {"eof"}, of : {0}]

ShellTypes ==
  /\ shell \in [Tool!Shells -> {"unborn", "up", "dying", "gone"}] /\ cur \in Tool!Shells
  /\ input \in [Tool!Shells -> Seq(Inputs)] /\ fg \in [Tool!Shells -> 0..MaxCommands]
  /\ holds \in [Tool!Shells -> SUBSET Tool!Commands]
  /\ kind \in [Tool!Commands -> CommandKinds \cup {Tool!None}]
  /\ queue \in Seq(Items) /\ abort \in BOOLEAN
  /\ command \in [cmd : 0..MaxCommands, phase : {Tool!None, "reading", "grace"},
                  late : BOOLEAN, lines : SUBSET Tool!Commands]
  /\ command.cmd = 0 => command = Tool!NoCall
  /\ result \in [Tool!Commands ->
                   [end : {Tool!None, "marker", "eof", "stopped", "wedged", "broken"},
                    marker : 0..MaxCommands, lines : SUBSET Tool!Commands]]

(* Commands are numbered as they are run, and stay what they are. *)
KindsAreFinal ==
  \E n \in 0..MaxCommands : \A c \in Tool!Commands : kind[c] # Tool!None <=> c <= n

(* The shells to come have not been touched. *)
ShellsInOrder ==
  /\ shell[cur] # "unborn"
  /\ \A s \in Tool!Shells : s > cur =>
       shell[s] = "unborn" /\ input[s] = <<>> /\ fg[s] = 0 /\ holds[s] = {}

(* Between calls a shell that is up has nothing left to say but what runs  *)
(* in its background, the commands F.                                      *)
Background(q, F) == \A i \in DOMAIN q : q[i].what = "line" /\ q[i].of \in F
IdleIsQuiet ==
  command.cmd = 0 /\ shell[cur] = "up" =>
    /\ input[cur] = <<>> /\ fg[cur] = 0 /\ holds[cur] \subseteq Forks
    /\ Background(queue, Forks)

(* During a call of c the shell, in state st, is somewhere between the     *)
(* command and its trailer, and after the marker comes background only.    *)
InputsOf(c) ==
  {<<>>, <<Tool!Item("trailer", c)>>, <<Tool!Item("command", c), Tool!Item("trailer", c)>>}
Says(c, q, F, st, in, f) ==
  \A i \in DOMAIN q :
    \/ q[i].what = "line" /\ q[i].of \in F \cup {c}
    \/ q[i].what = "eof" /\ st = "gone"
    \/ /\ q[i].what = "marker" /\ q[i].of = c /\ in = <<>> /\ f = 0
       /\ \A j \in DOMAIN q : j > i =>
            q[j].what = "eof" \/ (q[j].what = "line" /\ q[j].of \in F)
InStep(c) ==
  /\ c \in Tool!Commands /\ kind[c] # Tool!None /\ shell[cur] \in {"up", "gone"}
  /\ command.lines \subseteq Forks \cup {c}
  /\ input[cur] \in InputsOf(c) /\ fg[cur] \in {0, c}
  /\ \A d \in holds[cur] : d \in Forks \/ (d = c /\ fg[cur] = c)
  /\ Len(input[cur]) = 2 => fg[cur] = 0
  /\ shell[cur] = "gone" => input[cur] = <<>> /\ fg[cur] = 0
  /\ Says(c, queue, Forks, shell[cur], input[cur], fg[cur])

CallIsInStep == command.cmd # 0 => InStep(command.cmd)
AllOwn == \A c \in Tool!Commands : Tool!Own(c)
ShellInStep == ShellsInOrder /\ IdleIsQuiet /\ CallIsInStep /\ AllOwn
ShellInv == ShellTypes /\ KindsAreFinal /\ (poisoned = {} => ShellInStep)

LEMMA InputsAre ==
  ASSUME NEW c \in Tool!Commands, NEW q \in InputsOf(c)
  PROVE  /\ q \in Seq(Inputs)
         /\ q # <<>> => /\ Head(q).of = c /\ Tail(q) \in InputsOf(c) /\ Len(Tail(q)) # 2
                        /\ Head(q).what = "trailer" => Tail(q) = <<>>
                        /\ Head(q).what = "command" => Len(q) = 2
<1> DEFINE com == Tool!Item("command", c)
           tra == Tool!Item("trailer", c)
<1>1. com \in Inputs /\ tra \in Inputs /\ com.of = c /\ tra.of = c
      /\ com.what = "command" /\ tra.what = "trailer"
  BY DEF Tool!Item, Inputs
<1>2. InputsOf(c) = {<<>>, <<tra>>, <<com, tra>>}
  BY DEF InputsOf
<1> HIDE DEF com, tra
<1>3. CASE q = <<>>
  BY <1>3
<1>4. CASE q = <<tra>>
  <2>1. Head(q) = tra /\ Tail(q) = <<>> /\ Len(Tail(q)) = 0
    BY <1>4
  <2>2. q \in Seq(Inputs)
    BY <1>1, <1>4
  <2>3. Head(q).of = c /\ Head(q).what = "trailer"
    BY ONLY <1>1, <2>1
  <2>4. <<>> \in InputsOf(c)
    BY <1>2
  <2>5. Tail(q) \in InputsOf(c) /\ Len(Tail(q)) # 2
    <3> DEFINE t == Tail(q)
    <3>1. t = <<>> /\ Len(t) \in {0, 1}
      BY <2>1
    <3> HIDE DEF t
    <3>2. t \in InputsOf(c) /\ Len(t) # 2
      BY <2>4, <3>1
    <3> QED
      BY <3>2 DEF t
  <2> QED
    BY ONLY <2>1, <2>2, <2>3, <2>5
<1>5. CASE q = <<com, tra>>
  <2>1. Head(q) = com /\ Tail(q) = <<tra>> /\ Len(Tail(q)) = 1 /\ Len(q) = 2
    BY <1>5
  <2>2. q \in Seq(Inputs)
    BY <1>1, <1>5
  <2>3. Head(q).of = c /\ Head(q).what = "command"
    BY ONLY <1>1, <2>1
  <2>4. <<tra>> \in InputsOf(c)
    BY <1>2
  <2>5. Tail(q) \in InputsOf(c) /\ Len(Tail(q)) # 2
    <3> DEFINE t == Tail(q)
    <3>1. t = <<tra>> /\ Len(t) \in {0, 1}
      BY <2>1
    <3> HIDE DEF t
    <3>2. t \in InputsOf(c) /\ Len(t) # 2
      BY <2>4, <3>1
    <3> QED
      BY <3>2 DEF t
  <2> QED
    BY ONLY <2>1, <2>2, <2>3, <2>5
<1> QED
  BY <1>2, <1>3, <1>4, <1>5

LEMMA SaysMore ==
  ASSUME NEW c, NEW q, NEW F, NEW st, NEW in, NEW f, NEW st1, NEW in1, NEW f1,
         Says(c, q, F, st, in, f),
         st = "gone" => st1 = "gone", in = <<>> /\ f = 0 => in1 = <<>> /\ f1 = 0
  PROVE  Says(c, q, F, st1, in1, f1)
  BY DEF Says

LEMMA SaysTail ==
  ASSUME NEW c, NEW q \in Seq(Items), q # <<>>, NEW F, NEW st, NEW in, NEW f,
         Says(c, q, F, st, in, f)
  PROVE  Says(c, Tail(q), F, st, in, f)
<1> DEFINE t == Tail(q)
           n == Len(q)
<1>1. n \in Nat \ {0} /\ DOMAIN q = 1..n /\ DOMAIN t = 1..(n - 1)
      /\ \A i \in 1..(n - 1) : t[i] = q[i + 1]
  BY HeadTailProperties
<1> HIDE DEF t, n
<1>2. \A i \in 1..(n - 1) : i + 1 \in 1..n
  BY <1>1
<1>3. \A i, j \in 1..(n - 1) : j > i => j + 1 > i + 1
  BY <1>1
<1>4. Says(c, t, F, st, in, f)
  <2> SUFFICES ASSUME NEW i \in 1..(n - 1)
               PROVE  \/ t[i].what = "line" /\ t[i].of \in F \cup {c}
                      \/ t[i].what = "eof" /\ st = "gone"
                      \/ /\ t[i].what = "marker" /\ t[i].of = c /\ in = <<>> /\ f = 0
                         /\ \A j \in 1..(n - 1) : j > i =>
                              t[j].what = "eof" \/ (t[j].what = "line" /\ t[j].of \in F)
    BY <1>1 DEF Says
  <2>1. \/ q[i + 1].what = "line" /\ q[i + 1].of \in F \cup {c}
        \/ q[i + 1].what = "eof" /\ st = "gone"
        \/ /\ q[i + 1].what = "marker" /\ q[i + 1].of = c /\ in = <<>> /\ f = 0
           /\ \A j \in 1..n : j > i + 1 =>
                q[j].what = "eof" \/ (q[j].what = "line" /\ q[j].of \in F)
    BY <1>1, <1>2 DEF Says
  <2> QED
    BY <1>1, <1>2, <1>3, <2>1
<1> QED
  BY <1>4, Zenon DEF t

LEMMA SaysAppend ==
  ASSUME NEW c, NEW q \in Seq(Items), NEW x \in Items, NEW F, NEW st, NEW in, NEW f,
         Says(c, q, F, st, in, f),
         \/ x.what = "eof" /\ st = "gone"
         \/ x.what = "line" /\ x.of \in F
         \/ /\ in # <<>> \/ f # 0
            /\ x.what = "line" /\ x.of = c
  PROVE  Says(c, Append(q, x), F, st, in, f)
<1> DEFINE t == Append(q, x)
           n == Len(q)
<1>1. n \in Nat /\ DOMAIN q = 1..n /\ DOMAIN t = 1..(n + 1)
      /\ (\A i \in 1..n : t[i] = q[i]) /\ t[n + 1] = x
  BY AppendProperties
<1> HIDE DEF t, n
<1>2. \A i \in 1..(n + 1) : i \in 1..n \/ i = n + 1
  BY <1>1
<1>3. ASSUME NEW i \in 1..(n + 1)
      PROVE  \/ t[i].what = "line" /\ t[i].of \in F \cup {c}
             \/ t[i].what = "eof" /\ st = "gone"
             \/ /\ t[i].what = "marker" /\ t[i].of = c /\ in = <<>> /\ f = 0
                /\ \A j \in 1..(n + 1) : j > i =>
                     t[j].what = "eof" \/ (t[j].what = "line" /\ t[j].of \in F)
  <2>1. CASE i = n + 1
    BY <1>1, <2>1
  <2>2. CASE i \in 1..n
    BY <1>1, <1>2, <2>2 DEF Says
  <2> QED
    BY <1>2, <2>1, <2>2
<1>4. Says(c, t, F, st, in, f)
  BY <1>1, <1>3 DEF Says
<1> QED
  BY <1>4 DEF t

(* The marker goes behind what was said while the trailer was to be read.  *)
LEMMA SaysMarker ==
  ASSUME NEW c, NEW q \in Seq(Items), NEW x \in Items, NEW F, NEW st, NEW in, NEW f,
         Says(c, q, F, st, in, f), in # <<>>, x.what = "marker", x.of = c
  PROVE  Says(c, Append(q, x), F, st, <<>>, 0)
<1> DEFINE t == Append(q, x)
           n == Len(q)
<1>1. n \in Nat /\ DOMAIN q = 1..n /\ DOMAIN t = 1..(n + 1)
      /\ (\A i \in 1..n : t[i] = q[i]) /\ t[n + 1] = x
  BY AppendProperties
<1> HIDE DEF t, n
<1>2. \A i \in 1..(n + 1) : (i \in 1..n \/ i = n + 1) /\ ~(i > n + 1)
  BY <1>1
<1>3. \A i \in 1..n : \/ t[i].what = "line" /\ t[i].of \in F \cup {c}
                      \/ t[i].what = "eof" /\ st = "gone"
  BY <1>1 DEF Says
<1>4. Says(c, t, F, st, <<>>, 0)
  BY <1>1, <1>2, <1>3 DEF Says
<1> QED
  BY <1>4 DEF t

(* After the marker of a shell that is up, only its background talks. *)
LEMMA AfterTheMarker ==
  ASSUME NEW c, NEW q \in Seq(Items), q # <<>>, NEW F, NEW st, NEW in, NEW f,
         Says(c, q, F, st, in, f), Head(q).what = "marker", st # "gone"
  PROVE  Background(Tail(q), F)
<1> DEFINE t == Tail(q)
           n == Len(q)
<1>1. n \in Nat \ {0} /\ DOMAIN q = 1..n /\ DOMAIN t = 1..(n - 1) /\ Head(q) = q[1]
      /\ \A i \in 1..(n - 1) : t[i] = q[i + 1]
  BY HeadTailProperties
<1> HIDE DEF t, n
<1>2. 1 \in 1..n /\ \A i \in 1..(n - 1) : i + 1 \in 1..n /\ i + 1 > 1
  BY <1>1
<1>3. \A j \in 1..n : j > 1 => q[j].what = "line" /\ q[j].of \in F
  BY <1>1, <1>2 DEF Says
<1>4. Background(t, F)
  BY <1>1, <1>2, <1>3 DEF Background
<1> QED
  BY <1>4 DEF t

LEMMA BackgroundKept ==
  ASSUME NEW q \in Seq(Items), NEW F, Background(q, F)
  PROVE  /\ \A x \in Items : x.what = "line" /\ x.of \in F => Background(Append(q, x), F)
         /\ \A c, st, in, f : Says(c, q, F, st, in, f)
         /\ \A G : F \subseteq G => Background(q, G)
<1>1. ASSUME NEW x \in Items, x.what = "line", x.of \in F PROVE Background(Append(q, x), F)
  <2> DEFINE t == Append(q, x)
             n == Len(q)
  <2>1. n \in Nat /\ DOMAIN q = 1..n /\ DOMAIN t = 1..(n + 1)
        /\ (\A i \in 1..n : t[i] = q[i]) /\ t[n + 1] = x
    BY AppendProperties
  <2> HIDE DEF t, n
  <2>2. \A i \in 1..(n + 1) : i \in 1..n \/ i = n + 1
    BY <2>1
  <2>3. Background(t, F)
    BY <1>1, <2>1, <2>2 DEF Background
  <2> QED
    BY <2>3 DEF t
<1>2. \A c, st, in, f : Says(c, q, F, st, in, f)
  BY DEF Background, Says
<1>3. \A G : F \subseteq G => Background(q, G)
  BY DEF Background
<1> QED
  BY <1>1, <1>2, <1>3

-----------------------------------------------------------------------------
LEMMA ShellInit ==
  ASSUME Tool!ShellAssumption, Tool!Init
  PROVE  ShellInv
<1> USE DEF Tool!ShellAssumption, Tool!Init, Tool!Shells, Tool!Commands
<1>1. <<>> \in Seq(Inputs) /\ <<>> \in Seq(Items)
  OBVIOUS
<1>b. abort \in BOOLEAN
  BY Zenon
<1>2. ShellTypes
  BY <1>1, <1>b DEF ShellTypes, Tool!NoCall, Tool!NoResult, Tool!None
<1>3. KindsAreFinal
  <2>1. 0 \in 0..MaxCommands /\ \A c \in Tool!Commands : kind[c] = Tool!None /\ ~(c <= 0)
    OBVIOUS
  <2> QED
    BY <2>1 DEF KindsAreFinal
<1>4. ShellInStep
  BY 
     DEF ShellInStep, ShellsInOrder, IdleIsQuiet, CallIsInStep, AllOwn, Tool!Own,
         Tool!NoCall,
         Tool!NoResult, Background
<1> QED
  BY <1>2, <1>3, <1>4 DEF ShellInv

(* The number of the next command is that of the first not run. *)
LEMMA NextCommandIs ==
  ASSUME Tool!ShellAssumption, ShellTypes, KindsAreFinal, Tool!NextCommand \in Tool!Commands
  PROVE  /\ kind[Tool!NextCommand] = Tool!None
         /\ \A c \in Tool!Commands :
              kind[c] # Tool!None \/ c = Tool!NextCommand <=> c <= Tool!NextCommand
<1>1. PICK n \in 0..MaxCommands : \A c \in Tool!Commands : kind[c] # Tool!None <=> c <= n
  BY DEF KindsAreFinal
<1>2. {c \in Tool!Commands : kind[c] # Tool!None} = 1..n
  BY <1>1 DEF Tool!Commands, Tool!ShellAssumption
<1>3. Cardinality(1..n) = n
  BY FS_Interval
<1>4. Tool!NextCommand = n + 1
  <2>1. Tool!NextCommand = 1 + Cardinality(1..n)
    BY <1>2 DEF Tool!NextCommand, Tool!Cardinality, Cardinality
  <2> QED
    BY <1>3, <2>1
<1> QED
  BY <1>1, <1>4 DEF Tool!Commands, Tool!ShellAssumption

-----------------------------------------------------------------------------
(* The types. *)

LEMMA ItemsAre ==
  ASSUME NEW x \in Items
  PROVE  x.of \in 0..MaxCommands /\ (x.what # "eof" => x.of \in Tool!Commands)
  BY PartsAssumption DEF Tool!ShellAssumption, Items, Tool!Commands

LEMMA ShellItems ==
  ASSUME ShellTypes
  PROVE  /\ \A c \in Tool!Commands : /\ Tool!Item("line", c) \in Items
                                     /\ Tool!Item("marker", c) \in Items
         /\ Tool!Item("eof", 0) \in Items
         /\ \A w, c : Tool!Item(w, c).what = w /\ Tool!Item(w, c).of = c
         /\ \A x \in Items : Append(queue, x) \in Seq(Items)
         /\ queue # <<>> => Head(queue) \in Items /\ Tail(queue) \in Seq(Items)
         /\ \A s \in Tool!Shells : input[s] # <<>> =>
              Head(input[s]) \in Inputs /\ Tail(input[s]) \in Seq(Inputs)
<1>1. /\ \A c \in Tool!Commands : /\ Tool!Item("line", c) \in Items
                                  /\ Tool!Item("marker", c) \in Items
      /\ Tool!Item("eof", 0) \in Items
      /\ \A w, c : Tool!Item(w, c).what = w /\ Tool!Item(w, c).of = c
  BY PartsAssumption DEF Tool!ShellAssumption, Tool!Item, Items, Tool!Commands
<1>2. \A x \in Items : Append(queue, x) \in Seq(Items)
  BY DEF ShellTypes
<1>3. queue # <<>> => Head(queue) \in Items /\ Tail(queue) \in Seq(Items)
  BY HeadTailProperties DEF ShellTypes
<1>4. ASSUME NEW s \in Tool!Shells, input[s] # <<>>
      PROVE  Head(input[s]) \in Inputs /\ Tail(input[s]) \in Seq(Inputs)
  <2>1. input[s] \in Seq(Inputs)
    BY DEF ShellTypes
  <2> QED
    BY <1>4, <2>1, HeadTailProperties
<1> QED
  BY <1>1, <1>2, <1>3, <1>4

LEMMA ProcessTypes ==
  ASSUME ShellTypes, NEW s \in Tool!Shells,
         \/ Tool!ShellReads(s) \/ Tool!Eats(s) \/ Tool!Ends(s) \/ Tool!Dies(s)
         \/ Tool!ReaderEnds(s) \/ \E c \in Tool!Commands : Tool!Prints(s, c)
         \/ \E c \in Tool!Commands : Tool!OrphanEnds(s, c)
  PROVE  ShellTypes'
<1> USE ShellItems
<1>c. \A c \in Tool!Commands : c \in 0..MaxCommands
  BY DEF Tool!Commands
<1>o. 0 \in 0..MaxCommands
  BY PartsAssumption DEF Tool!ShellAssumption
<1>1. CASE Tool!ShellReads(s)
  <2>1. /\ input[s] # <<>>
        /\ input' = [input EXCEPT ![s] = IF /\ Head(input[s]).what = "command"
                                            /\ kind[Head(input[s]).of] = "exits"
                                         THEN <<>> ELSE Tail(input[s])]
        /\ UNCHANGED <<cur, kind, abort, command, result>>
    BY <1>1 DEF Tool!ShellReads
  <2>2. Head(input[s]).of \in Tool!Commands
    BY <2>1 DEF Inputs
  <2>3. input' \in [Tool!Shells -> Seq(Inputs)]
    BY <2>1 DEF ShellTypes
  <2> DEFINE next == Head(input[s])
  <2>4. \/ /\ queue' = Append(queue, Tool!Item("marker", next.of))
           /\ UNCHANGED <<shell, fg, holds>>
        \/ shell' = [shell EXCEPT ![s] = "gone"] /\ UNCHANGED <<fg, holds, queue>>
        \/ /\ fg' = [fg EXCEPT ![s] = next.of] /\ UNCHANGED <<shell, queue>>
           /\ holds' = [holds EXCEPT ![s] = holds[s] \cup {next.of}]
    BY <1>1 DEF Tool!ShellReads, Tool!Put
  <2>5. next.of \in Tool!Commands /\ next.of \in 0..MaxCommands
    BY <1>c, <2>2
  <2> HIDE DEF next
  <2>6. CASE /\ queue' = Append(queue, Tool!Item("marker", next.of))
             /\ UNCHANGED <<shell, fg, holds>>
    <3>1. queue' \in Seq(Items)
      BY <2>5, <2>6
    <3> QED
      BY <2>1, <2>3, <2>6, <3>1 DEF ShellTypes, Tool!NoCall
  <2>7. CASE shell' = [shell EXCEPT ![s] = "gone"] /\ UNCHANGED <<fg, holds, queue>>
    <3>1. shell' \in [Tool!Shells -> {"unborn", "up", "dying", "gone"}]
      BY <2>7 DEF ShellTypes
    <3> QED
      BY <2>1, <2>3, <2>7, <3>1 DEF ShellTypes, Tool!NoCall
  <2>8. CASE /\ fg' = [fg EXCEPT ![s] = next.of] /\ UNCHANGED <<shell, queue>>
             /\ holds' = [holds EXCEPT ![s] = holds[s] \cup {next.of}]
    <3>1. fg' \in [Tool!Shells -> 0..MaxCommands]
          /\ holds' \in [Tool!Shells -> SUBSET Tool!Commands]
      BY <2>5, <2>8 DEF ShellTypes
    <3> QED
      BY <2>1, <2>3, <2>8, <3>1 DEF ShellTypes, Tool!NoCall
  <2> QED
    BY <2>4, <2>6, <2>7, <2>8
<1>2. CASE Tool!Eats(s)
  BY <1>2 DEF Tool!Eats, ShellTypes, Tool!NoCall
<1>3. CASE Tool!Ends(s)
  BY <1>3, <1>o DEF Tool!Ends, ShellTypes, Tool!NoCall
<1>4. CASE Tool!Dies(s)
  BY <1>4, <1>o DEF Tool!Dies, ShellTypes, Tool!NoCall
<1>5. CASE Tool!ReaderEnds(s)
  BY <1>5 DEF Tool!ReaderEnds, Tool!Put, ShellTypes, Tool!NoCall
<1>6. CASE \E c \in Tool!Commands : Tool!Prints(s, c)
  BY <1>6 DEF Tool!Prints, Tool!Put, ShellTypes, Tool!NoCall
<1>7. CASE \E c \in Tool!Commands : Tool!OrphanEnds(s, c)
  BY <1>7 DEF Tool!OrphanEnds, ShellTypes, Tool!NoCall
<1> QED
  BY <1>1, <1>2, <1>3, <1>4, <1>5, <1>6, <1>7

LEMMA RunTypes ==
  ASSUME ShellTypes, NEW c \in Tool!Commands, Tool!Run(c) \/ Tool!RunBroken(c)
  PROVE  ShellTypes'
<1>a. Tool!ShellAssumption
  BY PartsAssumption
<1>o. 0 \in 0..MaxCommands /\ c \in 0..MaxCommands /\ c # 0
  BY <1>a DEF Tool!ShellAssumption, Tool!Commands
<1>1. CASE Tool!Run(c)
  <2>1. cur' \in Tool!Shells /\ shell' \in [Tool!Shells -> {"unborn", "up", "dying", "gone"}]
    <3>1. CASE shell[cur] = "gone"
      <4>1. cur < MaxShells /\ cur' = cur + 1 /\ shell' = [shell EXCEPT ![cur'] = "up"]
        BY <1>1, <3>1 DEF Tool!Run
      <4>2. cur' \in Tool!Shells
        BY <1>a, <4>1 DEF ShellTypes, Tool!Shells, Tool!ShellAssumption
      <4> QED
        BY <4>1, <4>2 DEF ShellTypes
    <3>2. CASE shell[cur] # "gone"
      BY <1>1, <3>2 DEF Tool!Run, ShellTypes
    <3> QED
      BY <3>1, <3>2
  <2>2. <<Tool!Item("command", c), Tool!Item("trailer", c)>> \in Seq(Inputs)
    BY InputsAre DEF InputsOf
  <2>3. input' \in [Tool!Shells -> Seq(Inputs)]
    <3>1. input[cur'] \in Seq(Inputs)
      BY <2>1 DEF ShellTypes
    <3> DEFINE news == <<Tool!Item("command", c), Tool!Item("trailer", c)>>
    <3>2. input[cur'] \o news \in Seq(Inputs)
      BY <2>2, <3>1, ConcatProperties
    <3>3. input' = [input EXCEPT ![cur'] = input[cur'] \o news]
      BY <1>1 DEF Tool!Run
    <3> HIDE DEF news
    <3> QED
      BY <2>1, <3>2, <3>3 DEF ShellTypes
  <2>4. command' = [cmd |-> c, phase |-> "reading", late |-> FALSE, lines |-> {}]
    BY <1>1 DEF Tool!Run, Tool!NoCall
  <2>5. /\ command' \in [cmd : 0..MaxCommands, phase : {Tool!None, "reading", "grace"},
                         late : BOOLEAN, lines : SUBSET Tool!Commands]
        /\ command'.cmd # 0
    BY <1>o, <2>4
  <2>6. queue' \in Seq(Items) /\ kind' \in [Tool!Commands -> CommandKinds \cup {Tool!None}]
    <3>1. queue' = <<>> \/ queue' = queue
      BY <1>1 DEF Tool!Run
    <3>2. PICK k \in CommandKinds : kind' = [kind EXCEPT ![c] = k]
      BY <1>1 DEF Tool!Run
    <3>3. queue' \in Seq(Items)
      <4>1. <<>> \in Seq(Items)
        OBVIOUS
      <4> QED
        BY <3>1, <4>1 DEF ShellTypes
    <3> QED
      BY <3>2, <3>3 DEF ShellTypes
  <2>7. UNCHANGED <<fg, holds, result>> /\ abort' \in BOOLEAN
    BY <1>1 DEF Tool!Run
  <2> QED
    BY <2>1, <2>3, <2>5, <2>6, <2>7 DEF ShellTypes
<1>2. CASE Tool!RunBroken(c)
  <2>1. /\ kind' = [kind EXCEPT ![c] = "plain"]
        /\ shell' = [shell EXCEPT ![cur] = "gone"]
        /\ input' = [input EXCEPT ![cur] = <<>>] /\ fg' = [fg EXCEPT ![cur] = 0]
        /\ result' = [result EXCEPT ![c].end = "broken"]
        /\ UNCHANGED <<cur, holds, queue, command>> /\ abort' \in BOOLEAN
    BY <1>2 DEF Tool!RunBroken
  <2>2. /\ kind' \in [Tool!Commands -> CommandKinds \cup {Tool!None}]
        /\ shell' \in [Tool!Shells -> {"unborn", "up", "dying", "gone"}]
    BY <1>a, <2>1 DEF ShellTypes, Tool!ShellAssumption
  <2>3. /\ input' \in [Tool!Shells -> Seq(Inputs)] /\ fg' \in [Tool!Shells -> 0..MaxCommands]
    BY <1>o, <2>1 DEF ShellTypes
  <2>4. result' \in [Tool!Commands ->
                      [end : {Tool!None, "marker", "eof", "stopped", "wedged", "broken"},
                       marker : 0..MaxCommands, lines : SUBSET Tool!Commands]]
    BY <2>1 DEF ShellTypes
  <2> QED
    BY <2>1, <2>2, <2>3, <2>4 DEF ShellTypes, Tool!NoCall
<1> QED
  BY <1>1, <1>2

LEMMA CallTypes ==
  ASSUME ShellTypes,
         Tool!Take \/ Tool!Deadline \/ Tool!GraceOver \/ Tool!Stopped \/ Tool!Stop
  PROVE  ShellTypes'
<1> DEFINE CallType == [cmd : 0..MaxCommands, phase : {Tool!None, "reading", "grace"},
                        late : BOOLEAN, lines : SUBSET Tool!Commands]
           End == {Tool!None, "marker", "eof", "stopped", "wedged", "broken"}
           Result == [end : End, marker : 0..MaxCommands, lines : SUBSET Tool!Commands]
<1>o. 0 \in 0..MaxCommands
  BY PartsAssumption DEF Tool!ShellAssumption
<1>c. /\ command \in CallType /\ (command.cmd = 0 => command = Tool!NoCall)
      /\ result \in [Tool!Commands -> Result]
      /\ command.cmd # 0 => command.cmd \in Tool!Commands
  BY DEF ShellTypes, Tool!Commands
<1>n. Tool!NoCall \in CallType /\ Tool!NoCall.phase = "none" /\ Tool!NoCall.cmd = 0
  BY <1>o DEF Tool!NoCall, Tool!None
<1>r. ASSUME NEW end \in End, NEW m \in 0..MaxCommands, command # Tool!NoCall,
             Tool!Return(end, m)
      PROVE  /\ command' = Tool!NoCall
             /\ result' \in [Tool!Commands -> Result]
  <2>1. result' = [result EXCEPT ![command.cmd] =
                     [end |-> end, marker |-> m, lines |-> command.lines]]
        /\ command' = Tool!NoCall
    BY <1>r DEF Tool!Return
  <2>2. [end |-> end, marker |-> m, lines |-> command.lines] \in Result
    BY <1>c, <1>r
  <2>3. command.cmd \in Tool!Commands
    BY <1>c, <1>r
  <2> HIDE DEF Result
  <2> QED
    BY <1>c, <2>1, <2>2, <2>3
<1>q. ASSUME command' \in CallType, command'.cmd = 0 => command' = Tool!NoCall,
             result' \in [Tool!Commands -> Result],
             shell' \in [Tool!Shells -> {"unborn", "up", "dying", "gone"}],
             queue' \in Seq(Items), abort' \in BOOLEAN,
             UNCHANGED <<cur, input, fg, holds, kind>>
      PROVE  ShellTypes'
  BY <1>q DEF ShellTypes, Tool!NoCall
<1>t. ASSUME Tool!Terminate \/ UNCHANGED shell
      PROVE  shell' \in [Tool!Shells -> {"unborn", "up", "dying", "gone"}]
  BY <1>t DEF Tool!Terminate, ShellTypes
<1>s. queue \in Seq(Items) /\ abort \in BOOLEAN
  BY DEF ShellTypes
<1> HIDE DEF CallType, Result
<1>1. CASE Tool!Take
  <2>1. /\ command # Tool!NoCall /\ queue # <<>> /\ queue' = Tail(queue)
        /\ UNCHANGED <<shell, cur, input, fg, holds, kind, abort>>
    BY <1>1 DEF Tool!Take, Tool!Idle
  <2> DEFINE item == Head(queue)
  <2>2. item \in Items /\ queue' \in Seq(Items)
    BY <2>1, ShellItems
  <2>3. \/ /\ item.what = "line"
           /\ command' = [command EXCEPT !.late = abort, !.lines = @ \cup {item.of}]
           /\ UNCHANGED result
        \/ Tool!Return("marker", item.of) \/ Tool!Return("eof", 0)
    BY <1>1 DEF Tool!Take
  <2>4. item.of \in 0..MaxCommands /\ (item.what # "eof" => item.of \in Tool!Commands)
    BY <2>2, ItemsAre
  <2> HIDE DEF item
  <2>5. CASE Tool!Return("marker", item.of) \/ Tool!Return("eof", 0)
    <3>1. command' = Tool!NoCall /\ result' \in [Tool!Commands -> Result]
      BY <1>o, <1>r, <2>1, <2>4, <2>5
    <3> QED
      BY <1>n, <1>q, <1>s, <1>t, <2>1, <2>2, <3>1
  <2>6. CASE /\ item.what = "line"
             /\ command' = [command EXCEPT !.late = abort, !.lines = @ \cup {item.of}]
             /\ UNCHANGED result
    <3>1. abort \in BOOLEAN /\ item.of \in Tool!Commands
      BY <2>4, <2>6 DEF ShellTypes
    <3>2. command' \in CallType /\ command'.cmd # 0
      BY <1>c, <2>1, <2>6, <3>1 DEF CallType
    <3> QED
      BY <1>c, <1>q, <1>s, <1>t, <2>1, <2>2, <2>6, <3>2
  <2> QED
    BY <2>3, <2>5, <2>6
<1>2. CASE Tool!Deadline
  <2>1. command' = [command EXCEPT !.phase = "grace"] /\ command.phase = "reading"
        /\ UNCHANGED <<shell, cur, input, fg, holds, kind, queue, result, abort>>
    BY <1>2 DEF Tool!Deadline
  <2>2. command.cmd # 0
    BY <1>c, <1>n, <2>1
  <2>3. command' \in CallType /\ command'.cmd # 0
    BY <1>c, <2>1, <2>2 DEF CallType
  <2> QED
    BY <1>c, <1>q, <1>s, <1>t, <2>1, <2>3
<1>3. CASE Tool!GraceOver
  <2>1. Tool!Terminate /\ Tool!Return("wedged", 0) /\ command.phase = "grace"
        /\ UNCHANGED <<cur, input, fg, holds, kind, queue, abort>>
    BY <1>3 DEF Tool!GraceOver
  <2>2. command # Tool!NoCall
    BY <1>n, <2>1
  <2>3. command' = Tool!NoCall /\ result' \in [Tool!Commands -> Result]
    BY <1>o, <1>r, <2>1, <2>2
  <2> QED
    BY <1>n, <1>q, <1>s, <1>t, <2>1, <2>3
<1>4. CASE Tool!Stopped
  <2>1. Tool!Terminate /\ Tool!Return("stopped", 0) /\ command # Tool!NoCall
        /\ UNCHANGED <<cur, input, fg, holds, kind, queue, abort>>
    BY <1>4 DEF Tool!Stopped, Tool!Idle
  <2>3. command' = Tool!NoCall /\ result' \in [Tool!Commands -> Result]
    BY <1>o, <1>r, <2>1
  <2> QED
    BY <1>n, <1>q, <1>s, <1>t, <2>1, <2>3
<1>5. CASE Tool!Stop
  BY <1>5, <1>c, <1>q, <1>s, <1>t DEF Tool!Stop
<1> QED
  BY <1>1, <1>2, <1>3, <1>4, <1>5

LEMMA ShellTyped ==
  ASSUME ShellTypes, [Tool!Next]_shellVars
  PROVE  ShellTypes'
<1>1. CASE UNCHANGED shellVars
  BY <1>1 DEF shellVars, ShellTypes, Tool!NoCall
<1>2. CASE Tool!Next
  BY <1>2, ProcessTypes, RunTypes, CallTypes DEF Tool!Next
<1> QED
  BY <1>1, <1>2

(* The history only grows. *)
LEMMA PoisonStays ==
  ASSUME [Tool!Next]_shellVars, poisoned' = {}
  PROVE  poisoned = {}
<1>1. CASE UNCHANGED shellVars
  BY <1>1 DEF shellVars
<1>2. ASSUME NEW s \in Tool!Shells,
             \/ Tool!ShellReads(s) \/ Tool!Eats(s) \/ Tool!Ends(s) \/ Tool!Dies(s)
             \/ Tool!ReaderEnds(s) \/ \E c \in Tool!Commands : Tool!Prints(s, c)
             \/ \E c \in Tool!Commands : Tool!OrphanEnds(s, c)
      PROVE  poisoned = {}
  BY <1>2
     DEF Tool!ShellReads, Tool!Eats, Tool!Ends, Tool!Dies, Tool!ReaderEnds, Tool!Prints,
         Tool!OrphanEnds, Tool!Put
<1>3. CASE \E c \in Tool!Commands : Tool!Run(c) \/ Tool!RunBroken(c)
  BY <1>3 DEF Tool!Run, Tool!RunBroken
<1>4. CASE Tool!Take \/ Tool!Deadline \/ Tool!GraceOver \/ Tool!Stopped \/ Tool!Stop
  BY <1>4 DEF Tool!Take, Tool!Deadline, Tool!GraceOver, Tool!Stopped, Tool!Stop
<1> QED
  BY <1>1, <1>2, <1>3, <1>4 DEF Tool!Next

LEMMA KindsStay ==
  ASSUME ShellTypes, KindsAreFinal, [Tool!Next]_shellVars
  PROVE  KindsAreFinal'
<1>a. Tool!ShellAssumption
  BY PartsAssumption
<1>1. CASE \E c \in Tool!Commands : Tool!Run(c) \/ Tool!RunBroken(c)
  <2>1. PICK c \in Tool!Commands : Tool!Run(c) \/ Tool!RunBroken(c)
    BY <1>1
  <2>2. PICK k \in {"plain", "forks", "eats", "exits"} : kind' = [kind EXCEPT ![c] = k]
    BY <1>a, <2>1 DEF Tool!Run, Tool!RunBroken, Tool!ShellAssumption
  <2>3. c = Tool!NextCommand
    BY <2>1 DEF Tool!Run, Tool!RunBroken
  <2>4. \A d \in Tool!Commands : kind[d] # Tool!None \/ d = c <=> d <= c
    BY <1>a, <2>1, <2>3, NextCommandIs
  <2>5. \A d \in Tool!Commands : kind'[d] # Tool!None <=> d <= c
    BY <2>2, <2>4 DEF ShellTypes, Tool!None
  <2>6. c \in 0..MaxCommands
    BY DEF Tool!Commands
  <2> QED
    BY <2>5, <2>6 DEF KindsAreFinal
<1>2. CASE UNCHANGED kind
  BY <1>2 DEF KindsAreFinal
<1>3. ASSUME NEW s \in Tool!Shells,
             \/ Tool!ShellReads(s) \/ Tool!Eats(s) \/ Tool!Ends(s) \/ Tool!Dies(s)
             \/ Tool!ReaderEnds(s) \/ \E c \in Tool!Commands : Tool!Prints(s, c)
             \/ \E c \in Tool!Commands : Tool!OrphanEnds(s, c)
      PROVE  UNCHANGED kind
  BY <1>3
     DEF Tool!ShellReads, Tool!Eats, Tool!Ends, Tool!Dies, Tool!ReaderEnds, Tool!Prints,
         Tool!OrphanEnds
<1>4. CASE Tool!Take \/ Tool!Deadline \/ Tool!GraceOver \/ Tool!Stopped \/ Tool!Stop
  BY <1>2, <1>4 DEF Tool!Take, Tool!Deadline, Tool!GraceOver, Tool!Stopped, Tool!Stop
<1>5. UNCHANGED shellVars => UNCHANGED kind
  BY DEF shellVars
<1> QED
  BY <1>1, <1>2, <1>3, <1>4, <1>5 DEF Tool!Next

-----------------------------------------------------------------------------
(* The stream stays in step. *)

(* What the invariant says does not depend on the shells before the        *)
(* current one.                                                            *)
LEMMA FormerShells ==
  ASSUME ShellTypes, ShellInStep, UNCHANGED <<cur, kind, queue, command, result>>,
         \A t \in Tool!Shells : t >= cur =>
           shell'[t] = shell[t] /\ input'[t] = input[t] /\ fg'[t] = fg[t]
           /\ holds'[t] = holds[t]
  PROVE  ShellInStep'
<1>1. cur \in Tool!Shells /\ cur >= cur
  BY DEF ShellTypes, Tool!Shells
<1>2. /\ shell'[cur] = shell[cur] /\ input'[cur] = input[cur] /\ fg'[cur] = fg[cur]
      /\ holds'[cur] = holds[cur]
  BY <1>1
<1>3. ShellsInOrder'
  <2>1. \A t \in Tool!Shells : t > cur => t >= cur
    BY <1>1 DEF Tool!Shells
  <2> QED
    BY <1>2, <2>1 DEF ShellInStep, ShellsInOrder
<1>4. UNCHANGED Forks
  BY DEF Forks
<1>5. IdleIsQuiet' /\ CallIsInStep'
  BY <1>2, <1>4 DEF ShellInStep, IdleIsQuiet, CallIsInStep, InStep
<1>6. AllOwn'
  BY DEF ShellInStep, AllOwn, Tool!Own
<1> QED
  BY <1>3, <1>5, <1>6 DEF ShellInStep

(* A shell before the current one may do what it likes, but speak. *)
LEMMA OthersStep ==
  ASSUME ShellTypes, ShellInStep, NEW s \in Tool!Shells, s # cur, poisoned' = {},
         \/ Tool!ShellReads(s) \/ Tool!Eats(s) \/ Tool!Ends(s) \/ Tool!Dies(s)
         \/ Tool!ReaderEnds(s) \/ \E c \in Tool!Commands : Tool!Prints(s, c)
         \/ \E c \in Tool!Commands : Tool!OrphanEnds(s, c)
  PROVE  ShellInStep'
<1>1. \A x : ~Tool!Put(s, x)
  BY DEF Tool!Put
<1>2. /\ UNCHANGED <<cur, kind, queue, command, result>>
      /\ \A t \in Tool!Shells : t # s => shell'[t] = shell[t] /\ input'[t] = input[t]
                                          /\ fg'[t] = fg[t] /\ holds'[t] = holds[t]
  <2>1. CASE Tool!ShellReads(s)
    BY <1>1, <2>1 DEF Tool!ShellReads, ShellTypes
  <2>2. CASE Tool!Eats(s)
    BY <2>2 DEF Tool!Eats, ShellTypes
  <2>3. CASE Tool!Ends(s)
    BY <2>3 DEF Tool!Ends, ShellTypes
  <2>4. CASE Tool!Dies(s)
    BY <2>4 DEF Tool!Dies, ShellTypes
  <2>5. CASE \E c \in Tool!Commands : Tool!OrphanEnds(s, c)
    BY <2>5 DEF Tool!OrphanEnds, ShellTypes
  <2> QED
    BY <1>1, <2>1, <2>2, <2>3, <2>4, <2>5 DEF Tool!ReaderEnds, Tool!Prints
<1>3. ~(s > cur)
  <2> SUFFICES ASSUME s > cur PROVE FALSE
    OBVIOUS
  <2>1. shell[s] = "unborn" /\ input[s] = <<>> /\ fg[s] = 0 /\ holds[s] = {}
    BY DEF ShellInStep, ShellsInOrder
  <2> QED
    BY <1>1, <2>1
       DEF Tool!ShellReads, Tool!Eats, Tool!Ends, Tool!Dies, Tool!ReaderEnds, Tool!Prints,
           Tool!OrphanEnds
<1>4. \A t \in Tool!Shells : t >= cur => t # s
  BY <1>3 DEF ShellTypes, Tool!Shells
<1> QED
  BY <1>2, <1>4, FormerShells

(* What the steps of the current shell have in common. *)
LEMMA CurrentStep ==
  ASSUME ShellTypes, ShellInStep, UNCHANGED <<cur, kind, command, result>>,
         \A t \in Tool!Shells : t # cur =>
           shell'[t] = shell[t] /\ input'[t] = input[t] /\ fg'[t] = fg[t]
           /\ holds'[t] = holds[t],
         shell'[cur] # "unborn",
         command.cmd = 0 => IdleIsQuiet', command.cmd # 0 => InStep(command.cmd)'
  PROVE  ShellInStep'
<1>1. \A t \in Tool!Shells : t > cur => t # cur
  BY DEF ShellTypes, Tool!Shells
<1>2. ShellsInOrder'
  BY <1>1 DEF ShellInStep, ShellsInOrder
<1>3. IdleIsQuiet' /\ CallIsInStep'
  BY DEF IdleIsQuiet, CallIsInStep
<1>4. AllOwn'
  BY DEF ShellInStep, AllOwn, Tool!Own
<1> QED
  BY <1>2, <1>3, <1>4 DEF ShellInStep

LEMMA CurrentReads ==
  ASSUME ShellTypes, ShellInStep, Tool!ShellReads(cur)
  PROVE  ShellInStep'
<1> DEFINE c == command.cmd
           next == Head(input[cur])
<1>1. cur \in Tool!Shells /\ input[cur] \in Seq(Inputs) /\ input[cur] # <<>>
      /\ shell[cur] \in {"up", "dying"} /\ fg[cur] = 0
      /\ UNCHANGED <<cur, kind, command, result>>
  BY DEF ShellTypes, Tool!ShellReads
<1>2. \A t \in Tool!Shells : t # cur =>
        shell'[t] = shell[t] /\ input'[t] = input[t] /\ fg'[t] = fg[t] /\ holds'[t] = holds[t]
  BY DEF Tool!ShellReads, ShellTypes
<1>3. shell'[cur] \in {shell[cur], "gone"}
  BY <1>1 DEF Tool!ShellReads, ShellTypes
<1>4. CASE c = 0
  <2>1. shell[cur] = "dying"
    BY <1>1, <1>4 DEF ShellInStep, IdleIsQuiet
  <2>2. shell'[cur] # "up"
    BY <1>3, <2>1
  <2>3. IdleIsQuiet'
    BY <1>1, <2>2 DEF IdleIsQuiet
  <2>4. shell'[cur] # "unborn"
    BY <1>3, <2>1
  <2> QED
    BY <1>1, <1>2, <1>4, <2>3, <2>4, CurrentStep
<1>5. CASE c # 0
  <2>0. c' = c
    BY <1>1
  <2>1. InStep(c)
    BY <1>5 DEF ShellInStep, CallIsInStep
  <2>2. /\ c \in Tool!Commands /\ kind[c] # Tool!None /\ shell[cur] = "up"
        /\ command.lines \subseteq Forks \cup {c}
        /\ input[cur] \in InputsOf(c) /\ holds[cur] \subseteq Forks
        /\ Says(c, queue, Forks, "up", input[cur], 0)
    BY <1>1, <2>1 DEF InStep, Tool!Commands
  <2>3. /\ next.of = c /\ Tail(input[cur]) \in InputsOf(c) /\ Len(Tail(input[cur])) # 2
        /\ next.what = "trailer" => Tail(input[cur]) = <<>>
    BY <1>1, <2>2, InputsAre
  <2>4. <<>> \in InputsOf(c) /\ Len(<<>>) # 2
    BY DEF InputsOf
  <2>5. UNCHANGED Forks
    BY <1>1 DEF Forks
  <2>6. /\ c \in Tool!Commands /\ kind'[c] # Tool!None
        /\ command'.lines \subseteq Forks' \cup {c} /\ UNCHANGED cur
    BY <1>1, <2>2, <2>5
  <2>7. \/ /\ next.what = "trailer" /\ input'[cur] = Tail(input[cur])
           /\ queue' = Append(queue, Tool!Item("marker", next.of))
           /\ UNCHANGED <<shell, fg, holds>>
        \/ /\ input'[cur] = <<>> /\ shell'[cur] = "gone" /\ UNCHANGED <<fg, holds, queue>>
        \/ /\ input'[cur] = Tail(input[cur]) /\ fg'[cur] = next.of
           /\ holds'[cur] = holds[cur] \cup {next.of}
           /\ UNCHANGED <<shell, queue>>
    BY <1>1 DEF Tool!ShellReads, Tool!Put, ShellTypes
  <2> HIDE DEF next, c
  <2>8. ASSUME next.what = "trailer", input'[cur] = Tail(input[cur]),
               queue' = Append(queue, Tool!Item("marker", next.of)),
               UNCHANGED <<shell, fg, holds>>
        PROVE  InStep(c)'
    <3>1. Tool!Item("marker", c) \in Items /\ Tool!Item("marker", c).what = "marker"
          /\ Tool!Item("marker", c).of = c /\ queue \in Seq(Items)
      BY <2>2, ShellItems DEF ShellTypes
    <3>2. Says(c, Append(queue, Tool!Item("marker", c)), Forks, "up", <<>>, 0)
      BY <1>1, <2>2, <3>1, SaysMarker
    <3> QED
      BY <1>1, <2>0, <2>2, <2>3, <2>4, <2>5, <2>6, <2>8, <3>2 DEF InStep
  <2>9. ASSUME input'[cur] = <<>>, shell'[cur] = "gone", UNCHANGED <<fg, holds, queue>>
        PROVE  InStep(c)'
    <3>1. Says(c, queue, Forks, "gone", <<>>, 0)
      BY <2>2, SaysMore
    <3> QED
      BY <1>1, <2>0, <2>2, <2>4, <2>5, <2>6, <2>9, <3>1 DEF InStep
  <2>10. ASSUME input'[cur] = Tail(input[cur]), fg'[cur] = next.of,
                holds'[cur] = holds[cur] \cup {next.of}, UNCHANGED <<shell, queue>>
         PROVE  InStep(c)'
    <3>1. Says(c, queue, Forks, "up", Tail(input[cur]), c)
      BY <1>1, <2>2, SaysMore
    <3> QED
      BY <1>1, <2>0, <2>2, <2>3, <2>5, <2>6, <2>10, <3>1 DEF InStep
  <2>11. InStep(c)'
    BY <2>7, <2>8, <2>9, <2>10
  <2>12. shell'[cur] # "unborn"
    BY <1>3, <2>2
  <2> QED
    BY <1>1, <1>2, <1>5, <2>11, <2>12, CurrentStep DEF c
<1> QED
  BY <1>4, <1>5

LEMMA CurrentEnds ==
  ASSUME ShellTypes, ShellInStep,
         Tool!Eats(cur) \/ Tool!Ends(cur) \/ Tool!Dies(cur)
         \/ \E d \in Tool!Commands : Tool!OrphanEnds(cur, d)
  PROVE  ShellInStep'
<1> DEFINE c == command.cmd
<1>1. cur \in Tool!Shells /\ input[cur] \in Seq(Inputs)
      /\ UNCHANGED <<cur, kind, command, result, queue>>
  BY DEF ShellTypes, Tool!Eats, Tool!Ends, Tool!Dies, Tool!OrphanEnds
<1>2. \A t \in Tool!Shells : t # cur =>
        shell'[t] = shell[t] /\ input'[t] = input[t] /\ fg'[t] = fg[t] /\ holds'[t] = holds[t]
  BY DEF Tool!Eats, Tool!Ends, Tool!Dies, Tool!OrphanEnds, ShellTypes
<1>3. shell'[cur] = shell[cur] \/ (shell[cur] = "dying" /\ shell'[cur] = "gone")
  BY <1>1 DEF Tool!Eats, Tool!Ends, Tool!Dies, Tool!OrphanEnds, ShellTypes
<1>4. shell'[cur] # "unborn"
  BY <1>3 DEF ShellInStep, ShellsInOrder
<1>5. UNCHANGED Forks
  BY <1>1 DEF Forks
<1>6. CASE c = 0
  <2>1. CASE shell'[cur] # "up"
    <3>1. IdleIsQuiet'
      BY <1>1, <2>1 DEF IdleIsQuiet
    <3> QED
      BY <1>1, <1>2, <1>4, <1>6, <3>1, CurrentStep
  <2>2. CASE shell'[cur] = "up"
    <3>1. shell[cur] = "up"
      BY <1>3, <2>2
    <3>2. /\ input[cur] = <<>> /\ fg[cur] = 0 /\ holds[cur] \subseteq Forks
          /\ Background(queue, Forks)
      BY <1>6, <3>1 DEF ShellInStep, IdleIsQuiet
    <3>3. PICK d \in Tool!Commands : Tool!OrphanEnds(cur, d)
      BY <3>1, <3>2 DEF Tool!Eats, Tool!Ends, Tool!Dies
    <3>4. input'[cur] = <<>> /\ fg'[cur] = 0 /\ holds'[cur] \subseteq Forks
      BY <1>1, <3>2, <3>3 DEF Tool!OrphanEnds, ShellTypes
    <3>5. IdleIsQuiet'
      BY <1>1, <1>5, <3>2, <3>4 DEF IdleIsQuiet
    <3> QED
      BY <1>1, <1>2, <1>4, <1>6, <3>5, CurrentStep
  <2> QED
    BY <2>1, <2>2
<1>7. CASE c # 0
  <2>0. c' = c
    BY <1>1
  <2>1. InStep(c)
    BY <1>7 DEF ShellInStep, CallIsInStep
  <2>2. shell[cur] \in {"up", "gone"} /\ c \in Tool!Commands
    BY <2>1 DEF InStep
  <2>3. ASSUME Tool!Eats(cur) PROVE InStep(c)'
    <3>1. fg[cur] # 0 /\ input[cur] # <<>> /\ input'[cur] = Tail(input[cur])
          /\ UNCHANGED <<shell, fg, holds>>
      BY <1>1, <2>3 DEF Tool!Eats, ShellTypes
    <3>2. input[cur] \in InputsOf(c)
      BY <2>1 DEF InStep
    <3>3. Tail(input[cur]) \in InputsOf(c) /\ Len(Tail(input[cur])) # 2
      BY <2>2, <3>1, <3>2, InputsAre
    <3>4. Says(c, queue, Forks, shell[cur], Tail(input[cur]), fg[cur])
      BY <2>1, <3>1, SaysMore DEF InStep
    <3> DEFINE t == Tail(input[cur])
    <3> HIDE DEF t, c
    <3>5. t \in InputsOf(c) /\ Len(t) # 2 /\ Says(c, queue, Forks, shell[cur], t, fg[cur])
      BY <3>3, <3>4, Zenon DEF t
    <3>6. input'[cur] = t
      BY <3>1 DEF t
    <3> QED
      BY <1>1, <1>5, <2>0, <2>1, <3>1, <3>5, <3>6 DEF InStep
  <2>4. ASSUME Tool!Ends(cur) PROVE InStep(c)'
    <3>1. /\ fg[cur] # 0 /\ fg'[cur] = 0 /\ UNCHANGED <<shell, input>>
          /\ holds'[cur] = IF kind[fg[cur]] = "forks" THEN holds[cur]
                           ELSE holds[cur] \ {fg[cur]}
      BY <1>1, <2>4 DEF Tool!Ends, ShellTypes
    <3>2. fg[cur] = c
      BY <2>1, <3>1 DEF InStep
    <3>3. \A d \in holds'[cur] : d \in Forks
      BY <2>1, <2>2, <3>1, <3>2 DEF InStep, Forks
    <3>4. Says(c, queue, Forks, shell[cur], input[cur], 0)
      BY <2>1, <3>1, SaysMore DEF InStep
    <3> QED
      BY <1>1, <1>5, <2>0, <2>1, <3>1, <3>3, <3>4 DEF InStep
  <2>5. ASSUME \E d \in Tool!Commands : Tool!OrphanEnds(cur, d) PROVE InStep(c)'
    <3>1. holds'[cur] \subseteq holds[cur] /\ UNCHANGED <<shell, input, fg>>
      BY <1>1, <2>5 DEF Tool!OrphanEnds, ShellTypes
    <3> QED
      BY <1>1, <1>5, <2>0, <2>1, <3>1 DEF InStep
  <2>6. ~Tool!Dies(cur)
    BY <2>2 DEF Tool!Dies
  <2>7. InStep(c)'
    BY <2>3, <2>4, <2>5, <2>6
  <2> QED
    BY <1>1, <1>2, <1>4, <1>7, <2>7, CurrentStep
<1> QED
  BY <1>6, <1>7

LEMMA CurrentSpeaks ==
  ASSUME ShellTypes, ShellInStep,
         Tool!ReaderEnds(cur) \/ \E d \in Tool!Commands : Tool!Prints(cur, d)
  PROVE  ShellInStep'
<1> DEFINE c == command.cmd
<1>1. cur \in Tool!Shells /\ queue \in Seq(Items)
      /\ UNCHANGED <<cur, shell, input, fg, holds, kind, command, result>>
  BY DEF ShellTypes, Tool!ReaderEnds, Tool!Prints
<1>2. PICK x \in Items :
        /\ queue' = Append(queue, x)
        /\ \/ x.what = "eof" /\ shell[cur] = "gone"
           \/ x.what = "line" /\ x.of \in holds[cur]
  <2>1. CASE Tool!ReaderEnds(cur)
    BY <2>1, ShellItems DEF Tool!ReaderEnds, Tool!Put
  <2>2. ASSUME NEW d \in Tool!Commands, Tool!Prints(cur, d)
            PROVE  \E x \in Items :
                     /\ queue' = Append(queue, x)
                     /\ \/ x.what = "eof" /\ shell[cur] = "gone"
                        \/ x.what = "line" /\ x.of \in holds[cur]
    BY <2>2, ShellItems DEF Tool!Prints, Tool!Put
  <2> QED
    BY <2>1, <2>2
<1>3. UNCHANGED Forks
  BY <1>1 DEF Forks
<1>4. CASE c = 0
  <2>1. ASSUME shell[cur] = "up" PROVE Background(queue', Forks)
    BY <1>1, <1>2, <1>4, <2>1, BackgroundKept DEF ShellInStep, IdleIsQuiet
  <2>2. IdleIsQuiet'
    BY <1>1, <1>3, <2>1 DEF ShellInStep, IdleIsQuiet
  <2> QED
    BY <1>1, <1>4, <2>2, CurrentStep DEF ShellInStep, ShellsInOrder
<1>5. CASE c # 0
  <2>0. c' = c
    BY <1>1
  <2>1. InStep(c)
    BY <1>5 DEF ShellInStep, CallIsInStep
  <2>2. \/ x.what = "eof" /\ shell[cur] = "gone"
        \/ x.what = "line" /\ x.of \in Forks
        \/ /\ input[cur] # <<>> \/ fg[cur] # 0
           /\ x.what = "line" /\ x.of = c
    BY <1>2, <1>5, <2>1 DEF InStep
  <2>3. Says(c, queue', Forks, shell[cur], input[cur], fg[cur])
    BY <1>1, <1>2, <2>1, <2>2, SaysAppend DEF InStep
  <2>4. InStep(c)'
    BY <1>1, <1>3, <2>0, <2>1, <2>3 DEF InStep
  <2> QED
    BY <1>1, <1>5, <2>4, CurrentStep DEF ShellInStep, ShellsInOrder
<1> QED
  BY <1>4, <1>5

LEMMA RunStep ==
  ASSUME ShellTypes, KindsAreFinal, ShellInStep, poisoned' = {},
         NEW c \in Tool!Commands, Tool!Run(c) \/ Tool!RunBroken(c)
  PROVE  ShellInStep'
<1>a. Tool!ShellAssumption
  BY PartsAssumption
<1>1. kind[c] = Tool!None
  BY <1>a, NextCommandIs DEF Tool!Run, Tool!RunBroken
<1>2. PICK k \in {"plain", "forks", "eats", "exits"} : kind' = [kind EXCEPT ![c] = k]
  BY <1>a DEF Tool!Run, Tool!RunBroken, Tool!ShellAssumption
<1>3. Forks \subseteq Forks' /\ kind'[c] # Tool!None
  BY <1>1, <1>2 DEF Forks, ShellTypes, Tool!None
<1>4. \A d \in Tool!Commands : kind[d] = "forks" => kind'[d] = "forks"
  BY <1>1, <1>2 DEF ShellTypes, Tool!None
<1>5. /\ command = Tool!NoCall /\ command.cmd = 0
      /\ cur \in Tool!Shells /\ queue \in Seq(Items)
  BY DEF Tool!Run, Tool!RunBroken, Tool!Idle, Tool!NoCall, ShellTypes
<1>6. CASE Tool!Run(c)
  <2>1. /\ command' = [Tool!NoCall EXCEPT !.cmd = c, !.phase = "reading"]
        /\ UNCHANGED <<fg, holds, result>>
    BY <1>6 DEF Tool!Run
  <2>2. command'.cmd = c /\ command'.lines = {} /\ c # 0
    BY <2>1 DEF Tool!NoCall, Tool!Commands
  <2>3. shell[cur] # "dying"
    BY <1>6 DEF Tool!Run
  <2> DEFINE news == <<Tool!Item("command", c), Tool!Item("trailer", c)>>
  <2>4. news \in InputsOf(c) /\ news \in Seq(Inputs)
    BY InputsAre DEF InputsOf
  <2>5. input' = [input EXCEPT ![cur'] = input[cur'] \o news]
    BY <1>6 DEF Tool!Run
  <2> HIDE DEF news
  <2>6. /\ cur' \in Tool!Shells /\ cur <= cur' /\ shell'[cur'] = "up"
        /\ input[cur'] = <<>> /\ fg[cur'] = 0 /\ holds[cur'] \subseteq Forks
        /\ Background(queue', Forks) /\ queue' \in Seq(Items)
        /\ \A s \in Tool!Shells : s > cur' => shell'[s] = shell[s]
    <3>1. CASE shell[cur] = "gone"
      <4>1. cur < MaxShells /\ cur' = cur + 1 /\ shell' = [shell EXCEPT ![cur'] = "up"]
            /\ queue' = <<>>
        BY <1>6, <3>1 DEF Tool!Run
      <4>2. cur' \in Tool!Shells /\ cur' > cur /\ \A s \in Tool!Shells : s > cur' => s # cur'
        BY <1>5, <1>a, <4>1 DEF Tool!Shells, Tool!ShellAssumption
      <4>3. input[cur'] = <<>> /\ fg[cur'] = 0 /\ holds[cur'] = {}
        BY <4>2 DEF ShellInStep, ShellsInOrder
      <4>4. Background(<<>>, Forks) /\ <<>> \in Seq(Items)
        BY DEF Background
      <4>5. shell'[cur'] = "up" /\ \A s \in Tool!Shells : s > cur' => shell'[s] = shell[s]
        BY <4>1, <4>2 DEF ShellTypes
      <4> QED
        BY <1>5, <4>1, <4>2, <4>3, <4>4, <4>5 DEF Tool!Shells
    <3>2. CASE shell[cur] # "gone"
      <4>1. UNCHANGED <<cur, shell, queue>>
        BY <1>6, <3>2 DEF Tool!Run
      <4>2. shell[cur] = "up"
        BY <1>5, <2>3, <3>2 DEF ShellInStep, ShellsInOrder, ShellTypes
      <4>3. /\ input[cur] = <<>> /\ fg[cur] = 0 /\ holds[cur] \subseteq Forks
            /\ Background(queue, Forks)
        BY <1>5, <4>2 DEF ShellInStep, IdleIsQuiet
      <4> QED
        BY <1>5, <4>1, <4>2, <4>3 DEF Tool!Shells
    <3> QED
      BY <3>1, <3>2
  <2>7. input'[cur'] = news
    <3>1. <<>> \o news = news
      BY <2>4
    <3> QED
      BY <2>5, <2>6, <3>1 DEF ShellTypes
  <2>8. ShellsInOrder'
    <3>1. \A s \in Tool!Shells : s > cur' => s > cur /\ s # cur'
      BY <1>5, <2>6 DEF Tool!Shells
    <3>2. \A s \in Tool!Shells : s > cur' => input'[s] = input[s]
      BY <2>5, <3>1 DEF ShellTypes
    <3> QED
      BY <2>1, <2>6, <3>1, <3>2 DEF ShellInStep, ShellsInOrder
  <2>9. InStep(c)'
    <3>1. Background(queue', Forks')
      BY <1>3, <2>6, BackgroundKept
    <3>2. Says(c, queue', Forks', "up", news, 0)
      BY <2>6, <3>1, BackgroundKept
    <3>3. holds'[cur'] \subseteq Forks'
      BY <1>3, <2>1, <2>6
    <3> QED
      BY <1>3, <2>1, <2>2, <2>4, <2>6, <2>7, <3>2, <3>3 DEF InStep
  <2>10. CallIsInStep' /\ IdleIsQuiet'
    BY <2>2, <2>9 DEF CallIsInStep, IdleIsQuiet
  <2>11. AllOwn'
    BY <1>4, <2>1 DEF ShellInStep, AllOwn, Tool!Own, ShellTypes
  <2> QED
    BY <2>8, <2>10, <2>11 DEF ShellInStep
<1>7. CASE Tool!RunBroken(c)
  <2>1. /\ shell' = [shell EXCEPT ![cur] = "gone"] /\ UNCHANGED <<cur, holds, command, queue>>
        /\ input' = [input EXCEPT ![cur] = <<>>] /\ fg' = [fg EXCEPT ![cur] = 0]
        /\ result' = [result EXCEPT ![c].end = "broken"]
    BY <1>7 DEF Tool!RunBroken
  <2>2. ShellsInOrder'
    <3>1. \A s \in Tool!Shells : s > cur => s # cur
      BY <1>5 DEF Tool!Shells
    <3> QED
      BY <1>5, <2>1, <3>1 DEF ShellInStep, ShellsInOrder, ShellTypes
  <2>3. CallIsInStep' /\ IdleIsQuiet'
    BY <1>5, <2>1 DEF CallIsInStep, IdleIsQuiet, ShellTypes
  <2>4. \A d \in Tool!Commands : /\ result'[d].marker = result[d].marker
                                 /\ result'[d].lines = result[d].lines
    BY <2>1 DEF ShellTypes
  <2>5. AllOwn'
    BY <1>4, <2>4 DEF ShellInStep, AllOwn, Tool!Own, ShellTypes
  <2> QED
    BY <2>2, <2>3, <2>5 DEF ShellInStep
<1> QED
  BY <1>6, <1>7

(* What a call returns is its own. *)
LEMMA ReturnIsOwn ==
  ASSUME ShellTypes, ShellInStep, command.cmd # 0, UNCHANGED kind,
         NEW end, NEW m \in {0, command.cmd}, Tool!Return(end, m)
  PROVE  AllOwn' /\ CallIsInStep' /\ command'.cmd = 0
<1>1. InStep(command.cmd)
  BY DEF ShellInStep, CallIsInStep
<1>2. command.cmd \in Tool!Commands /\ command.lines \subseteq Forks \cup {command.cmd}
  BY <1>1 DEF InStep
<1>3. result' = [result EXCEPT ![command.cmd] =
                   [end |-> end, marker |-> m, lines |-> command.lines]]
      /\ command'.cmd = 0
  BY DEF Tool!Return, Tool!NoCall
<1>4. ASSUME NEW d \in Tool!Commands PROVE Tool!Own(d)'
  <2>1. CASE d = command.cmd
    BY <1>2, <1>3, <2>1 DEF Tool!Own, ShellTypes, Forks
  <2>2. CASE d # command.cmd
    <3>1. result'[d] = result[d]
      BY <1>2, <1>3, <2>2 DEF ShellTypes
    <3> QED
      BY <3>1 DEF ShellInStep, AllOwn, Tool!Own
  <2> QED
    BY <2>1, <2>2
<1> QED
  BY <1>3, <1>4 DEF AllOwn, CallIsInStep

LEMMA CallStep ==
  ASSUME ShellTypes, ShellInStep,
         Tool!Take \/ Tool!Deadline \/ Tool!GraceOver \/ Tool!Stopped \/ Tool!Stop
  PROVE  ShellInStep'
<1>1. /\ UNCHANGED <<cur, input, fg, holds, kind>> /\ cur \in Tool!Shells
      /\ UNCHANGED shell \/ Tool!Terminate
  BY DEF Tool!Take, Tool!Deadline, Tool!GraceOver, Tool!Stopped, Tool!Stop, ShellTypes
<1>2. /\ \A t \in Tool!Shells : t # cur => shell'[t] = shell[t]
      /\ shell'[cur] \in {shell[cur], "dying"}
  BY <1>1 DEF Tool!Terminate, ShellTypes
<1>3. ShellsInOrder'
  <2>1. \A t \in Tool!Shells : t > cur => t # cur
    BY <1>1 DEF Tool!Shells
  <2> QED
    BY <1>1, <1>2, <2>1 DEF ShellInStep, ShellsInOrder
<1>4. UNCHANGED Forks
  BY <1>1 DEF Forks
<1>5. command.cmd # 0 => command.cmd \in Tool!Commands /\ InStep(command.cmd)
  BY DEF ShellInStep, CallIsInStep, InStep
<1>6. CASE Tool!Take
  <2> DEFINE item == Head(queue)
  <2>1. /\ command.cmd # 0 /\ queue \in Seq(Items) /\ queue # <<>>
        /\ queue' = Tail(queue) /\ UNCHANGED shell
        /\ \/ /\ item.what = "line"
              /\ command' = [command EXCEPT !.late = abort, !.lines = @ \cup {item.of}]
              /\ UNCHANGED result
           \/ item.what = "marker" /\ Tool!Return("marker", item.of)
           \/ item.what = "eof" /\ Tool!Return("eof", 0)
    BY <1>6 DEF Tool!Take, Tool!Idle, ShellTypes
  <2>2. PICK c \in Tool!Commands : c = command.cmd
    BY <1>5, <2>1
  <2>3. InStep(c)
    BY <1>5, <2>1, <2>2
  <2>4. \/ item.what = "line" /\ item.of \in Forks \cup {c}
        \/ item.what = "eof" /\ shell[cur] = "gone"
        \/ item.what = "marker" /\ item.of = c /\ input[cur] = <<>> /\ fg[cur] = 0
    <3>1. 1 \in DOMAIN queue /\ item = queue[1]
      BY <2>1, HeadTailProperties
    <3> QED
      BY <2>3, <3>1 DEF InStep, Says
  <2>5. Says(c, Tail(queue), Forks, shell[cur], input[cur], fg[cur])
    BY <2>1, <2>3, SaysTail DEF InStep
  <2>6. CASE item.what = "line"
    <3>1. /\ command' = [command EXCEPT !.late = abort, !.lines = @ \cup {item.of}]
          /\ UNCHANGED result /\ item.of \in Forks \cup {c}
      BY <2>1, <2>4, <2>6
    <3>2. command'.cmd = c /\ command'.lines = command.lines \cup {item.of}
      BY <2>2, <3>1 DEF ShellTypes
    <3> HIDE DEF item
    <3>3. InStep(c)'
      BY <1>1, <1>4, <2>1, <2>3, <2>5, <3>1, <3>2 DEF InStep
    <3>4. CallIsInStep' /\ IdleIsQuiet'
      BY <2>1, <2>2, <3>2, <3>3 DEF CallIsInStep, IdleIsQuiet
    <3>5. AllOwn'
      BY <1>1, <3>1 DEF ShellInStep, AllOwn, Tool!Own
    <3> QED
      BY <1>3, <3>4, <3>5 DEF ShellInStep
  <2>7. CASE item.what = "eof"
    <3>1. Tool!Return("eof", 0) /\ shell[cur] = "gone"
      BY <2>1, <2>4, <2>7
    <3>2. AllOwn' /\ CallIsInStep'
      BY <1>1, <2>1, <3>1, ReturnIsOwn
    <3>3. IdleIsQuiet'
      BY <1>1, <2>1, <3>1 DEF IdleIsQuiet
    <3> QED
      BY <1>3, <3>2, <3>3 DEF ShellInStep
  <2>8. CASE item.what = "marker"
    <3>1. Tool!Return("marker", c) /\ input[cur] = <<>> /\ fg[cur] = 0
      BY <2>1, <2>4, <2>8
    <3>2. AllOwn' /\ CallIsInStep'
      BY <1>1, <2>1, <2>2, <3>1, ReturnIsOwn
    <3>3. shell[cur] = "up" => Background(Tail(queue), Forks)
      BY <2>1, <2>3, <2>8, AfterTheMarker DEF InStep
    <3>4. holds[cur] \subseteq Forks
      BY <2>2, <2>3, <3>1 DEF InStep, Tool!Commands
    <3>5. IdleIsQuiet'
      BY <1>1, <1>4, <2>1, <3>1, <3>3, <3>4 DEF IdleIsQuiet
    <3> QED
      BY <1>3, <3>2, <3>5 DEF ShellInStep
  <2> QED
    BY <2>4, <2>6, <2>7, <2>8
<1>7. CASE Tool!GraceOver \/ Tool!Stopped
  <2>1. PICK end \in {"wedged", "stopped"} : Tool!Return(end, 0)
    BY <1>7 DEF Tool!GraceOver, Tool!Stopped
  <2>2. command.cmd # 0
    BY <1>7 DEF Tool!GraceOver, Tool!Stopped, Tool!Idle, ShellTypes, Tool!NoCall, Tool!None
  <2>3. AllOwn' /\ CallIsInStep'
    BY <1>1, <2>1, <2>2, ReturnIsOwn
  <2>4. shell'[cur] # "up"
    BY <1>1, <1>7 DEF Tool!GraceOver, Tool!Stopped, Tool!Terminate, ShellTypes
  <2>5. IdleIsQuiet'
    BY <1>1, <2>4 DEF IdleIsQuiet
  <2> QED
    BY <1>3, <2>3, <2>5 DEF ShellInStep
<1>8. CASE Tool!Deadline \/ Tool!Stop
  <2>1. UNCHANGED <<shell, queue, result>> /\ command.cmd # 0
        /\ command'.cmd = command.cmd /\ command'.lines = command.lines
    BY <1>8 DEF Tool!Deadline, Tool!Stop, Tool!Idle, ShellTypes, Tool!NoCall, Tool!None
  <2>2. PICK c \in Tool!Commands : c = command.cmd
    BY <1>5, <2>1
  <2>3. InStep(c)'
    BY <1>1, <1>4, <1>5, <2>1, <2>2 DEF InStep
  <2>4. CallIsInStep' /\ IdleIsQuiet'
    BY <2>1, <2>2, <2>3 DEF CallIsInStep, IdleIsQuiet
  <2>5. AllOwn'
    BY <1>1, <2>1 DEF ShellInStep, AllOwn, Tool!Own
  <2> QED
    BY <1>3, <2>4, <2>5 DEF ShellInStep
<1> QED
  BY <1>6, <1>7, <1>8

LEMMA ShellStaysInStep ==
  ASSUME ShellInv, [Tool!Next]_shellVars
  PROVE  ShellInv'
<1>1. ShellTypes' /\ KindsAreFinal'
  BY ShellTyped, KindsStay DEF ShellInv
<1>2. ASSUME poisoned' = {} PROVE ShellInStep'
  <2>1. ShellTypes /\ KindsAreFinal /\ ShellInStep
    BY <1>2, PoisonStays DEF ShellInv
  <2>2. CASE UNCHANGED shellVars
    BY <2>1, <2>2, FormerShells DEF shellVars
  <2>3. ASSUME NEW s \in Tool!Shells,
               \/ Tool!ShellReads(s) \/ Tool!Eats(s) \/ Tool!Ends(s) \/ Tool!Dies(s)
               \/ Tool!ReaderEnds(s) \/ \E c \in Tool!Commands : Tool!Prints(s, c)
               \/ \E c \in Tool!Commands : Tool!OrphanEnds(s, c)
        PROVE  ShellInStep'
    <3>1. CASE s # cur
      BY <1>2, <2>1, <2>3, <3>1, OthersStep
    <3>2. CASE s = cur
      BY <2>1, <2>3, <3>2, CurrentReads, CurrentEnds, CurrentSpeaks
    <3> QED
      BY <3>1, <3>2
  <2>4. ASSUME NEW c \in Tool!Commands, Tool!Run(c) \/ Tool!RunBroken(c) PROVE ShellInStep'
    BY <1>2, <2>1, <2>4, RunStep
  <2>5. CASE Tool!Take \/ Tool!Deadline \/ Tool!GraceOver \/ Tool!Stopped \/ Tool!Stop
    BY <2>1, <2>5, CallStep
  <2> QED
    BY <2>2, <2>3, <2>4, <2>5 DEF Tool!Next
<1> QED
  BY <1>1, <1>2 DEF ShellInv

(* LocalExecutor.run: a command ends on its own marker and shows the lines *)
(* of no other command of the foreground, whatever it does, however many   *)
(* deadlines pass or Stops come, unless the reader of a closed shell wrote *)
(* into its successor's queue or a command was given to a shell that was   *)
(* on its way out.                                                         *)
THEOREM OutputsAreOwn == Spec => []OutputIsOwn
<1>1. Tool!ShellAssumption
  BY PartsAssumption
<1>2. Init => ShellInv
  BY <1>1, ShellInit DEF Init
<1>3. ShellInv /\ [Next]_<<part, chatVars, bridgeVars, shellVars, storeVars, clientVars,
                           kitVars>>
        => ShellInv'
  <2>1. [Next]_<<part, chatVars, bridgeVars, shellVars, storeVars, clientVars, kitVars>>
          => [Tool!Next]_shellVars
    BY DEF Next, ChatStep, BridgeStep, ShellStep, AccountStep, McpStep, KitStep
  <2> QED
    BY <2>1, ShellStaysInStep
<1>4. ShellInv => OutputIsOwn
  BY DEF ShellInv, OutputIsOwn, Tool!OutputIsOwn, ShellInStep, AllOwn
<1> QED
  BY <1>2, <1>3, <1>4, PTL DEF Spec

-----------------------------------------------------------------------------
(* Accounts: what the user removed stays removed. *)

CallsAre ==
  {r \in [op : {"none", "connect", "filters", "default", "remove", "use"},
          of : Store!Maybe(Mailboxes), phase : {"none", "cloud", "local", "write"},
          read : Store!Profiles] : r.op \in {"none", "filters"} \/ r.of \in Mailboxes}

AccountTypes ==
  /\ accounts \in [Mailboxes -> {"none", "pasted", "managed"}] /\ default \in Store!Profiles
  /\ session \in {"out", "fresh", "stale"} /\ online \in BOOLEAN
  /\ calls \in [Calls -> CallsAre]
  /\ edits \in 0..MaxEdits /\ wanted \subseteq Mailboxes /\ policy \in BOOLEAN
  /\ excused \subseteq Mailboxes \cup {"policy"}
SlackTypes ==
  /\ teams \subseteq Teams /\ removing \subseteq Teams /\ armed \in BOOLEAN
  /\ slack \in [here : BOOLEAN, relay : BOOLEAN, enabled : BOOLEAN, tokens : BOOLEAN]

(* An account that is there, or that some call will write, is one the user *)
(* wants or an excuse was recorded for.                                    *)
Known ==
  \A m \in Mailboxes :
    \/ accounts[m] # "none"
    \/ default.token = m
    \/ \E c \in Calls : (calls[c].op = "use" /\ calls[c].of = m) \/ calls[c].read.token = m
    => m \in wanted \cup excused

AccountInv ==
  AccountTypes /\ SlackTypes /\ Known /\ Store!PolicyIsKept /\ Store!OldTokensStaySilent

LEMMA Migrated ==
  ASSUME Store!AccountsAssumption, AccountTypes
  PROVE  /\ Store!MigratedAccounts \in [Mailboxes -> {"none", "pasted", "managed"}]
         /\ Store!MigratedDefault \in Store!Profiles
         /\ Store!MigratedDefault.token = "none"
         /\ \A m \in Mailboxes :
              Store!MigratedAccounts[m] # "none" => accounts[m] # "none" \/ default.token = m
  BY 
     DEF AccountTypes, Store!MigratedAccounts, Store!MigratedDefault, Store!Profiles,
         Store!Maybe,
         Store!None, Store!AccountsAssumption

LEMMA HoldTyped ==
  ASSUME AccountTypes, NEW c \in Calls, NEW m \in Mailboxes, NEW profile \in Store!Profiles,
         NEW op \in {"connect", "default", "remove"}, Store!Hold(c, op, m, profile)
  PROVE  calls' \in [Calls -> CallsAre]
<1>1. [op |-> op, of |-> m, phase |-> "write", read |-> profile] \in CallsAre
  BY DEF CallsAre, Store!Maybe
<1> QED
  BY <1>1 DEF Store!Hold, AccountTypes

LEMMA ReturnTyped ==
  ASSUME AccountTypes, NEW c \in Calls, Store!Return(c)
  PROVE  calls' \in [Calls -> CallsAre]
<1>1. Store!NoCall \in CallsAre
  BY DEF Store!NoCall, Store!NoProfile, CallsAre, Store!Profiles, Store!Maybe, Store!None
<1> QED
  BY <1>1 DEF Store!Return, AccountTypes

LEMMA ConnectKeeps ==
  ASSUME NEW c \in Calls, NEW m \in Mailboxes, Store!AccountsAssumption,
         AccountTypes, Known, Store!PolicyIsKept, Store!Connect(c, m)
  PROVE  AccountTypes' /\ Known' /\ Store!PolicyIsKept'
<1>1. AccountTypes'
  <2>1. accounts' = [Store!MigratedAccounts EXCEPT ![m] = "managed"]
        /\ default' = Store!MigratedDefault
        /\ Store!Hold(c, "connect", m, Store!MigratedDefault) /\ edits' \in 0..MaxEdits
        /\ wanted' = wanted \cup {m} /\ UNCHANGED <<session, online, policy, excused>>
    BY DEF Store!Connect, Store!Edit, AccountTypes, Store!AccountsAssumption
  <2>2. calls' \in [Calls -> CallsAre]
    BY <2>1, Migrated, HoldTyped DEF Store!Maybe
  <2> QED
    BY <2>1, <2>2, Migrated DEF AccountTypes
<1>2. Known'
  BY 
     DEF Store!Connect, Store!Edit, Store!Hold, Store!MigratedAccounts,
         Store!MigratedDefault, AccountTypes, CallsAre, Store!Profiles, Store!Maybe,
         Store!None, Store!NoCall, Store!NoProfile, Known, Store!AccountsAssumption
<1>3. Store!PolicyIsKept'
  BY 
     DEF Store!Connect, Store!Edit, Store!Hold, Store!MigratedAccounts,
         Store!MigratedDefault, AccountTypes, CallsAre, Store!Profiles, Store!Maybe,
         Store!None, Store!NoCall, Store!NoProfile, Store!PolicyIsKept,
         Store!AccountsAssumption
<1> QED
  BY <1>1, <1>2, <1>3

LEMMA SetDefaultKeeps ==
  ASSUME NEW c \in Calls, NEW m \in Mailboxes, Store!AccountsAssumption,
         AccountTypes, Known, Store!PolicyIsKept, Store!SetDefault(c, m)
  PROVE  AccountTypes' /\ Known' /\ Store!PolicyIsKept'
<1>1. AccountTypes'
  BY 
     DEF Store!SetDefault, Store!Edit, Store!Hold, AccountTypes, CallsAre, Store!Profiles,
         Store!Maybe, Store!None, Store!NoCall, Store!NoProfile, Store!AccountsAssumption
<1>2. Known'
  BY 
     DEF Store!SetDefault, Store!Edit, Store!Hold, AccountTypes, CallsAre, Store!Profiles,
         Store!Maybe, Store!None, Store!NoCall, Store!NoProfile, Known,
         Store!AccountsAssumption
<1>3. Store!PolicyIsKept'
  BY 
     DEF Store!SetDefault, Store!Edit, Store!Hold, AccountTypes, CallsAre, Store!Profiles,
         Store!Maybe, Store!None, Store!NoCall, Store!NoProfile, Store!PolicyIsKept,
         Store!AccountsAssumption
<1> QED
  BY <1>1, <1>2, <1>3

LEMMA RemoveKeeps ==
  ASSUME NEW c \in Calls, NEW m \in Mailboxes, Store!AccountsAssumption,
         AccountTypes, Known, Store!PolicyIsKept, Store!Remove(c, m)
  PROVE  AccountTypes' /\ Known' /\ Store!PolicyIsKept'
<1>1. AccountTypes'
  <2>1. PICK p \in {"cloud", "local"} :
          calls' = [calls EXCEPT ![c] = [Store!NoCall EXCEPT !.op = "remove", !.of = m,
                                                             !.phase = p]]
    BY DEF Store!Remove
  <2>2. [Store!NoCall EXCEPT !.op = "remove", !.of = m, !.phase = p] \in CallsAre
    BY DEF Store!NoCall, Store!NoProfile, CallsAre, Store!Profiles, Store!Maybe, Store!None
  <2>3. calls' \in [Calls -> CallsAre]
    BY <2>1, <2>2 DEF AccountTypes
  <2>4. edits' \in 0..MaxEdits
        /\ UNCHANGED <<accounts, default, session, online, wanted, policy, excused>>
    BY DEF Store!Remove, Store!Edit, AccountTypes, Store!AccountsAssumption
  <2> QED
    BY <2>3, <2>4 DEF AccountTypes
<1>2. Known'
  BY 
     DEF Store!Remove, Store!Edit, AccountTypes, CallsAre, Store!Profiles, Store!Maybe,
         Store!None, Store!NoCall, Store!NoProfile, Known, Store!AccountsAssumption
<1>3. Store!PolicyIsKept'
  BY 
     DEF Store!Remove, Store!Edit, AccountTypes, CallsAre, Store!Profiles, Store!Maybe,
         Store!None, Store!NoCall, Store!NoProfile, Store!PolicyIsKept,
         Store!AccountsAssumption
<1> QED
  BY <1>1, <1>2, <1>3

LEMMA PickKeeps ==
  ASSUME NEW c \in Calls, NEW m \in Mailboxes, Store!AccountsAssumption,
         AccountTypes, Known, Store!PolicyIsKept, Store!Pick(c, m)
  PROVE  AccountTypes' /\ Known' /\ Store!PolicyIsKept'
<1>1. AccountTypes'
  <2>1. accounts' = Store!MigratedAccounts /\ default' = Store!MigratedDefault
        /\ UNCHANGED <<session, online, wanted, policy, excused, edits>>
        /\ \/ UNCHANGED calls
           \/ calls' = [calls EXCEPT ![c] = [Store!NoCall EXCEPT !.op = "use", !.of = m,
                                                                !.phase = "cloud"]]
    BY DEF Store!Pick
  <2>2. [Store!NoCall EXCEPT !.op = "use", !.of = m, !.phase = "cloud"] \in CallsAre
    BY DEF Store!NoCall, Store!NoProfile, CallsAre, Store!Profiles, Store!Maybe, Store!None
  <2>3. calls' \in [Calls -> CallsAre]
    BY <2>1, <2>2 DEF AccountTypes
  <2> QED
    BY <2>1, <2>3, Migrated DEF AccountTypes
<1>2. Known'
  <2>1. Store!MigratedAccounts[m] # "none" /\ accounts' = Store!MigratedAccounts
        /\ default' = Store!MigratedDefault /\ UNCHANGED <<wanted, excused>>
        /\ \/ UNCHANGED calls
           \/ calls' = [calls EXCEPT ![c] = [Store!NoCall EXCEPT !.op = "use", !.of = m,
                                                                !.phase = "cloud"]]
    BY DEF Store!Pick, Store!None
  <2>2. m \in wanted \cup excused
    BY <2>1, Migrated DEF Known
  <2>3. ASSUME NEW d \in Calls, NEW n \in Mailboxes,
               (calls'[d].op = "use" /\ calls'[d].of = n) \/ calls'[d].read.token = n
        PROVE  n \in wanted \cup excused
    <3>1. CASE calls'[d] = calls[d]
      BY <2>3, <3>1 DEF Known
    <3>2. CASE calls'[d] = [Store!NoCall EXCEPT !.op = "use", !.of = m, !.phase = "cloud"]
      <4>1. calls'[d].of = m /\ calls'[d].read.token = "none"
        BY <3>2 DEF Store!NoCall, Store!NoProfile, Store!None
      <4> QED
        BY <2>2, <2>3, <4>1 DEF Store!AccountsAssumption, Store!None
    <3> QED
      BY <2>1, <3>1, <3>2 DEF AccountTypes
  <2>4. ASSUME NEW n \in Mailboxes, accounts'[n] # "none" \/ default'.token = n
        PROVE  n \in wanted \cup excused
    BY <2>1, <2>4, Migrated DEF Known, Store!AccountsAssumption, Store!None
  <2> QED
    BY <2>1, <2>3, <2>4 DEF Known
<1>3. Store!PolicyIsKept'
  BY 
     DEF Store!Pick, Store!MigratedAccounts, Store!MigratedDefault, AccountTypes, CallsAre,
         Store!Profiles, Store!Maybe, Store!None, Store!NoCall, Store!NoProfile,
         Store!PolicyIsKept, Store!AccountsAssumption
<1> QED
  BY <1>1, <1>2, <1>3

LEMMA ConnectEndsKeeps ==
  ASSUME NEW c \in Calls, Store!AccountsAssumption,
         AccountTypes, Known, Store!PolicyIsKept, Store!ConnectEnds(c)
  PROVE  AccountTypes' /\ Known' /\ Store!PolicyIsKept'
<1>1. AccountTypes'
  BY 
     DEF Store!ConnectEnds, Store!InCall, Store!Overlap, Store!Return, AccountTypes,
         CallsAre, Store!Profiles, Store!Maybe, Store!None, Store!NoCall, Store!NoProfile,
         Store!AccountsAssumption
<1>2. Known'
  BY 
     DEF Store!ConnectEnds, Store!InCall, Store!Overlap, Store!Return, AccountTypes,
         CallsAre, Store!Profiles, Store!Maybe, Store!None, Store!NoCall, Store!NoProfile,
         Known, Store!AccountsAssumption
<1>3. Store!PolicyIsKept'
  BY 
     DEF Store!ConnectEnds, Store!InCall, Store!Overlap, Store!Return, AccountTypes,
         CallsAre, Store!Profiles, Store!Maybe, Store!None, Store!NoCall, Store!NoProfile,
         Store!PolicyIsKept, Store!AccountsAssumption
<1> QED
  BY <1>1, <1>2, <1>3

LEMMA FiltersKeeps ==
  ASSUME NEW c \in Calls, Store!AccountsAssumption,
         AccountTypes, Known, Store!PolicyIsKept, Store!Filters(c)
  PROVE  AccountTypes' /\ Known' /\ Store!PolicyIsKept'
<1>1. AccountTypes'
  BY 
     DEF Store!Filters, Store!Edit, Store!Hold, AccountTypes, CallsAre, Store!Profiles,
         Store!Maybe, Store!None, Store!NoCall, Store!NoProfile, Store!AccountsAssumption
<1>2. Known'
  BY 
     DEF Store!Filters, Store!Edit, Store!Hold, AccountTypes, CallsAre, Store!Profiles,
         Store!Maybe, Store!None, Store!NoCall, Store!NoProfile, Known,
         Store!AccountsAssumption
<1>3. Store!PolicyIsKept'
  BY 
     DEF Store!Filters, Store!Edit, Store!Hold, AccountTypes, CallsAre, Store!Profiles,
         Store!Maybe, Store!None, Store!NoCall, Store!NoProfile, Store!PolicyIsKept,
         Store!AccountsAssumption
<1> QED
  BY <1>1, <1>2, <1>3

LEMMA FiltersEndsKeeps ==
  ASSUME NEW c \in Calls, Store!AccountsAssumption,
         AccountTypes, Known, Store!PolicyIsKept, Store!FiltersEnds(c)
  PROVE  AccountTypes' /\ Known' /\ Store!PolicyIsKept'
<1>1. AccountTypes'
  BY 
     DEF Store!FiltersEnds, Store!InCall, Store!Overlap, Store!Return, AccountTypes,
         CallsAre, Store!Profiles, Store!Maybe, Store!None, Store!NoCall, Store!NoProfile,
         Store!AccountsAssumption
<1>2. Known'
  BY 
     DEF Store!FiltersEnds, Store!InCall, Store!Overlap, Store!Return, AccountTypes,
         CallsAre, Store!Profiles, Store!Maybe, Store!None, Store!NoCall, Store!NoProfile,
         Known, Store!AccountsAssumption
<1>3. Store!PolicyIsKept'
  BY 
     DEF Store!FiltersEnds, Store!InCall, Store!Overlap, Store!Return, AccountTypes,
         CallsAre, Store!Profiles, Store!Maybe, Store!None, Store!NoCall, Store!NoProfile,
         Store!PolicyIsKept, Store!AccountsAssumption
<1> QED
  BY <1>1, <1>2, <1>3

LEMMA SetDefaultEndsKeeps ==
  ASSUME NEW c \in Calls, Store!AccountsAssumption,
         AccountTypes, Known, Store!PolicyIsKept, Store!SetDefaultEnds(c)
  PROVE  AccountTypes' /\ Known' /\ Store!PolicyIsKept'
<1>1. AccountTypes'
  BY 
     DEF Store!SetDefaultEnds, Store!InCall, Store!Overlap, Store!Return, AccountTypes,
         CallsAre, Store!Profiles, Store!Maybe, Store!None, Store!NoCall, Store!NoProfile,
         Store!AccountsAssumption
<1>2. Known'
  BY 
     DEF Store!SetDefaultEnds, Store!InCall, Store!Overlap, Store!Return, AccountTypes,
         CallsAre, Store!Profiles, Store!Maybe, Store!None, Store!NoCall, Store!NoProfile,
         Known, Store!AccountsAssumption
<1>3. Store!PolicyIsKept'
  BY 
     DEF Store!SetDefaultEnds, Store!InCall, Store!Overlap, Store!Return, AccountTypes,
         CallsAre, Store!Profiles, Store!Maybe, Store!None, Store!NoCall, Store!NoProfile,
         Store!PolicyIsKept, Store!AccountsAssumption
<1> QED
  BY <1>1, <1>2, <1>3

LEMMA RemoveAsksCloudKeeps ==
  ASSUME NEW c \in Calls, Store!AccountsAssumption,
         AccountTypes, Known, Store!PolicyIsKept, Store!RemoveAsksCloud(c)
  PROVE  AccountTypes' /\ Known' /\ Store!PolicyIsKept'
<1>1. AccountTypes'
  <2>1. \/ Store!Return(c) /\ UNCHANGED session
        \/ /\ calls' = [calls EXCEPT ![c].phase = "local"]
           /\ session' \in {"out", "fresh", "stale"}
    BY DEF Store!RemoveAsksCloud, AccountTypes
  <2>2. calls' \in [Calls -> CallsAre]
    <3>1. CASE Store!Return(c)
      BY <3>1, ReturnTyped
    <3>2. CASE calls' = [calls EXCEPT ![c].phase = "local"]
      BY <3>2 DEF AccountTypes, CallsAre
    <3> QED
      BY <2>1, <3>1, <3>2
  <2> QED
    BY <2>1, <2>2 DEF AccountTypes, Store!RemoveAsksCloud
<1>2. Known'
  BY 
     DEF Store!RemoveAsksCloud, Store!InCall, Store!Return, AccountTypes, CallsAre,
         Store!Profiles, Store!Maybe, Store!None, Store!NoCall, Store!NoProfile, Known,
         Store!AccountsAssumption
<1>3. Store!PolicyIsKept'
  BY 
     DEF Store!RemoveAsksCloud, Store!InCall, Store!Return, AccountTypes, CallsAre,
         Store!Profiles, Store!Maybe, Store!None, Store!NoCall, Store!NoProfile,
         Store!PolicyIsKept, Store!AccountsAssumption
<1> QED
  BY <1>1, <1>2, <1>3

LEMMA RemoveLocallyKeeps ==
  ASSUME NEW c \in Calls, Store!AccountsAssumption,
         AccountTypes, Known, Store!PolicyIsKept, Store!RemoveLocally(c)
  PROVE  AccountTypes' /\ Known' /\ Store!PolicyIsKept'
<1>1. AccountTypes'
  <2> DEFINE m == calls[c].of
  <2>1. CASE accounts[m] = "none"
    <3>1. Store!Return(c)
          /\ UNCHANGED <<accounts, default, wanted, excused, session, online, policy, edits>>
      BY <2>1 DEF Store!RemoveLocally, Store!None
    <3> QED
      BY <3>1, ReturnTyped DEF AccountTypes
  <2>2. CASE accounts[m] # "none"
    <3>1. /\ accounts' = IF default.token = "none" THEN [accounts EXCEPT ![m] = "none"]
                         ELSE [accounts EXCEPT ![m] = "none", ![default.token] = "pasted"]
          /\ default' = Store!MigratedDefault
          /\ Store!Hold(c, "remove", m, Store!MigratedDefault)
          /\ wanted' = wanted \ {m} /\ excused' = excused \cup Store!Shadows({m})
          /\ UNCHANGED <<session, online, policy, edits>>
      BY <2>2 DEF Store!RemoveLocally, Store!None
    <3>2. m \in Mailboxes
      BY DEF AccountTypes, CallsAre, Store!RemoveLocally, Store!InCall
    <3> HIDE DEF m
    <3>3. calls' \in [Calls -> CallsAre]
      BY <3>1, <3>2, Migrated, HoldTyped
    <3>4. accounts' \in [Mailboxes -> {"none", "pasted", "managed"}]
      BY <3>1 DEF AccountTypes
    <3>5. excused' \subseteq Mailboxes \cup {"policy"}
      BY <3>1, <3>2 DEF AccountTypes, Store!Shadows
    <3> QED
      BY <3>1, <3>3, <3>4, <3>5, Migrated DEF AccountTypes
  <2> QED
    BY <2>1, <2>2
<1>2. Known'
  <2> DEFINE m == calls[c].of
  <2>1. CASE accounts[m] = "none"
    <3>1. Store!Return(c) /\ UNCHANGED <<accounts, default, wanted, excused>>
      BY <2>1 DEF Store!RemoveLocally, Store!None
    <3> QED
      BY <3>1
         DEF Known, Store!Return, Store!NoCall, Store!NoProfile, Store!None, AccountTypes,
         Store!AccountsAssumption
  <2>2. CASE accounts[m] # "none"
    <3>1. /\ accounts' = IF default.token = "none" THEN [accounts EXCEPT ![m] = "none"]
                         ELSE [accounts EXCEPT ![m] = "none", ![default.token] = "pasted"]
          /\ default' = Store!MigratedDefault
          /\ Store!Hold(c, "remove", m, Store!MigratedDefault)
          /\ wanted' = wanted \ {m} /\ excused' = excused \cup Store!Shadows({m})
      BY <2>2 DEF Store!RemoveLocally, Store!None
    <3>2. m \in Mailboxes
      BY DEF AccountTypes, CallsAre, Store!RemoveLocally, Store!InCall
    <3> HIDE DEF m
    <3>3. ASSUME NEW n \in Mailboxes, n = m \/ n \in wanted \cup excused,
                 n = m => \/ default.token = m
                          \/ \E d \in Calls : \/ calls[d].of = m /\ calls[d].op = "use"
                                              \/ calls[d].read.token = m
          PROVE  n \in wanted' \cup excused'
      BY <3>1, <3>2, <3>3 DEF Store!Shadows
    <3>4. ASSUME NEW n \in Mailboxes, accounts'[n] # "none"
          PROVE  n \in wanted' \cup excused'
      <4>1. (accounts[n] # "none" /\ n # m) \/ default.token = n
        BY <3>1, <3>2, <3>4 DEF AccountTypes
      <4> QED
        BY <3>3, <4>1 DEF Known
    <3>5. \A n \in Mailboxes : default'.token # n
      BY <3>1, Migrated DEF Store!AccountsAssumption, Store!None
    <3>6. ASSUME NEW n \in Mailboxes, NEW d \in Calls,
                 (calls'[d].op = "use" /\ calls'[d].of = n) \/ calls'[d].read.token = n
          PROVE  n \in wanted' \cup excused'
      <4>1. calls'[d] = calls[d] \/ (calls'[d].op = "remove" /\ calls'[d].read.token = "none")
        BY <3>1, Migrated DEF Store!Hold, AccountTypes
      <4>2. calls'[d] = calls[d]
        BY <3>6, <4>1 DEF Store!AccountsAssumption, Store!None
      <4> QED
        BY <3>3, <3>6, <4>2 DEF Known
    <3> QED
      BY <3>4, <3>5, <3>6 DEF Known
  <2> QED
    BY <2>1, <2>2
<1>3. Store!PolicyIsKept'
  BY 
     DEF Store!RemoveLocally, Store!InCall, Store!Return, Store!Hold, Store!MigratedDefault,
         Store!Shadows, AccountTypes, CallsAre, Store!Profiles, Store!Maybe, Store!None,
         Store!NoCall, Store!NoProfile, Store!PolicyIsKept, Store!AccountsAssumption
<1> QED
  BY <1>1, <1>2, <1>3

LEMMA RemoveEndsKeeps ==
  ASSUME NEW c \in Calls, Store!AccountsAssumption,
         AccountTypes, Known, Store!PolicyIsKept, Store!RemoveEnds(c)
  PROVE  AccountTypes' /\ Known' /\ Store!PolicyIsKept'
<1>1. AccountTypes'
  <2>1. calls' \in [Calls -> CallsAre]
    BY ReturnTyped DEF Store!RemoveEnds
  <2>2. default' \in Store!Profiles
    <3> DEFINE was == calls[c].read
               left == Store!Connected(accounts)
    <3>1. default' = default \/ default' = Store!Unpointed(was, left)
      BY DEF Store!RemoveEnds
    <3>2. was \in Store!Profiles /\ left \subseteq Mailboxes
      BY DEF AccountTypes, CallsAre, Store!Connected
    <3> HIDE DEF was, left
    <3>3. left # {} => (CHOOSE m \in left : TRUE) \in Store!Maybe(Mailboxes)
      BY <3>2 DEF Store!Maybe
    <3>4. ASSUME NEW p \in Store!Maybe(Mailboxes)
          PROVE  [was EXCEPT !.pointer = p] \in Store!Profiles
      BY <3>2 DEF Store!Profiles
    <3>5. "none" \in Store!Maybe(Mailboxes) /\ Store!NoProfile \in Store!Profiles
      BY DEF Store!Maybe, Store!None, Store!NoProfile, Store!Profiles
    <3>6. Store!Unpointed(was, left) \in Store!Profiles
      <4>1. CASE left # {}
        BY <3>3, <3>4, <4>1 DEF Store!Unpointed
      <4>2. CASE left = {}
        BY <3>4, <3>5, <4>2 DEF Store!Unpointed, Store!None
      <4> QED
        BY <4>1, <4>2
    <3> QED
      BY <3>1, <3>6 DEF AccountTypes
  <2>3. excused' \subseteq Mailboxes \cup {"policy"}
    BY DEF Store!RemoveEnds, Store!Overlap, AccountTypes
  <2> QED
    BY <2>1, <2>2, <2>3 DEF AccountTypes, Store!RemoveEnds
<1>2. Known'
  BY 
     DEF Store!RemoveEnds, Store!InCall, Store!Return, Store!Overlap, Store!Unpointed,
         Store!Connected, AccountTypes, CallsAre, Store!Profiles, Store!Maybe, Store!None,
         Store!NoCall, Store!NoProfile, Known, Store!AccountsAssumption
<1>3. Store!PolicyIsKept'
  <2> DEFINE was == calls[c].read
             left == Store!Connected(accounts)
  <2>1. \/ UNCHANGED <<default, excused, policy>>
        \/ /\ default' = Store!Unpointed(was, left) /\ UNCHANGED policy
           /\ excused' = excused \cup (IF default = was THEN {} ELSE {"policy"})
    BY DEF Store!RemoveEnds, Store!Overlap
  <2> HIDE DEF left
  <2>2. CASE UNCHANGED <<default, excused, policy>>
    BY <2>2 DEF Store!PolicyIsKept
  <2>3. CASE /\ default' = Store!Unpointed(was, left) /\ UNCHANGED policy
             /\ excused' = excused \cup (IF default = was THEN {} ELSE {"policy"})
    <3>1. CASE default # was
      BY <2>3, <3>1 DEF Store!PolicyIsKept
    <3>2. CASE default = was
      <4>1. default.filters \in BOOLEAN /\ default \in Store!Profiles
        BY DEF AccountTypes, Store!Profiles
      <4>2. Store!Unpointed(default, left).filters = default.filters
        BY <4>1 DEF Store!Unpointed, Store!NoProfile, Store!Profiles
      <4> QED
        BY <2>3, <3>2, <4>2 DEF Store!PolicyIsKept
    <3> QED
      BY <3>1, <3>2
  <2> QED
    BY <2>1, <2>2, <2>3
<1> QED
  BY <1>1, <1>2, <1>3

LEMMA RenewedKeeps ==
  ASSUME NEW c \in Calls, Store!AccountsAssumption,
         AccountTypes, Known, Store!PolicyIsKept, Store!Renewed(c)
  PROVE  AccountTypes' /\ Known' /\ Store!PolicyIsKept'
<1>1. AccountTypes'
  BY 
     DEF Store!Renewed, Store!InCall, Store!Return, AccountTypes, CallsAre, Store!Profiles,
         Store!Maybe, Store!None, Store!NoCall, Store!NoProfile, Store!AccountsAssumption
<1>2. Known'
  BY 
     DEF Store!Renewed, Store!InCall, Store!Return, AccountTypes, CallsAre, Store!Profiles,
         Store!Maybe, Store!None, Store!NoCall, Store!NoProfile, Known,
         Store!AccountsAssumption
<1>3. Store!PolicyIsKept'
  BY 
     DEF Store!Renewed, Store!InCall, Store!Return, AccountTypes, CallsAre, Store!Profiles,
         Store!Maybe, Store!None, Store!NoCall, Store!NoProfile, Store!PolicyIsKept,
         Store!AccountsAssumption
<1> QED
  BY <1>1, <1>2, <1>3

LEMMA NotRenewedKeeps ==
  ASSUME NEW c \in Calls, Store!AccountsAssumption,
         AccountTypes, Known, Store!PolicyIsKept, Store!NotRenewed(c)
  PROVE  AccountTypes' /\ Known' /\ Store!PolicyIsKept'
<1>1. AccountTypes'
  BY 
     DEF Store!NotRenewed, Store!InCall, Store!Return, AccountTypes, CallsAre,
         Store!Profiles, Store!Maybe, Store!None, Store!NoCall, Store!NoProfile,
         Store!AccountsAssumption
<1>2. Known'
  BY 
     DEF Store!NotRenewed, Store!InCall, Store!Return, AccountTypes, CallsAre,
         Store!Profiles, Store!Maybe, Store!None, Store!NoCall, Store!NoProfile, Known,
         Store!AccountsAssumption
<1>3. Store!PolicyIsKept'
  BY 
     DEF Store!NotRenewed, Store!InCall, Store!Return, AccountTypes, CallsAre,
         Store!Profiles, Store!Maybe, Store!None, Store!NoCall, Store!NoProfile,
         Store!PolicyIsKept, Store!AccountsAssumption
<1> QED
  BY <1>1, <1>2, <1>3

LEMMA PasteKeeps ==
  ASSUME NEW m \in Mailboxes, Store!AccountsAssumption,
         AccountTypes, Known, Store!PolicyIsKept, Store!Paste(m)
  PROVE  AccountTypes' /\ Known' /\ Store!PolicyIsKept'
<1>1. AccountTypes'
  BY 
     DEF Store!Paste, Store!Edit, AccountTypes, CallsAre, Store!Profiles, Store!Maybe,
         Store!None, Store!NoCall, Store!NoProfile, Store!AccountsAssumption
<1>2. Known'
  BY 
     DEF Store!Paste, Store!Edit, AccountTypes, CallsAre, Store!Profiles, Store!Maybe,
         Store!None, Store!NoCall, Store!NoProfile, Known, Store!AccountsAssumption
<1>3. Store!PolicyIsKept'
  BY 
     DEF Store!Paste, Store!Edit, AccountTypes, CallsAre, Store!Profiles, Store!Maybe,
         Store!None, Store!NoCall, Store!NoProfile, Store!PolicyIsKept,
         Store!AccountsAssumption
<1> QED
  BY <1>1, <1>2, <1>3

LEMMA DisconnectKeeps ==
  ASSUME Store!AccountsAssumption, AccountTypes, Known, Store!PolicyIsKept, Store!Disconnect
  PROVE  AccountTypes' /\ Known' /\ Store!PolicyIsKept'
<1>1. AccountTypes'
  <2>1. /\ accounts' = [m \in Mailboxes |-> "none"] /\ default' = Store!NoProfile
        /\ wanted' = {} /\ policy' = FALSE /\ UNCHANGED <<session, online, calls>>
        /\ edits' \in 0..MaxEdits
    BY DEF Store!Disconnect, Store!ResetAll, Store!Edit, AccountTypes, Store!None,
       Store!AccountsAssumption
  <2>2. excused' \subseteq Mailboxes \cup {"policy"}
    BY DEF Store!Disconnect, Store!Shadows, AccountTypes
  <2> QED
    BY <2>1, <2>2 DEF AccountTypes, Store!NoProfile, Store!Profiles, Store!Maybe, Store!None
<1>2. Known'
  BY 
     DEF Store!Disconnect, Store!Edit, Store!ResetAll, Store!Shadows, AccountTypes,
         CallsAre, Store!Profiles, Store!Maybe, Store!None, Store!NoCall, Store!NoProfile,
         Known, Store!AccountsAssumption
<1>3. Store!PolicyIsKept'
  BY 
     DEF Store!Disconnect, Store!Edit, Store!ResetAll, Store!Shadows, AccountTypes,
         CallsAre, Store!Profiles, Store!Maybe, Store!None, Store!NoCall, Store!NoProfile,
         Store!PolicyIsKept, Store!AccountsAssumption
<1> QED
  BY <1>1, <1>2, <1>3

LEMMA CloudKeeps ==
  ASSUME Store!AccountsAssumption, AccountTypes, Known, Store!PolicyIsKept, Store!Cloud
  PROVE  AccountTypes' /\ Known' /\ Store!PolicyIsKept'
<1>1. AccountTypes'
  BY 
     DEF Store!Cloud, Store!SignIn, Store!SignOut, Store!Expire, Store!Network,
         AccountTypes, CallsAre, Store!Profiles, Store!Maybe, Store!None, Store!NoCall,
         Store!NoProfile, Store!AccountsAssumption
<1>2. Known'
  BY 
     DEF Store!Cloud, Store!SignIn, Store!SignOut, Store!Expire, Store!Network,
         AccountTypes, CallsAre, Store!Profiles, Store!Maybe, Store!None, Store!NoCall,
         Store!NoProfile, Known, Store!AccountsAssumption
<1>3. Store!PolicyIsKept'
  BY 
     DEF Store!Cloud, Store!SignIn, Store!SignOut, Store!Expire, Store!Network,
         AccountTypes, CallsAre, Store!Profiles, Store!Maybe, Store!None, Store!NoCall,
         Store!NoProfile, Store!PolicyIsKept, Store!AccountsAssumption
<1> QED
  BY <1>1, <1>2, <1>3
LEMMA MailKeeps ==
  ASSUME Store!AccountsAssumption, AccountTypes, Known, Store!PolicyIsKept, Store!MailNext
  PROVE  AccountTypes' /\ Known' /\ Store!PolicyIsKept'
<1>1. ASSUME NEW c \in Calls, NEW m \in Mailboxes,
             Store!Connect(c, m) \/ Store!SetDefault(c, m) \/ Store!Remove(c, m)
             \/ Store!Pick(c, m)
      PROVE  AccountTypes' /\ Known' /\ Store!PolicyIsKept'
  BY <1>1, ConnectKeeps, SetDefaultKeeps, RemoveKeeps, PickKeeps
<1>2. ASSUME NEW c \in Calls,
             \/ Store!ConnectEnds(c) \/ Store!Filters(c) \/ Store!FiltersEnds(c)
             \/ Store!SetDefaultEnds(c) \/ Store!RemoveAsksCloud(c) \/ Store!RemoveLocally(c)
             \/ Store!RemoveEnds(c) \/ Store!Renewed(c) \/ Store!NotRenewed(c)
      PROVE  AccountTypes' /\ Known' /\ Store!PolicyIsKept'
  BY <1>2, ConnectEndsKeeps, FiltersKeeps, FiltersEndsKeeps, SetDefaultEndsKeeps,
     RemoveAsksCloudKeeps, RemoveLocallyKeeps, RemoveEndsKeeps, RenewedKeeps, NotRenewedKeeps
<1>3. ASSUME (\E m \in Mailboxes : Store!Paste(m)) \/ Store!Disconnect \/ Store!Cloud
      PROVE  AccountTypes' /\ Known' /\ Store!PolicyIsKept'
  BY <1>3, PasteKeeps, DisconnectKeeps, CloudKeeps
<1> QED
  BY <1>1, <1>2, <1>3 DEF Store!MailNext

(* Slack: the tokens of a manual connect are left disabled. *)
LEMMA SlackKeeps ==
  ASSUME Store!AccountsAssumption, SlackTypes, edits \in 0..MaxEdits,
         Store!OldTokensStaySilent, Store!SlackNext
  PROVE  SlackTypes' /\ Store!OldTokensStaySilent' /\ edits' \in 0..MaxEdits
<1> DEFINE SlackType == [here : BOOLEAN, relay : BOOLEAN, enabled : BOOLEAN, tokens : BOOLEAN]
<1>0. slack' \in SlackType /\ (slack'.enabled /\ ~slack'.relay => armed')
  <2>1. CASE \E t \in Teams : Store!Install(t)
    BY <2>1 DEF Store!Install, SlackTypes
  <2>2. CASE \E t \in Teams : Store!RemoveTeam(t)
    BY <2>2 DEF Store!RemoveTeam, SlackTypes, Store!OldTokensStaySilent
  <2>3. CASE \E t \in Teams : Store!TeamRemoved(t)
    <3>1. slack' \in {slack, Store!WithoutRelay} /\ UNCHANGED armed
      BY <2>3 DEF Store!TeamRemoved
    <3>2. Store!WithoutRelay \in SlackType /\ ~Store!WithoutRelay.enabled
      <4>1. CASE slack.tokens
        BY <4>1 DEF Store!WithoutRelay, SlackTypes
      <4>2. CASE ~slack.tokens
        BY <4>2 DEF Store!WithoutRelay, Store!NoSlack
      <4> QED
        BY <4>1, <4>2
    <3> HIDE DEF SlackType
    <3>3. slack \in SlackType
      BY DEF SlackTypes, SlackType
    <3> QED
      BY <3>1, <3>2, <3>3 DEF Store!OldTokensStaySilent
  <2>4. CASE Store!PasteTokens
    BY <2>4 DEF Store!PasteTokens
  <2>5. CASE Store!DisconnectSlack
    BY <2>5 DEF Store!DisconnectSlack, Store!NoSlack
  <2> QED
    BY <2>1, <2>2, <2>3, <2>4, <2>5 DEF Store!SlackNext
<1>1. SlackTypes'
  BY <1>0 DEF Store!SlackNext, Store!Install, Store!RemoveTeam, Store!TeamRemoved,
     Store!PasteTokens, Store!DisconnectSlack, SlackTypes
<1>2. Store!OldTokensStaySilent'
  BY <1>0 DEF Store!OldTokensStaySilent
<1>3. edits' \in 0..MaxEdits
  BY DEF Store!SlackNext, Store!Install, Store!RemoveTeam, Store!TeamRemoved,
     Store!PasteTokens, Store!DisconnectSlack, Store!Edit, Store!AccountsAssumption
<1> QED
  BY <1>1, <1>2, <1>3

LEMMA AccountsInit ==
  ASSUME Store!AccountsAssumption, Store!Init
  PROVE  AccountInv
<1>0. Store!NoCall \in CallsAre
  BY DEF CallsAre, Store!Profiles, Store!Maybe, Store!NoCall, Store!NoProfile, Store!None
<1>a. calls = [c \in Calls |-> Store!NoCall]
  BY DEF Store!Init
<1>b. calls \in [Calls -> CallsAre]
  BY <1>0, <1>a
<1>1. Store!NoProfile \in Store!Profiles
  BY DEF Store!NoProfile, Store!Profiles, Store!Maybe, Store!None
<1>2. AccountTypes
  <2>1. online \in BOOLEAN /\ policy \in BOOLEAN
    BY Zenon DEF Store!Init
  <2>2. accounts \in [Mailboxes -> {"none", "pasted", "managed"}]
    BY DEF Store!Init, Store!None
  <2>3. edits \in 0..MaxEdits /\ default = Store!NoProfile /\ session = "out"
        /\ wanted = {} /\ excused = {}
    BY DEF Store!Init, Store!AccountsAssumption
  <2> QED
    BY <1>1, <1>b, <2>1, <2>2, <2>3 DEF AccountTypes
<1>3. SlackTypes
  BY DEF SlackTypes, Store!Init, Store!NoSlack
<1>4. Known
  BY <1>a DEF Known, Store!Init, Store!NoProfile, Store!NoCall, Store!None,
     Store!AccountsAssumption
<1> QED
  BY <1>2, <1>3, <1>4
     DEF AccountInv, Store!PolicyIsKept, Store!OldTokensStaySilent, Store!Init, Store!NoProfile,
         Store!NoSlack

LEMMA AccountsStep ==
  ASSUME Store!AccountsAssumption, AccountInv, [Store!Next]_storeVars
  PROVE  AccountInv'
<1> USE DEF AccountInv
<1>1. CASE UNCHANGED storeVars
  BY <1>1 DEF storeVars, AccountTypes, SlackTypes, Known, Store!PolicyIsKept,
     Store!OldTokensStaySilent
<1>2. CASE Store!MailNext /\ UNCHANGED <<teams, slack, removing, armed>>
  <2>1. AccountTypes' /\ Known' /\ Store!PolicyIsKept'
    BY <1>2, MailKeeps
  <2>2. SlackTypes' /\ Store!OldTokensStaySilent'
    BY <1>2 DEF SlackTypes, Store!OldTokensStaySilent
  <2> QED
    BY <2>1, <2>2
<1>3. CASE Store!SlackNext
           /\ UNCHANGED <<accounts, default, session, online, calls, wanted, policy, excused>>
  <2>1. SlackTypes' /\ Store!OldTokensStaySilent' /\ edits' \in 0..MaxEdits
    BY <1>3, SlackKeeps DEF AccountTypes
  <2>2. AccountTypes'
    BY <1>3, <2>1 DEF AccountTypes
  <2>3. Known' /\ Store!PolicyIsKept'
    BY <1>3 DEF Known, Store!PolicyIsKept
  <2> QED
    BY <2>1, <2>2, <2>3
<1> QED
  BY <1>1, <1>2, <1>3 DEF Store!Next

(* connect, disconnect, set_filters, set_default, the renewal of a token   *)
(* and the migration of an old profile, of any number of accounts and      *)
(* threads: an account that was removed does not come back, and filters    *)
(* outlive the accounts, but for the overlaps that are named; tokens of a  *)
(* manual connect to Slack never listen again on their own.                *)
THEOREM RemovedAccountsStayRemoved == Spec => []AccountsHold
<1>1. Store!AccountsAssumption
  BY PartsAssumption
<1>2. Init => AccountInv
  BY <1>1, AccountsInit DEF Init
<1>3. AccountInv /\ [Next]_<<part, chatVars, bridgeVars, shellVars, storeVars, clientVars,
                             kitVars>>
        => AccountInv'
  <2>1. [Next]_<<part, chatVars, bridgeVars, shellVars, storeVars, clientVars, kitVars>>
          => [Store!Next]_storeVars
    BY DEF Next, ChatStep, BridgeStep, ShellStep, AccountStep, McpStep, KitStep
  <2> QED
    BY <1>1, <2>1, AccountsStep
<1>4. AccountInv => AccountsHold
  <2>1. Known => Store!GoneStaysGone
    BY DEF Known, Store!GoneStaysGone, Store!None
  <2> QED
    BY <2>1 DEF AccountInv, AccountsHold, Store!AccountsHold
<1> QED
  BY <1>2, <1>3, <1>4, PTL DEF Spec

-----------------------------------------------------------------------------
(* ClaudeWatch: a watch ends by the user's word or by a true notice. *)

Notices == [s : Terminals, state : Bridge!States]

BridgeTypes ==
  /\ real \in [Terminals -> {"idle", "running", "asking", "dead"}]
  /\ shown \in [Terminals -> [text : Texts \cup {"none"}, nr : 0..MaxEvents]]
  /\ file \in [Terminals -> Bridge!States] /\ watch \subseteq Terminals
  /\ notified \in [Terminals -> Bridge!States]
  /\ poll \in Seq(Notices)
  /\ answer \in [phase : {"none", "token", "key"}, s : Terminals \cup {"none"},
                 text : Texts \cup {"none"}, nr : 0..MaxEvents]
  /\ answer.phase # "none" => answer.s \in Terminals
  /\ promised \subseteq Terminals /\ stale \subseteq Terminals
  /\ watched \subseteq Terminals /\ false \subseteq Terminals
  /\ events \in 0..MaxEvents /\ failures \in 0..MaxFailures /\ asks \in 0..MaxWatches

(* The notice that is sent is about the state that was read last. *)
SendsHead ==
  sending # Bridge!Nothing =>
    /\ poll # <<>>
    /\ sending = [s |-> Head(poll).s, kind |-> Head(poll).state.status,
                  state |-> Head(poll).state]

(* An "idle" that is still to be read is of a turn that has ended, or the  *)
(* watch has been marked.                                                  *)
IdleIsTrue ==
  \A s \in promised \ stale : file[s].status # "idle" /\ ~Bridge!OldIdle(s)

(* A prompt's number is new, and the state file has the text of the prompt *)
(* shown last.                                                             *)
PromptsAreNumbered ==
  /\ \A s \in Terminals : /\ shown[s].nr <= events
                          /\ file[s].status = "waiting_approval" => file[s].text = shown[s].text
  /\ answer.nr <= events
  /\ answer.phase = "key" /\ answer.nr = shown[answer.s].nr => answer.text = shown[answer.s].text

BridgeInv ==
  /\ BridgeTypes /\ SendsHead /\ IdleIsTrue /\ PromptsAreNumbered
  /\ Bridge!WatchIsKept /\ Bridge!FinishedOrStale /\ Bridge!WrongOnlyIfChanged

LEMMA StatesAre ==
  /\ Bridge!NoFile \in Bridge!States /\ Bridge!NoFile.status = "gone"
  /\ [status |-> "idle", text |-> "none"] \in Bridge!States
  /\ [status |-> "ended", text |-> "none"] \in Bridge!States
  /\ \A t \in Texts : [status |-> "waiting_approval", text |-> t] \in Bridge!States
  /\ \A f \in Bridge!States : f.text \in Texts \cup {"none"}
  BY DEF Bridge!States, Bridge!NoFile, Bridge!None

(* A step of the terminals that does not show a prompt. *)
LEMMA TerminalKeeps ==
  ASSUME Bridge!ClaudeWatchAssumption, BridgeInv, Bridge!Terminal
  PROVE  BridgeInv'
<1> USE DEF BridgeInv
<1>0. PICK s \in Terminals :
        \/ Bridge!StartTurn(s) \/ Bridge!ShowPrompt(s) \/ Bridge!AnswerThere(s)
        \/ Bridge!StopTurn(s) \/ Bridge!EndSession(s)
  BY DEF Bridge!Terminal
<1>1. /\ UNCHANGED <<watch, notified, poll, sending, answer, stale, watched, false, pressed,
                     failures, asks>>
      /\ events' \in 0..MaxEvents /\ events' = events + 1
  BY <1>0
     DEF Bridge!Terminal, Bridge!watcherVars, Bridge!StartTurn, Bridge!ShowPrompt,
         Bridge!AnswerThere, Bridge!StopTurn, Bridge!EndSession, Bridge!Event, BridgeTypes,
         Bridge!ClaudeWatchAssumption
<1>2. real' \in [Terminals -> {"idle", "running", "asking", "dead"}]
  BY <1>0
     DEF Bridge!StartTurn, Bridge!ShowPrompt, Bridge!AnswerThere, Bridge!StopTurn,
         Bridge!EndSession, BridgeTypes
<1>3. \/ UNCHANGED <<file, shown, promised>>
      \/ /\ file' = [file EXCEPT ![s] = [status |-> "idle", text |-> "none"]]
         /\ promised' = promised \ {s} /\ UNCHANGED shown
      \/ /\ file' = [file EXCEPT ![s] = [status |-> "ended", text |-> "none"]]
         /\ UNCHANGED <<promised, shown>>
      \/ \E t \in Texts :
           /\ file' = [file EXCEPT ![s] = [status |-> "waiting_approval", text |-> t]]
           /\ shown' = [shown EXCEPT ![s] = [text |-> t, nr |-> events']]
           /\ UNCHANGED promised
  BY <1>0
     DEF Bridge!StartTurn, Bridge!ShowPrompt, Bridge!AnswerThere, Bridge!StopTurn,
         Bridge!EndSession, Bridge!Hook, Bridge!None
<1>4. /\ SendsHead' /\ Bridge!WatchIsKept' /\ Bridge!FinishedOrStale'
      /\ Bridge!WrongOnlyIfChanged'
  BY <1>1
     DEF SendsHead, Bridge!WatchIsKept, Bridge!FinishedOrStale, Bridge!WrongOnlyIfChanged
<1>5. \A t \in Terminals : Bridge!OldIdle(t)' = Bridge!OldIdle(t)
  BY <1>1 DEF Bridge!OldIdle
<1>6. ASSUME file' \in [Terminals -> Bridge!States], promised' \subseteq Terminals,
             shown' \in [Terminals -> [text : Texts \cup {"none"}, nr : 0..MaxEvents]]
      PROVE  BridgeTypes'
  BY <1>1, <1>2, <1>6 DEF BridgeTypes
<1>t. /\ file \in [Terminals -> Bridge!States] /\ promised \subseteq Terminals
      /\ shown \in [Terminals -> [text : Texts \cup {"none"}, nr : 0..MaxEvents]]
      /\ events \in Nat
  BY DEF BridgeTypes
<1>n. /\ \A u \in Terminals : shown[u].nr <= events'
      /\ answer.nr <= events'
  <2>1. answer.nr \in Nat /\ \A u \in Terminals : shown[u].nr \in Nat
    BY <1>t DEF BridgeTypes
  <2> QED
    BY <1>1, <1>t, <2>1 DEF PromptsAreNumbered
<1>7. CASE UNCHANGED <<file, shown, promised>>
  <2>1. IdleIsTrue'
    BY <1>1, <1>5, <1>7, <1>t DEF IdleIsTrue
  <2>2. PromptsAreNumbered'
    BY <1>1, <1>7, <1>n DEF PromptsAreNumbered
  <2>3. BridgeTypes'
    BY <1>6, <1>7, <1>t
  <2> QED
    BY <1>4, <2>1, <2>2, <2>3
<1>8. ASSUME NEW f \in Bridge!States, f.status \in {"idle", "ended"},
             file' = [file EXCEPT ![s] = f], UNCHANGED shown,
             promised' = IF f.status = "idle" THEN promised \ {s} ELSE promised
      PROVE  BridgeInv'
  <2>1. \A t \in Terminals : file'[t] = IF t = s THEN f ELSE file[t]
    BY <1>8, <1>t
  <2>2. IdleIsTrue'
    BY <1>1, <1>5, <1>8, <1>t, <2>1 DEF IdleIsTrue
  <2>3. PromptsAreNumbered'
    BY <1>1, <1>8, <1>n, <2>1 DEF PromptsAreNumbered
  <2>4. BridgeTypes'
    BY <1>6, <1>8, <1>t
  <2> QED
    BY <1>4, <2>2, <2>3, <2>4
<1>9. ASSUME NEW t \in Texts, UNCHANGED promised,
             file' = [file EXCEPT ![s] = [status |-> "waiting_approval", text |-> t]],
             shown' = [shown EXCEPT ![s] = [text |-> t, nr |-> events']]
      PROVE  BridgeInv'
  <2>1. \A u \in Terminals :
          /\ u # s => file'[u] = file[u] /\ shown'[u] = shown[u]
          /\ u = s => /\ file'[u].status = "waiting_approval" /\ file'[u].text = t
                      /\ shown'[u].text = t /\ shown'[u].nr = events + 1
    BY <1>1, <1>9, <1>t
  <2>2. IdleIsTrue'
    BY <1>1, <1>5, <1>9, <1>t, <2>1 DEF IdleIsTrue
  <2>3. PromptsAreNumbered'
    <3>1. \A u \in Terminals : shown[u].nr \in Nat /\ shown[u].nr <= events
      BY <1>t DEF PromptsAreNumbered
    <3>2. /\ answer.nr \in Nat /\ answer.nr <= events
          /\ answer.phase = "key" => answer.s \in Terminals
      BY DEF PromptsAreNumbered, BridgeTypes
    <3>3. \A u \in Terminals : /\ shown'[u].nr <= events'
                               /\ file'[u].status = "waiting_approval" =>
                                    file'[u].text = shown'[u].text
      BY <1>1, <1>t, <2>1, <3>1 DEF PromptsAreNumbered
    <3>4. answer'.nr <= events'
      BY <1>1, <1>t, <3>2
    <3>5. ASSUME answer'.phase = "key", answer'.nr = shown'[answer'.s].nr
          PROVE  answer'.text = shown'[answer'.s].text
      <4>1. answer.s # s
        BY <1>1, <1>t, <2>1, <3>2, <3>5
      <4> QED
        BY <1>1, <2>1, <3>2, <3>5, <4>1 DEF PromptsAreNumbered
    <3> QED
      BY <3>3, <3>4, <3>5 DEF PromptsAreNumbered
  <2>4. BridgeTypes'
    <3>1. [status |-> "waiting_approval", text |-> t] \in Bridge!States
      BY StatesAre
    <3>2. file' \in [Terminals -> Bridge!States]
      BY <1>9, <1>t, <3>1
    <3>3. shown' \in [Terminals -> [text : Texts \cup {"none"}, nr : 0..MaxEvents]]
      BY <1>1, <1>9, <1>t
    <3> QED
      BY <1>6, <1>9, <1>t, <3>2, <3>3
  <2> QED
    BY <1>4, <2>2, <2>3, <2>4
<1> QED
  BY <1>3, <1>7, <1>8, <1>9, StatesAre

LEMMA PollTyped ==
  ASSUME Bridge!ClaudeWatchAssumption, BridgeTypes, NEW S \in SUBSET Terminals,
         NEW q \in Bridge!Entries(S)
  PROVE  /\ q \in Seq(Notices)
         /\ \A i \in DOMAIN q : q[i].s \in S /\ q[i].state = file[q[i].s]
         /\ [i \in DOMAIN q |-> [s |-> q[i].s, state |-> Bridge!NoFile]] \in Seq(Notices)
<1>1. IsFiniteSet(S)
  <2>1. IsFiniteSet(Terminals)
    BY DEF Bridge!ClaudeWatchAssumption, Bridge!IsFiniteSet, IsFiniteSet
  <2> QED
    BY <2>1, FS_Subset
<1>2. Cardinality(S) \in Nat
  BY <1>1, FS_CardinalityType
<1>3. q \in [1..Cardinality(S) -> {[s |-> s, state |-> file[s]] : s \in S}]
  BY DEF Bridge!Entries, Bridge!Cardinality, Cardinality
<1>4. \A i \in 1..Cardinality(S) : q[i].s \in S /\ q[i] = [s |-> q[i].s, state |-> file[q[i].s]]
  BY <1>3
<1>5. ASSUME NEW i \in 1..Cardinality(S) PROVE q[i] \in Notices
  <2>1. q[i].s \in Terminals /\ file[q[i].s] \in Bridge!States
    BY <1>4 DEF BridgeTypes
  <2> HIDE DEF Bridge!States
  <2>2. [s |-> q[i].s, state |-> file[q[i].s]] \in Notices
    BY <2>1 DEF Notices
  <2> QED
    BY <1>4, <2>2
<1>6. \A i \in 1..Cardinality(S) : [s |-> q[i].s, state |-> Bridge!NoFile] \in Notices
  BY <1>4, StatesAre DEF Notices
<1>7. DOMAIN q = 1..Cardinality(S)
  BY <1>3
<1> DEFINE n == Cardinality(S)
<1> HIDE DEF n
<1>8. q \in Seq(Notices)
  <2>1. n \in Nat /\ q \in [1..n -> Notices]
    BY <1>2, <1>3, <1>5, <1>7 DEF n
  <2> QED
    BY <2>1
<1>9. [i \in DOMAIN q |-> [s |-> q[i].s, state |-> Bridge!NoFile]] \in Seq(Notices)
  <2>1. n \in Nat /\ [i \in DOMAIN q |-> [s |-> q[i].s, state |-> Bridge!NoFile]]
                       \in [1..n -> Notices]
    BY <1>2, <1>6, <1>7 DEF n
  <2> QED
    BY <2>1
<1> QED
  BY <1>4, <1>7, <1>8, <1>9
(* What the poll, the send and the restart leave alone. *)
LEMMA WatcherKeeps ==
  ASSUME BridgeTypes, PromptsAreNumbered, Bridge!WrongOnlyIfChanged,
         UNCHANGED <<shown, events, pressed>>,
         \A s \in Terminals : file'[s] \in {file[s], Bridge!NoFile},
         answer' \in {answer, Bridge!NoAnswer}
  PROVE  PromptsAreNumbered' /\ Bridge!WrongOnlyIfChanged'
<1>1. Bridge!NoAnswer.nr = 0 /\ Bridge!NoAnswer.phase = "none" /\ events \in Nat
  BY DEF Bridge!NoAnswer, Bridge!None, BridgeTypes
<1>2. \A s \in Terminals : file'[s].status = "waiting_approval" => file'[s] = file[s]
  BY StatesAre
<1>3. answer'.nr <= events' /\ (answer'.phase = "key" => answer' = answer)
  BY <1>1 DEF PromptsAreNumbered
<1> QED
  BY <1>2, <1>3 DEF PromptsAreNumbered, Bridge!WrongOnlyIfChanged

LEMMA PruneKeeps ==
  ASSUME Bridge!ClaudeWatchAssumption, BridgeInv, Bridge!Prune
  PROVE  BridgeInv'
<1> USE DEF BridgeInv
<1> DEFINE gone == {s \in Bridge!HasFile : ~Bridge!Alive(s) \/ file[s].status = "ended"}
<1>1. /\ sending = Bridge!Nothing
      /\ file' = [s \in Terminals |-> IF s \in gone THEN Bridge!NoFile ELSE file[s]]
      /\ UNCHANGED <<real, shown, watch, notified, sending, answer, promised, stale, watched,
                     false, pressed, events, failures, asks>>
  BY DEF Bridge!Prune, Bridge!historyVars
<1>2. PICK q \in Bridge!Entries(gone) :
        poll' = [i \in DOMAIN q |-> [s |-> q[i].s, state |-> Bridge!NoFile]]
  BY DEF Bridge!Prune
<1>3. gone \in SUBSET Terminals
  BY DEF Bridge!HasFile
<1> HIDE DEF gone
<1>4. poll' \in Seq(Notices)
  BY <1>2, <1>3, PollTyped
<1>5. \A s \in Terminals : ~Bridge!OldIdle(s)'
  BY <1>2, StatesAre DEF Bridge!OldIdle
<1>6. \A s \in Terminals : file'[s] \in {file[s], Bridge!NoFile}
  BY <1>1
<1>7. BridgeTypes'
  <2>1. file' \in [Terminals -> Bridge!States]
    BY <1>1, StatesAre DEF BridgeTypes
  <2> QED
    BY <1>1, <1>4, <2>1 DEF BridgeTypes
<1>8. IdleIsTrue'
  BY <1>1, <1>5, <1>6, StatesAre DEF IdleIsTrue, BridgeTypes
<1>9. PromptsAreNumbered' /\ Bridge!WrongOnlyIfChanged'
  BY <1>1, <1>6, WatcherKeeps
<1> QED
  BY <1>1, <1>7, <1>8, <1>9 DEF SendsHead, Bridge!WatchIsKept, Bridge!FinishedOrStale

LEMMA ReadFilesKeeps ==
  ASSUME Bridge!ClaudeWatchAssumption, BridgeInv, Bridge!ReadFiles
  PROVE  BridgeInv'
<1> USE DEF BridgeInv
<1>1. /\ sending = Bridge!Nothing
      /\ UNCHANGED <<real, shown, file, watch, notified, sending, answer, promised, stale,
                     watched, false, pressed, events, failures, asks>>
  BY DEF Bridge!ReadFiles, Bridge!historyVars, Bridge!terminalVars
<1>2. poll' \in Bridge!Entries(Bridge!HasFile) /\ Bridge!HasFile \in SUBSET Terminals
  BY DEF Bridge!ReadFiles, Bridge!HasFile
<1>3. poll' \in Seq(Notices) /\ \A i \in DOMAIN poll' : poll'[i].state = file[poll'[i].s]
  BY <1>2, PollTyped
<1>4. IdleIsTrue'
  BY <1>1, <1>3 DEF IdleIsTrue, Bridge!OldIdle
<1>5. BridgeTypes'
  BY <1>1, <1>3 DEF BridgeTypes
<1>6. PromptsAreNumbered' /\ Bridge!WrongOnlyIfChanged'
  BY <1>1, WatcherKeeps
<1> QED
  BY <1>1, <1>4, <1>5, <1>6 DEF SendsHead, Bridge!WatchIsKept, Bridge!FinishedOrStale

(* With the head of the poll gone, there is no more "idle" than before. *)
LEMMA PollShrinks ==
  ASSUME BridgeTypes, poll # <<>>, poll' = Tail(poll)
  PROVE  /\ Head(poll) \in Notices /\ poll' \in Seq(Notices)
         /\ \A s \in Terminals : Bridge!OldIdle(s)' => Bridge!OldIdle(s)
         /\ Head(poll).state.status = "idle" => Bridge!OldIdle(Head(poll).s)
<1> DEFINE p == poll
           t == Tail(poll)
           n == Len(poll)
<1>1. /\ n \in Nat \ {0} /\ DOMAIN p = 1..n /\ DOMAIN t = 1..(n - 1) /\ Head(p) = p[1]
      /\ \A i \in 1..(n - 1) : t[i] = p[i + 1]
      /\ Head(p) \in Notices /\ t \in Seq(Notices)
  BY HeadTailProperties DEF BridgeTypes
<1>2. poll' = t
  OBVIOUS
<1> HIDE DEF t, n, p
<1>3. 1 \in 1..n /\ \A i \in 1..(n - 1) : i + 1 \in 1..n
  BY <1>1
<1>4. \A s \in Terminals : Bridge!OldIdle(s)' => Bridge!OldIdle(s)
  BY <1>1, <1>2, <1>3 DEF Bridge!OldIdle, p
<1>5. Head(p).state.status = "idle" => Bridge!OldIdle(Head(p).s)
  BY <1>1, <1>3 DEF Bridge!OldIdle, p
<1> QED
  BY <1>1, <1>2, <1>4, <1>5 DEF p

LEMMA LookKeeps ==
  ASSUME BridgeInv, Bridge!Look
  PROVE  BridgeInv'
<1> USE DEF BridgeInv
<1> DEFINE e == Head(poll)
<1>1. /\ poll # <<>> /\ sending = Bridge!Nothing
      /\ UNCHANGED <<real, shown, file, watch, answer, promised, stale,
                     watched, false, pressed, events, failures, asks>>
  BY DEF Bridge!Look, Bridge!historyVars, Bridge!terminalVars
<1>2. \/ /\ sending' = [s |-> e.s, kind |-> e.state.status, state |-> e.state]
         /\ UNCHANGED <<poll, notified>>
      \/ /\ notified' \in {notified, [notified EXCEPT ![e.s] = Bridge!NoFile]}
         /\ poll' = Tail(poll) /\ UNCHANGED sending
  BY DEF Bridge!Look
<1>3. PromptsAreNumbered' /\ Bridge!WrongOnlyIfChanged'
  BY <1>1, WatcherKeeps
<1>4. Bridge!WatchIsKept' /\ Bridge!FinishedOrStale'
  BY <1>1 DEF Bridge!WatchIsKept, Bridge!FinishedOrStale
<1>5. CASE /\ sending' = [s |-> e.s, kind |-> e.state.status, state |-> e.state]
           /\ UNCHANGED <<poll, notified>>
  <2>1. BridgeTypes'
    BY <1>1, <1>5 DEF BridgeTypes
  <2>2. SendsHead'
    BY <1>1, <1>5 DEF SendsHead
  <2>3. IdleIsTrue'
    BY <1>1, <1>5 DEF IdleIsTrue, Bridge!OldIdle
  <2> QED
    BY <1>3, <1>4, <2>1, <2>2, <2>3
<1>6. CASE /\ notified' \in {notified, [notified EXCEPT ![e.s] = Bridge!NoFile]}
           /\ poll' = Tail(poll) /\ UNCHANGED sending
  <2>1. /\ poll' \in Seq(Notices)
        /\ \A s \in Terminals : Bridge!OldIdle(s)' => Bridge!OldIdle(s)
    BY <1>1, <1>6, PollShrinks
  <2>2. notified' \in [Terminals -> Bridge!States]
    BY <1>6, StatesAre DEF BridgeTypes
  <2>3. BridgeTypes'
    BY <1>1, <2>1, <2>2 DEF BridgeTypes
  <2>4. IdleIsTrue'
    BY <1>1, <2>1 DEF IdleIsTrue, BridgeTypes
  <2>5. SendsHead'
    BY <1>1, <1>6 DEF SendsHead
  <2> QED
    BY <1>3, <1>4, <2>3, <2>4, <2>5
<1> QED
  BY <1>2, <1>5, <1>6

LEMMA SentKeeps ==
  ASSUME Bridge!ClaudeWatchAssumption, BridgeInv, Bridge!Sent
  PROVE  BridgeInv'
<1> USE DEF BridgeInv
<1> DEFINE s == sending.s
           idle == sending.kind = "idle"
<1>1. /\ sending # Bridge!Nothing /\ sending' = Bridge!Nothing /\ poll' = Tail(poll)
      /\ UNCHANGED <<real, shown, file, answer, promised, stale, pressed, events, asks>>
  BY DEF Bridge!Sent, Bridge!terminalVars
<1>2. poll # <<>> /\ s = Head(poll).s /\ sending.kind = Head(poll).state.status
      /\ sending.state = Head(poll).state
  BY <1>1 DEF SendsHead
<1>3. /\ Head(poll) \in Notices /\ poll' \in Seq(Notices)
      /\ \A t \in Terminals : Bridge!OldIdle(t)' => Bridge!OldIdle(t)
      /\ Head(poll).state.status = "idle" => Bridge!OldIdle(Head(poll).s)
  BY <1>1, <1>2, PollShrinks
<1>4. s \in Terminals /\ sending.state \in Bridge!States
  BY <1>2, <1>3 DEF Notices
<1>5. /\ failures' \in 0..MaxFailures
      /\ notified' \in {notified, [notified EXCEPT ![s] = Bridge!NoFile],
                        [notified EXCEPT ![s] = sending.state]}
      /\ watch' \subseteq watch /\ watched' \subseteq watched /\ (watched' \subseteq watch')
      /\ false' \subseteq false \cup (IF idle THEN {s} \cap promised ELSE {})
  <2>1. PICK ok \in BOOLEAN :
          /\ failures' = IF ok THEN failures ELSE failures + 1
          /\ failures' <= MaxFailures
          /\ watch' = IF ok /\ sending.kind # "waiting_approval" THEN watch \ {s} ELSE watch
          /\ notified' =
               IF sending.kind = "gone" THEN [notified EXCEPT ![s] = Bridge!NoFile]
               ELSE IF ok THEN [notified EXCEPT ![s] = sending.state] ELSE notified
          /\ watched' = IF ok /\ sending.kind # "waiting_approval" THEN watched \ {s}
                        ELSE watched
          /\ false' = IF ok /\ idle THEN false \cup ({s} \cap promised) ELSE false
    BY DEF Bridge!Sent, Bridge!Consumes
  <2>2. failures' \in 0..MaxFailures
    BY <2>1 DEF BridgeTypes, Bridge!ClaudeWatchAssumption
  <2>3. watch' \subseteq watch /\ watched' \subseteq watched /\ (watched' \subseteq watch')
    BY <2>1 DEF Bridge!WatchIsKept
  <2>4. false' \subseteq false \cup (IF idle THEN {s} \cap promised ELSE {})
    BY <2>1
  <2> QED
    BY <2>1, <2>2, <2>3, <2>4
<1>6. idle => Bridge!OldIdle(s)
  BY <1>2, <1>3
<1> HIDE DEF s, idle
<1>7. BridgeTypes'
  <2>1. notified' \in [Terminals -> Bridge!States]
    BY <1>4, <1>5, StatesAre DEF BridgeTypes
  <2>2. false' \subseteq Terminals
    BY <1>4, <1>5 DEF BridgeTypes
  <2> QED
    BY <1>1, <1>3, <1>5, <2>1, <2>2 DEF BridgeTypes
<1>8. IdleIsTrue'
  BY <1>1, <1>3 DEF IdleIsTrue, BridgeTypes
<1>9. Bridge!FinishedOrStale'
  BY <1>1, <1>5, <1>6 DEF IdleIsTrue, Bridge!FinishedOrStale
<1>10. PromptsAreNumbered' /\ Bridge!WrongOnlyIfChanged'
  BY <1>1, WatcherKeeps
<1> QED
  BY <1>1, <1>5, <1>7, <1>8, <1>9, <1>10 DEF SendsHead, Bridge!WatchIsKept

LEMMA BridgeRestartKeeps ==
  ASSUME Bridge!ClaudeWatchAssumption, BridgeInv, Bridge!Restart
  PROVE  BridgeInv'
<1> USE DEF BridgeInv
<1>1. /\ notified' = [s \in Terminals |-> Bridge!NoFile] /\ poll' = <<>>
      /\ sending' = Bridge!Nothing /\ answer' = Bridge!NoAnswer /\ failures' \in 0..MaxFailures
      /\ UNCHANGED <<real, shown, file, watch, promised, stale, watched, false, pressed,
                     events, asks>>
  BY DEF Bridge!Restart, Bridge!historyVars, Bridge!terminalVars, BridgeTypes,
     Bridge!ClaudeWatchAssumption
<1>2. BridgeTypes'
  <2>1. <<>> \in Seq(Notices)
    OBVIOUS
  <2>2. notified' \in [Terminals -> Bridge!States]
    BY <1>1, StatesAre
  <2>3. /\ Bridge!NoAnswer \in [phase : {"none", "token", "key"}, s : Terminals \cup {"none"},
                                text : Texts \cup {"none"}, nr : 0..MaxEvents]
        /\ Bridge!NoAnswer.phase = "none"
    BY DEF Bridge!NoAnswer, Bridge!None, Bridge!ClaudeWatchAssumption
  <2> QED
    BY <1>1, <2>1, <2>2, <2>3 DEF BridgeTypes
<1>3. IdleIsTrue'
  BY <1>1 DEF IdleIsTrue, Bridge!OldIdle
<1>4. PromptsAreNumbered' /\ Bridge!WrongOnlyIfChanged'
  BY <1>1, WatcherKeeps
<1> QED
  BY <1>1, <1>2, <1>3, <1>4 DEF SendsHead, Bridge!WatchIsKept, Bridge!FinishedOrStale

LEMMA AgentKeeps ==
  ASSUME Bridge!ClaudeWatchAssumption, BridgeInv, Bridge!Agent
  PROVE  BridgeInv'
<1> USE DEF BridgeInv
<1>0. /\ UNCHANGED <<shown, file, poll, sending, notified, events, failures>>
      /\ asks' \in 0..MaxWatches
  BY DEF Bridge!Agent, Bridge!Watch, Bridge!Unwatch, Bridge!AskToken, Bridge!Confirm,
     Bridge!PressKey, Bridge!AskedFor, Bridge!terminalVars, Bridge!watcherVars, BridgeTypes,
     Bridge!ClaudeWatchAssumption
<1>1. SendsHead' /\ \A t : Bridge!OldIdle(t)' = Bridge!OldIdle(t)
  BY <1>0 DEF SendsHead, Bridge!OldIdle
<1>2. ASSUME NEW s \in Terminals, Bridge!Watch(s) \/ Bridge!Unwatch(s) PROVE BridgeInv'
  <2>1. UNCHANGED <<real, answer, pressed>>
    BY <1>2 DEF Bridge!Watch, Bridge!Unwatch, Bridge!terminalVars
  <2>2. PromptsAreNumbered' /\ Bridge!WrongOnlyIfChanged'
    BY <1>0, <2>1, WatcherKeeps
  <2>3. BridgeTypes'
    BY <1>0, <1>2, <2>1 DEF Bridge!Watch, Bridge!Unwatch, BridgeTypes
  <2>4. Bridge!WatchIsKept' /\ Bridge!FinishedOrStale'
    BY <1>2 DEF Bridge!Watch, Bridge!Unwatch, Bridge!WatchIsKept, Bridge!FinishedOrStale
  <2>5. IdleIsTrue'
    <3>1. CASE Bridge!Watch(s)
      BY <1>0, <1>1, <3>1 DEF Bridge!Watch, IdleIsTrue
    <3>2. CASE Bridge!Unwatch(s)
      BY <1>0, <1>1, <3>2 DEF Bridge!Unwatch, IdleIsTrue
    <3> QED
      BY <1>2, <3>1, <3>2
  <2> QED
    BY <1>1, <2>2, <2>3, <2>4, <2>5
<1>3. ASSUME UNCHANGED <<watch, promised, stale, watched, false>>, BridgeTypes',
             PromptsAreNumbered', Bridge!WrongOnlyIfChanged'
      PROVE  BridgeInv'
  BY <1>0, <1>1, <1>3 DEF IdleIsTrue, Bridge!WatchIsKept, Bridge!FinishedOrStale
<1>4. ASSUME NEW s \in Terminals, Bridge!AskToken(s) PROVE BridgeInv'
  <2>1. /\ answer' = [phase |-> "token", s |-> s, text |-> file[s].text, nr |-> 0]
        /\ UNCHANGED <<real, watch, promised, stale, watched, false, pressed>>
    BY <1>4 DEF Bridge!AskToken, Bridge!terminalVars, Bridge!historyVars
  <2>2. file[s].text \in Texts \cup {"none"} /\ 0 \in 0..MaxEvents /\ 0 <= events
    BY StatesAre DEF BridgeTypes, Bridge!ClaudeWatchAssumption
  <2>3. BridgeTypes'
    BY <1>0, <2>1, <2>2 DEF BridgeTypes
  <2>4. PromptsAreNumbered' /\ Bridge!WrongOnlyIfChanged'
    BY <1>0, <2>1, <2>2 DEF PromptsAreNumbered, Bridge!WrongOnlyIfChanged
  <2> QED
    BY <1>3, <2>1, <2>3, <2>4
<1>5. CASE Bridge!Confirm
  <2>1. UNCHANGED <<real, watch, promised, stale, watched, false, pressed>>
    BY <1>5 DEF Bridge!Confirm, Bridge!terminalVars, Bridge!historyVars
  <2>2. CASE answer' = Bridge!NoAnswer
    <3>1. PromptsAreNumbered' /\ Bridge!WrongOnlyIfChanged'
      BY <1>0, <2>1, <2>2, WatcherKeeps
    <3>2. /\ Bridge!NoAnswer \in [phase : {"none", "token", "key"}, s : Terminals \cup {"none"},
                                  text : Texts \cup {"none"}, nr : 0..MaxEvents]
          /\ Bridge!NoAnswer.phase = "none"
      BY DEF Bridge!NoAnswer, Bridge!None, Bridge!ClaudeWatchAssumption
    <3>3. BridgeTypes'
      BY <1>0, <2>1, <2>2, <3>2 DEF BridgeTypes
    <3> QED
      BY <1>3, <2>1, <3>1, <3>3
  <2>3. CASE answer' # Bridge!NoAnswer
    <3>1. /\ answer.phase = "token" /\ Bridge!Matches(answer.s, answer.text)
          /\ answer' = [answer EXCEPT !.phase = "key", !.nr = shown[answer.s].nr]
      BY <1>5, <2>3 DEF Bridge!Confirm
    <3>2. answer.s \in Terminals /\ shown[answer.s].nr \in 0..MaxEvents
      BY <3>1 DEF BridgeTypes
    <3>3. answer.text = shown[answer.s].text /\ shown[answer.s].nr <= events
      BY <3>1, <3>2 DEF Bridge!Matches, PromptsAreNumbered
    <3>4. /\ answer'.phase = "key" /\ answer'.s = answer.s /\ answer'.text = answer.text
          /\ answer'.nr = shown[answer.s].nr
      BY <3>1 DEF BridgeTypes
    <3>5. BridgeTypes'
      BY <1>0, <2>1, <3>1, <3>2 DEF BridgeTypes
    <3>6. PromptsAreNumbered' /\ Bridge!WrongOnlyIfChanged'
      BY <1>0, <2>1, <3>3, <3>4 DEF PromptsAreNumbered, Bridge!WrongOnlyIfChanged
    <3> QED
      BY <1>3, <2>1, <3>5, <3>6
  <2> QED
    BY <2>2, <2>3
<1>6. CASE Bridge!PressKey
  <2>1. /\ answer.phase = "key" /\ answer' = Bridge!NoAnswer
        /\ UNCHANGED <<watch, promised, stale, watched, false>>
        /\ real' \in {real, [real EXCEPT ![answer.s] = "running"]}
        /\ \/ UNCHANGED pressed
           \/ pressed' = [confirmed |-> answer.text, text |-> shown[answer.s].text,
                          checked |-> answer.nr, nr |-> shown[answer.s].nr]
    BY <1>6 DEF Bridge!PressKey
  <2>2. /\ Bridge!NoAnswer \in [phase : {"none", "token", "key"}, s : Terminals \cup {"none"},
                                text : Texts \cup {"none"}, nr : 0..MaxEvents]
        /\ Bridge!NoAnswer.phase = "none" /\ Bridge!NoAnswer.nr = 0
    BY DEF Bridge!NoAnswer, Bridge!None, Bridge!ClaudeWatchAssumption
  <2>3. real' \in [Terminals -> {"idle", "running", "asking", "dead"}]
    BY <2>1 DEF BridgeTypes
  <2>4. BridgeTypes'
    BY <1>0, <2>1, <2>2, <2>3 DEF BridgeTypes
  <2>5. Bridge!WrongOnlyIfChanged'
    BY <2>1 DEF PromptsAreNumbered, Bridge!WrongOnlyIfChanged
  <2>6. PromptsAreNumbered'
    BY <1>0, <2>1, <2>2 DEF PromptsAreNumbered, BridgeTypes
  <2> QED
    BY <1>3, <2>1, <2>4, <2>5, <2>6
<1> QED
  BY <1>2, <1>4, <1>5, <1>6 DEF Bridge!Agent

LEMMA BridgeInit ==
  ASSUME Bridge!ClaudeWatchAssumption, Bridge!Init
  PROVE  BridgeInv
<1> USE DEF Bridge!ClaudeWatchAssumption, Bridge!Init, Bridge!None
<1>1. BridgeTypes
  <2>1. <<>> \in Seq(Notices)
    OBVIOUS
  <2>2. file \in [Terminals -> Bridge!States]
    BY StatesAre
  <2>3. notified \in [Terminals -> Bridge!States]
    BY StatesAre
  <2> QED
    BY <2>1, <2>2, <2>3 DEF BridgeTypes, Bridge!NoAnswer
<1>2. SendsHead /\ IdleIsTrue
  BY DEF SendsHead, IdleIsTrue
<1>3. PromptsAreNumbered
  <2>1. \A s \in Terminals : file[s].status # "waiting_approval" /\ shown[s].nr = 0
    BY StatesAre
  <2> QED
    BY <2>1 DEF PromptsAreNumbered, Bridge!NoAnswer
<1> QED
  BY <1>1, <1>2, <1>3
     DEF BridgeInv, Bridge!WatchIsKept, Bridge!FinishedOrStale, Bridge!WrongOnlyIfChanged,
         Bridge!NoKey

LEMMA BridgeNext ==
  ASSUME Bridge!ClaudeWatchAssumption, BridgeInv, [Bridge!Next]_bridgeVars
  PROVE  BridgeInv'
<1>1. CASE UNCHANGED bridgeVars
  BY <1>1
     DEF BridgeInv, bridgeVars, BridgeTypes, SendsHead, IdleIsTrue, Bridge!OldIdle,
         PromptsAreNumbered, Bridge!WatchIsKept, Bridge!FinishedOrStale,
         Bridge!WrongOnlyIfChanged
<1> QED
  BY <1>1, TerminalKeeps, PruneKeeps, ReadFilesKeeps, LookKeeps, SentKeeps,
     BridgeRestartKeeps, AgentKeeps DEF Bridge!Next

(* BridgeWatcher._poll and respond_to_claude_prompt, of any number of      *)
(* terminals, prompts, failed sends and restarts: a watch ends by the      *)
(* user's word or by a delivered notice, "finished" is said of unfinished  *)
(* work only through an old "idle", and a key answers the prompt that was  *)
(* confirmed unless another came up after the check.                       *)
THEOREM WatchersKeepFaith == Spec => []WatcherKeepsFaith
<1>1. Bridge!ClaudeWatchAssumption
  BY PartsAssumption
<1>2. Init => BridgeInv
  BY <1>1, BridgeInit DEF Init
<1>3. BridgeInv /\ [Next]_<<part, chatVars, bridgeVars, shellVars, storeVars, clientVars,
                            kitVars>>
        => BridgeInv'
  <2>1. [Next]_<<part, chatVars, bridgeVars, shellVars, storeVars, clientVars, kitVars>>
          => [Bridge!Next]_bridgeVars
    BY DEF Next, ChatStep, BridgeStep, ShellStep, AccountStep, McpStep, KitStep
  <2> QED
    BY <1>1, <2>1, BridgeNext
<1>4. BridgeInv => WatcherKeepsFaith
  BY DEF BridgeInv, WatcherKeepsFaith, Bridge!WatcherKeepsFaith
<1> QED
  BY <1>2, <1>3, <1>4, PTL DEF Spec

-----------------------------------------------------------------------------
(* Mcp: a sign-in is asked for, and without a reload no call is stranded.  *)

Phases == {"none", "opening", "browser", "signing", "up", "gone"}
Busy == {"opening", "browser", "signing"}
ServeRecords == [server : Servers \cup {"none"}, for : {"none", "turn", "connect"},
                 interactive : BOOLEAN, phase : Phases]

McpTypes ==
  /\ line \in Seq(Callers)
  /\ call \in [Callers -> [what : {"none", "turn", "connect"},
                           server : Servers \cup {"none"}, task : 0..MaxCalls]]
  /\ serve \in [Client!Tries -> ServeRecords]
  /\ ready \in [Client!Tries -> {"pending", "ok", "failed"}]
  /\ conns \in [Servers -> 0..MaxCalls] /\ tasks \in [Servers -> 0..MaxCalls]
  /\ shut \subseteq Client!Tries /\ pages \subseteq Client!Tries
  /\ pending \in 0..MaxCalls /\ expected \in 0..MaxCalls
  /\ reloads \in Nat /\ tried \in 0..MaxCalls

(* The task that the call with the lock waits for. *)
Current == IF line = <<>> THEN 0 ELSE call[Head(line)].task

(* A call is in line once, and only the call with the lock has a task.     *)
LockIsOne ==
  /\ IsInjective(line)
  /\ \A c \in Range(line) : call[c].what # "none" /\ call[c].server \in Servers
  /\ \A c \in Callers : call[c].task # 0 =>
       /\ line # <<>> /\ Head(line) = c
       /\ serve[call[c].task].phase # "none"
       /\ serve[call[c].task].server = call[c].server

(* Tasks are numbered as they start, each for a call that was made.        *)
TriesAreCounted ==
  \E n \in 0..MaxCalls :
    /\ \A i \in Client!Tries : serve[i].phase # "none" <=> i <= n
    /\ n + Len(line) <= tried + (IF Current = 0 THEN 0 ELSE 1)

(* Only one task connects at a time: that of the call with the lock.       *)
TriesAreSane ==
  \A i \in Client!Tries :
    /\ serve[i].phase = "none" => serve[i] = Client!NoServe /\ ready[i] = "pending"
    /\ serve[i].phase # "none" => serve[i].server \in Servers
    /\ serve[i].phase \in Busy => i = Current /\ ready[i] = "pending"
    /\ serve[i].phase = "up" => ready[i] = "ok"

(* The redirect that is expected is that of the sign-in that waits.        *)
SignInsMatch ==
  /\ \A i \in Client!Tries : serve[i].phase \in {"browser", "signing"} => expected = i
  /\ pending # 0 => serve[pending].phase = "signing"
  /\ \A i \in Client!Tries : serve[i].interactive => serve[i].for = "connect"
  /\ \A i \in pages : serve[i].for = "connect"
  /\ \A pair \in ended : pair[1] = pair[2]

(* Before any reload: what is listed is open, and what is open is listed.  *)
Undisturbed ==
  /\ closing.left = {} /\ ~closing.on /\ cancelled = {}
  /\ \A i \in Client!Tries :
       /\ serve[i].phase = "none" => i \notin shut
       /\ serve[i].phase = "gone" => ready[i] # "pending"
       /\ serve[i].phase \in Busy \cup {"up"} => tasks[serve[i].server] = i
       /\ serve[i].phase = "up" => conns[serve[i].server] = i \/ i = Current
  /\ \A s \in Servers : conns[s] # 0 =>
       /\ serve[conns[s]].server = s /\ serve[conns[s]].phase = "up"
       /\ conns[s] # Current
  /\ Current # 0 /\ ready[Current] = "ok" => serve[Current].phase = "up"
  /\ Current \notin shut

McpInv ==
  /\ McpTypes /\ LockIsOne /\ TriesAreCounted /\ TriesAreSane /\ SignInsMatch
  /\ reloads = 0 => Undisturbed

-----------------------------------------------------------------------------
(* The lock. *)

LEMMA TriesAre ==
  ASSUME McpTypes
  PROVE  /\ MaxCalls \in Nat /\ Client!Tries = 1..MaxCalls /\ 0 \notin Client!Tries
         /\ \A i \in 0..MaxCalls : i # 0 => i \in Client!Tries
         /\ Current \in 0..MaxCalls
<1>1. MaxCalls \in Nat /\ Client!Tries = 1..MaxCalls
  BY PartsAssumption DEF Client!McpAssumption, Client!Tries
<1>2. line # <<>> => Head(line) \in Callers
  BY DEF McpTypes
<1>3. Current \in 0..MaxCalls
  BY <1>1, <1>2 DEF McpTypes, Current
<1> QED
  BY <1>1, <1>3

(* A task goes on, and the rest stays: the lock is as it was. *)
LEMMA GoKeeps ==
  ASSUME McpInv, NEW i \in Client!Tries, NEW p \in Phases \ {"none"}, Client!Go(i, p),
         serve[i].phase # "none", UNCHANGED <<line, call, tried>>
  PROVE  /\ serve' \in [Client!Tries -> ServeRecords]
         /\ \A j \in Client!Tries :
              /\ serve'[j].server = serve[j].server /\ serve'[j].for = serve[j].for
              /\ serve'[j].interactive = serve[j].interactive
              /\ serve'[j].phase = IF j = i THEN p ELSE serve[j].phase
              /\ j # i => serve'[j] = serve[j]
         /\ Current' = Current /\ LockIsOne' /\ TriesAreCounted'
<1> USE DEF McpInv
<1>1. serve' = [serve EXCEPT ![i].phase = p]
  BY DEF Client!Go
<1>2. serve \in [Client!Tries -> ServeRecords]
  BY DEF McpTypes
<1>3. \A j \in Client!Tries :
        /\ serve'[j].server = serve[j].server /\ serve'[j].for = serve[j].for
        /\ serve'[j].interactive = serve[j].interactive
        /\ serve'[j].phase = IF j = i THEN p ELSE serve[j].phase
        /\ j # i => serve'[j] = serve[j]
  BY <1>1, <1>2 DEF ServeRecords
<1>4. serve' \in [Client!Tries -> ServeRecords]
  BY <1>1, <1>2 DEF ServeRecords
<1>5. Current' = Current
  BY DEF Current
<1>6. \A j \in Client!Tries : serve'[j].phase # "none" <=> serve[j].phase # "none"
  BY <1>3
<1>7. TriesAreCounted'
  BY <1>5, <1>6 DEF TriesAreCounted
<1>8. LockIsOne'
  <2>1. \A c \in Callers : call[c].task # 0 => call[c].task \in Client!Tries
    BY TriesAre DEF McpTypes
  <2> QED
    BY <1>3, <1>6, <2>1 DEF LockIsOne, IsInjective, Range
<1> QED
  BY <1>3, <1>4, <1>5, <1>7, <1>8

(* A call returns: the next has no task yet. *)
LEMMA LeaveKeeps ==
  ASSUME McpInv, NEW c \in Callers, Client!Holds(c), Client!Leave(c)
  PROVE  /\ line' \in Seq(Callers) /\ Len(line') = Len(line) - 1 /\ line # <<>>
         /\ call' \in [Callers -> [what : {"none", "turn", "connect"},
                                   server : Servers \cup {"none"}, task : 0..MaxCalls]]
         /\ \A d \in Callers : call'[d].task = 0
         /\ Current = call[c].task /\ Current' = 0
         /\ LockIsOne'
         /\ call[c].what # "none" /\ call[c].server \in Servers
<1> USE DEF McpInv
<1>1. /\ line # <<>> /\ Head(line) = c /\ line' = Tail(line)
      /\ call' = [call EXCEPT ![c] = Client!NoCall]
  BY DEF Client!Holds, Client!Leave
<1>2. line \in Seq(Callers) /\ IsInjective(line)
  BY DEF McpTypes, LockIsOne
<1>3. /\ line' \in Seq(Callers) /\ Range(line) = {c} \cup Range(line')
      /\ IsInjective(line') /\ c \notin Range(line')
  BY <1>1, <1>2, RangeHeadTail, InjectiveTail
<1>4. Len(line') = Len(line) - 1
  BY <1>1, <1>2
<1>5. \A d \in Callers : d # c => call[d].task = 0
  BY <1>1 DEF LockIsOne
<1>6. /\ call' \in [Callers -> [what : {"none", "turn", "connect"},
                                server : Servers \cup {"none"}, task : 0..MaxCalls]]
      /\ \A d \in Callers : call'[d].task = 0 /\ (d # c => call'[d] = call[d])
  BY <1>1, <1>5, TriesAre DEF McpTypes, Client!NoCall, Client!NoTry
<1>7. Current = call[c].task /\ Current' = 0
  BY <1>1, <1>3, <1>6 DEF Current
<1>8. LockIsOne'
  <2>1. \A d \in Range(line') : d \in Callers /\ d # c /\ d \in Range(line)
    BY <1>3, RangeHas
  <2> QED
    BY <1>3, <1>6, <2>1 DEF LockIsOne
<1>9. call[c].what # "none" /\ call[c].server \in Servers
  BY <1>3 DEF LockIsOne
<1> QED
  BY <1>1, <1>3, <1>4, <1>6, <1>7, <1>8, <1>9

-----------------------------------------------------------------------------
(* The steps. *)

LEMMA AskKeeps ==
  ASSUME McpInv, NEW c \in Callers, NEW what \in {"turn", "connect"}, NEW s \in Servers,
         Client!Ask(c, what, s)
  PROVE  McpInv'
<1> USE DEF McpInv
<1>1. /\ call[c] = Client!NoCall /\ tried < MaxCalls /\ tried' = tried + 1
      /\ call' = [call EXCEPT ![c] = [what |-> what, server |-> s, task |-> 0]]
      /\ line' = Append(line, c)
      /\ UNCHANGED <<serve, ready, conns, tasks, shut, cancelled, pending, expected, pages,
                     tokens, closing, reloads, ended>>
  BY DEF Client!Ask, Client!NoTry
<1>2. line \in Seq(Callers) /\ IsInjective(line) /\ c \notin Range(line)
  BY <1>1 DEF McpTypes, LockIsOne, Client!NoCall
<1>3. /\ line' \in Seq(Callers) /\ Len(line') = Len(line) + 1 /\ line' # <<>>
      /\ IsInjective(line') /\ Range(line') = Range(line) \cup {c}
      /\ Head(line') = IF line = <<>> THEN c ELSE Head(line)
  BY <1>1, <1>2, InjectiveAppend, RangeAppend
<1>4. /\ call' \in [Callers -> [what : {"none", "turn", "connect"},
                                server : Servers \cup {"none"}, task : 0..MaxCalls]]
      /\ call'[c].what = what /\ call'[c].server = s /\ call'[c].task = 0
      /\ \A d \in Callers : d # c => call'[d] = call[d]
  BY <1>1, TriesAre DEF McpTypes
<1>5. line # <<>> => Head(line) \in Range(line) /\ Head(line) \in Callers
  BY <1>2, RangeHeadTail
<1>6. Current' = Current
  BY <1>2, <1>3, <1>4, <1>5 DEF Current
<1>7. LockIsOne'
  <2>1. \A d \in Range(line') : call'[d].what # "none" /\ call'[d].server \in Servers
    BY <1>2, <1>3, <1>4, RangeHas DEF LockIsOne
  <2>2. \A d \in Callers : call'[d].task # 0 =>
          d # c /\ call'[d] = call[d] /\ line # <<>> /\ Head(line) = d
    BY <1>4 DEF LockIsOne
  <2> QED
    BY <1>1, <1>3, <2>1, <2>2 DEF LockIsOne
<1>8. TriesAreCounted'
  <2>1. PICK n \in 0..MaxCalls :
          /\ \A i \in Client!Tries : serve[i].phase # "none" <=> i <= n
          /\ n + Len(line) <= tried + (IF Current = 0 THEN 0 ELSE 1)
    BY DEF TriesAreCounted
  <2>2. Len(line) \in Nat /\ tried \in Nat
    BY <1>2 DEF McpTypes
  <2>3. n + Len(line') <= tried' + (IF Current' = 0 THEN 0 ELSE 1)
    BY <1>1, <1>3, <1>6, <2>1, <2>2
  <2> QED
    BY <1>1, <2>1, <2>3 DEF TriesAreCounted
<1>9. McpTypes'
  <2>1. tried' \in 0..MaxCalls
    BY <1>1, TriesAre DEF McpTypes
  <2> QED
    BY <1>1, <1>3, <1>4, <2>1 DEF McpTypes
<1>10. TriesAreSane' /\ SignInsMatch'
  BY <1>1, <1>6 DEF TriesAreSane, SignInsMatch
<1>11. reloads' = 0 => Undisturbed'
  BY <1>1, <1>6 DEF Undisturbed
<1> QED
  BY <1>7, <1>8, <1>9, <1>10, <1>11

LEMMA NextTryIs ==
  ASSUME McpInv, line # <<>>, Current = 0
  PROVE  /\ Client!NextTry \in Client!Tries
         /\ serve[Client!NextTry] = Client!NoServe
         /\ \A i \in Client!Tries :
              serve[i].phase # "none" \/ i = Client!NextTry <=> i <= Client!NextTry
         /\ Client!NextTry + Len(line) <= tried + 1
<1> USE DEF McpInv
<1>1. PICK n \in 0..MaxCalls :
        /\ \A i \in Client!Tries : serve[i].phase # "none" <=> i <= n
        /\ n + Len(line) <= tried + (IF Current = 0 THEN 0 ELSE 1)
  BY DEF TriesAreCounted
<1>2. Client!Tries = 1..MaxCalls /\ MaxCalls \in Nat
  BY TriesAre
<1>3. \A i \in Client!Tries : serve[i] # Client!NoServe <=> serve[i].phase # "none"
  BY DEF TriesAreSane, Client!NoServe
<1>4. {i \in Client!Tries : serve[i] # Client!NoServe} = 1..n
  BY <1>1, <1>2, <1>3
<1>5. Client!NextTry = n + 1
  <2>1. Client!NextTry = 1 + Cardinality(1..n)
    BY <1>4 DEF Client!NextTry, Client!Cardinality, Cardinality
  <2>2. Cardinality(1..n) = n
    BY FS_Interval
  <2> QED
    BY <2>1, <2>2
<1>6. Len(line) \in Nat \ {0} /\ tried \in 0..MaxCalls
  BY DEF McpTypes
<1>7. n + 1 <= MaxCalls /\ n + 1 + Len(line) <= tried + 1
  BY <1>1, <1>2, <1>6
<1> HIDE DEF McpInv
<1>8. n + 1 \in Client!Tries /\ ~(n + 1 <= n)
  BY <1>2, <1>7
<1>9. serve[n + 1] = Client!NoServe
  BY <1>1, <1>3, <1>8
<1>10. \A i \in Client!Tries : serve[i].phase # "none" \/ i = n + 1 <=> i <= n + 1
  BY <1>1, <1>2
<1> QED
  BY <1>5, <1>7, <1>8, <1>9, <1>10

(* The call finds a connection, or starts a task. *)
LEMMA EnterKeeps ==
  ASSUME McpInv, NEW c \in Callers, Client!Enter(c)
  PROVE  McpInv'
<1> USE DEF McpInv
<1> DEFINE s == call[c].server
           new == Client!NextTry
<1>1. /\ Client!Holds(c) /\ call[c].task = 0 /\ line # <<>> /\ Head(line) = c
      /\ UNCHANGED <<ready, conns, shut, cancelled, pending, expected, pages, tokens, closing,
                     reloads, tried, ended>>
  BY DEF Client!Enter, Client!Holds, Client!NoTry
<1>2. Current = 0
  BY <1>1 DEF Current
<1>3. CASE Client!Leave(c) /\ UNCHANGED <<serve, tasks>>
  <2>1. /\ line' \in Seq(Callers) /\ Len(line') = Len(line) - 1 /\ Current' = 0
        /\ call' \in [Callers -> [what : {"none", "turn", "connect"},
                                  server : Servers \cup {"none"}, task : 0..MaxCalls]]
        /\ LockIsOne'
    BY <1>1, <1>3, LeaveKeeps
  <2>2. McpTypes'
    BY <1>1, <1>3, <2>1 DEF McpTypes
  <2>3. TriesAreCounted'
    <3>1. PICK n \in 0..MaxCalls :
            /\ \A i \in Client!Tries : serve[i].phase # "none" <=> i <= n
            /\ n + Len(line) <= tried + (IF Current = 0 THEN 0 ELSE 1)
      BY DEF TriesAreCounted
    <3>2. Len(line) \in Nat /\ tried \in Nat
      BY DEF McpTypes
    <3>3. n + Len(line') <= tried' + (IF Current' = 0 THEN 0 ELSE 1)
      BY <1>1, <1>2, <2>1, <3>1, <3>2
    <3> QED
      BY <1>3, <3>1, <3>3 DEF TriesAreCounted
  <2>4. TriesAreSane' /\ SignInsMatch'
    BY <1>1, <1>2, <1>3, <2>1 DEF TriesAreSane, SignInsMatch
  <2>5. reloads' = 0 => Undisturbed'
    BY <1>1, <1>2, <1>3, <2>1 DEF Undisturbed
  <2> QED
    BY <2>1, <2>2, <2>3, <2>4, <2>5
<1>4. CASE /\ conns[s] = 0 /\ UNCHANGED line
           /\ serve' = [serve EXCEPT ![new] =
                          [server |-> s, for |-> call[c].what,
                           interactive |-> Client!Interactive(call[c].what),
                           phase |-> "opening"]]
           /\ tasks' = [tasks EXCEPT ![s] = new]
           /\ call' = [call EXCEPT ![c].task = new]
  <2>1. /\ new \in Client!Tries /\ serve[new] = Client!NoServe
        /\ \A i \in Client!Tries : serve[i].phase # "none" \/ i = new <=> i <= new
        /\ new + Len(line) <= tried + 1
    BY <1>1, <1>2, NextTryIs
  <2> HIDE DEF new
  <2>2. /\ s \in Servers /\ call[c].what \in {"turn", "connect"} /\ c \in Range(line)
        /\ \A d \in Callers : call[d].task = 0
    <3>1. c \in Range(line)
      BY <1>1, RangeHeadTail DEF McpTypes
    <3> QED
      BY <1>1, <3>1 DEF McpTypes, LockIsOne
  <2>3. /\ new \in 0..MaxCalls /\ new # 0
    BY <2>1, TriesAre
  <2>4. /\ call' \in [Callers -> [what : {"none", "turn", "connect"},
                                  server : Servers \cup {"none"}, task : 0..MaxCalls]]
        /\ call'[c].what = call[c].what /\ call'[c].server = s /\ call'[c].task = new
        /\ \A d \in Callers : d # c => call'[d] = call[d]
    BY <1>4, <2>3 DEF McpTypes
  <2>5. /\ serve' \in [Client!Tries -> ServeRecords]
        /\ serve'[new].server = s /\ serve'[new].phase = "opening"
        /\ serve'[new].for = call[c].what
        /\ serve'[new].interactive => call[c].what = "connect"
        /\ \A i \in Client!Tries : i # new => serve'[i] = serve[i]
    BY <1>4, <2>1, <2>2 DEF McpTypes, ServeRecords, Phases, Client!Interactive
  <2>6. serve[new].phase = "none" /\ serve[new].for = "none"
    BY <2>1 DEF Client!NoServe
  <2>7. Current' = new
    BY <1>1, <1>4, <2>4 DEF Current
  <2>8. McpTypes'
    <3>1. tasks' \in [Servers -> 0..MaxCalls]
      BY <1>4, <2>3 DEF McpTypes
    <3> QED
      BY <1>1, <1>4, <2>4, <2>5, <3>1 DEF McpTypes
  <2>9. LockIsOne'
    <3>0. \A d \in Range(line) :
            d \in Callers /\ call[d].what # "none" /\ call[d].server \in Servers
      BY RangeHas DEF LockIsOne, McpTypes
    <3>1. \A d \in Range(line) : call'[d].what # "none" /\ call'[d].server \in Servers
      BY <2>2, <2>4, <3>0
    <3>2. \A d \in Callers : call'[d].task # 0 => d = c
      BY <2>2, <2>4
    <3>3. IsInjective(line)
      BY DEF LockIsOne
    <3>4. Range(line') = Range(line) /\ IsInjective(line')
      BY <1>4, <3>3
    <3> QED
      BY <1>1, <1>4, <2>4, <2>5, <3>1, <3>2, <3>4 DEF LockIsOne
  <2>10. TriesAreCounted'
    <3>1. \A i \in Client!Tries : serve'[i].phase # "none" <=> i <= new
      BY <2>1, <2>5
    <3>2. new + Len(line') <= tried' + (IF Current' = 0 THEN 0 ELSE 1)
      BY <1>1, <1>4, <2>1, <2>3, <2>7
    <3> QED
      BY <2>3, <3>1, <3>2 DEF TriesAreCounted
  <2>11. \A i \in Client!Tries : serve[i].phase \notin Busy
    BY <1>2, TriesAre DEF TriesAreSane
  <2>12. TriesAreSane'
    BY <1>1, <2>2, <2>5, <2>6, <2>7, <2>11 DEF TriesAreSane, Busy
  <2>13. SignInsMatch'
    <3>1. pending # 0 => pending \in Client!Tries /\ serve'[pending] = serve[pending]
      BY <2>5, <2>6, TriesAre DEF McpTypes, SignInsMatch
    <3>2. \A i \in pages : i \in Client!Tries /\ i # new
      BY <2>6 DEF McpTypes, SignInsMatch
    <3> QED
      BY <1>1, <2>5, <3>1, <3>2 DEF SignInsMatch
  <2>14. reloads' = 0 => Undisturbed'
    <3> SUFFICES ASSUME reloads = 0 PROVE Undisturbed'
      BY <1>1
    <3>1. Undisturbed
      OBVIOUS
    <3>2. ready[new] = "pending" /\ new \notin shut
      BY <2>1, <2>6, <3>1 DEF TriesAreSane, Undisturbed
    <3>3. \A i \in Client!Tries : serve[i].phase = "up" =>
            conns[serve[i].server] = i /\ serve[i].server # s
      BY <1>2, <1>4, <3>1, TriesAre DEF Undisturbed
    <3>4. \A i \in Client!Tries : i # new => serve[i].phase \notin Busy
      BY <2>11
    <3>5. \A x \in Servers : conns[x] # 0 =>
            /\ conns[x] \in Client!Tries /\ conns[x] # new
            /\ serve'[conns[x]] = serve[conns[x]]
      BY <2>5, <2>6, <3>1, TriesAre DEF McpTypes, Undisturbed
    <3>6. \A i \in Client!Tries : serve'[i].phase \in Busy \cup {"up"} =>
            tasks'[serve'[i].server] = i
      <4>1. ASSUME NEW i \in Client!Tries, i # new, serve[i].phase = "up"
            PROVE  tasks'[serve[i].server] = i
        <5>1. serve[i].server \in Servers /\ serve[i].server # s
          BY <3>3, <4>1 DEF TriesAreSane
        <5>2. tasks[serve[i].server] = i
          BY <3>1, <4>1 DEF Undisturbed
        <5> QED
          BY <1>4, <5>1, <5>2 DEF McpTypes
      <4>2. tasks'[s] = new
        BY <1>4, <2>2 DEF McpTypes
      <4> QED
        BY <2>5, <2>11, <4>1, <4>2
    <3>7. \A i \in Client!Tries :
            /\ serve'[i].phase = "none" => i \notin shut
            /\ serve'[i].phase = "gone" => ready[i] # "pending"
            /\ serve'[i].phase = "up" => conns[serve'[i].server] = i
      BY <2>5, <3>1, <3>3 DEF Undisturbed
    <3> QED
      BY <1>1, <2>7, <3>1, <3>2, <3>5, <3>6, <3>7 DEF Undisturbed
  <2> QED
    BY <2>8, <2>9, <2>10, <2>12, <2>13, <2>14
<1> QED
  BY <1>3, <1>4 DEF Client!Enter, Client!NoTry

(* The task's word is taken. *)
LEMMA LeavesKeeps ==
  ASSUME McpInv, NEW c \in Callers, Client!Leaves(c)
  PROVE  McpInv'
<1> USE DEF McpInv
<1> DEFINE t == call[c].task
           s == call[c].server
<1>1. /\ Client!Holds(c) /\ Client!Leave(c) /\ t # 0 /\ ready[t] # "pending"
      /\ conns' = IF ready[t] = "ok" THEN [conns EXCEPT ![s] = t] ELSE conns
      /\ UNCHANGED <<serve, ready, tasks, shut, cancelled, pending, expected, pages, tokens,
                     closing, reloads, tried, ended>>
  BY DEF Client!Leaves, Client!NoTry
<1>2. /\ line' \in Seq(Callers) /\ Len(line') = Len(line) - 1
      /\ call' \in [Callers -> [what : {"none", "turn", "connect"},
                                server : Servers \cup {"none"}, task : 0..MaxCalls]]
      /\ Current = t /\ Current' = 0 /\ LockIsOne' /\ s \in Servers
  BY <1>1, LeaveKeeps
<1>3. t \in Client!Tries /\ t \in 0..MaxCalls /\ serve[t].phase # "none" /\ serve[t].server = s
  BY <1>1, TriesAre DEF McpTypes, LockIsOne
<1>4. conns' \in [Servers -> 0..MaxCalls]
  BY <1>1, <1>2, <1>3 DEF McpTypes
<1> HIDE DEF s, t
<1>5. McpTypes'
  BY <1>1, <1>2, <1>4 DEF McpTypes
<1>6. TriesAreCounted'
  <2>1. PICK n \in 0..MaxCalls :
          /\ \A i \in Client!Tries : serve[i].phase # "none" <=> i <= n
          /\ n + Len(line) <= tried + (IF Current = 0 THEN 0 ELSE 1)
    BY DEF TriesAreCounted
  <2>2. Len(line) \in Nat /\ tried \in Nat
    BY DEF McpTypes
  <2>3. n + Len(line') <= tried' + (IF Current' = 0 THEN 0 ELSE 1)
    BY <1>1, <1>2, <2>1, <2>2
  <2> QED
    BY <1>1, <2>1, <2>3 DEF TriesAreCounted
<1>7. \A i \in Client!Tries : serve[i].phase \notin Busy
  BY <1>1, <1>2 DEF TriesAreSane
<1>8. TriesAreSane' /\ SignInsMatch'
  BY <1>1, <1>2, <1>7 DEF TriesAreSane, SignInsMatch
<1>9. reloads' = 0 => Undisturbed'
  <2> SUFFICES ASSUME reloads = 0 PROVE Undisturbed'
    BY <1>1
  <2>1. Undisturbed
    OBVIOUS
  <2>2. ready[t] = "ok" => serve[t].phase = "up"
    BY <1>1, <1>2, <2>1 DEF Undisturbed
  <2>3. ready[t] = "ok" => conns'[s] = t /\ \A x \in Servers : x # s => conns'[x] = conns[x]
    BY <1>1, <1>2, <1>3 DEF McpTypes
  <2>4. ready[t] # "ok" => conns' = conns /\ serve[t].phase # "up"
    BY <1>1, <1>3 DEF TriesAreSane
  <2>5. \A i \in Client!Tries : serve[i].phase = "up" => conns'[serve[i].server] = i
    <3> SUFFICES ASSUME NEW i \in Client!Tries, serve[i].phase = "up"
                 PROVE  conns'[serve[i].server] = i
      OBVIOUS
    <3>1. serve[i].server \in Servers /\ tasks[serve[i].server] = i
      BY <2>1 DEF TriesAreSane, Undisturbed
    <3>2. conns[serve[i].server] = i \/ i = t
      BY <1>2, <2>1 DEF Undisturbed
    <3>3. CASE ready[t] = "ok"
      <4>1. tasks[s] = t
        BY <1>3, <2>1, <2>2, <3>3 DEF Undisturbed
      <4> QED
        BY <1>3, <2>3, <3>1, <3>2, <3>3, <4>1
    <3>4. CASE ready[t] # "ok"
      BY <2>4, <3>2, <3>4
    <3> QED
      BY <3>3, <3>4
  <2>6. \A x \in Servers : conns'[x] # 0 =>
          serve[conns'[x]].server = x /\ serve[conns'[x]].phase = "up"
    BY <1>3, <2>1, <2>2, <2>3, <2>4 DEF Undisturbed
  <2>7. 0 \notin shut
    BY TriesAre DEF McpTypes
  <2> QED
    BY <1>1, <1>2, <2>1, <2>5, <2>6, <2>7 DEF Undisturbed
<1> QED
  BY <1>2, <1>5, <1>6, <1>8, <1>9

-----------------------------------------------------------------------------
(* The tasks. *)

(* A task comes up: its word is "ok".                                      *)
LEMMA UpKeeps ==
  ASSUME McpInv, NEW i \in Client!Tries, Client!Go(i, "up"), serve[i].phase \in Busy,
         ready' = [ready EXCEPT ![i] = "ok"], pages' \subseteq pages,
         UNCHANGED <<line, call, conns, tasks, shut, cancelled, closing, reloads, tried>>,
         \/ UNCHANGED <<pending, expected, ended>> /\ pending # i
         \/ pending' = 0 /\ expected' = 0 /\ ended' = ended \cup {<<i, i>>}
  PROVE  McpInv'
<1> USE DEF McpInv
<1>1. /\ serve' \in [Client!Tries -> ServeRecords]
      /\ \A j \in Client!Tries :
           /\ serve'[j].server = serve[j].server /\ serve'[j].for = serve[j].for
           /\ serve'[j].interactive = serve[j].interactive
           /\ serve'[j].phase = IF j = i THEN "up" ELSE serve[j].phase
           /\ j # i => serve'[j] = serve[j]
      /\ Current' = Current /\ LockIsOne' /\ TriesAreCounted'
  BY GoKeeps DEF Busy, Phases
<1>2. i = Current /\ \A j \in Client!Tries : j # i => serve[j].phase \notin Busy
  BY DEF TriesAreSane
<1>3. McpTypes'
  <2>1. pending' \in 0..MaxCalls /\ expected' \in 0..MaxCalls
    BY TriesAre DEF McpTypes
  <2>2. ready' \in [Client!Tries -> {"pending", "ok", "failed"}]
    BY DEF McpTypes
  <2>3. pages' \subseteq Client!Tries
    BY DEF McpTypes
  <2> QED
    BY <1>1, <2>1, <2>2, <2>3 DEF McpTypes
<1>4. /\ ready'[i] = "ok" /\ \A j \in Client!Tries : j # i => ready'[j] = ready[j]
  BY DEF McpTypes
<1>5. TriesAreSane'
  BY <1>1, <1>2, <1>4 DEF TriesAreSane, Busy
<1>6. SignInsMatch'
  <2>1. \A j \in pages' : j \in Client!Tries /\ serve'[j].for = "connect"
    BY <1>1 DEF SignInsMatch, McpTypes
  <2>2. pending # 0 => pending \in Client!Tries
    BY TriesAre DEF McpTypes
  <2>3. /\ \A j \in Client!Tries : serve'[j].phase \notin {"browser", "signing"}
        /\ \A j \in Client!Tries : serve'[j].interactive => serve'[j].for = "connect"
        /\ \A pair \in ended' : pair[1] = pair[2]
    BY <1>1, <1>2 DEF SignInsMatch, Busy
  <2>4. pending' # 0 => serve'[pending'].phase = "signing"
    BY <1>1, <2>2 DEF SignInsMatch
  <2> QED
    BY <2>1, <2>3, <2>4 DEF SignInsMatch
<1>7. reloads' = 0 => Undisturbed'
  <2> SUFFICES ASSUME reloads = 0 PROVE Undisturbed'
    OBVIOUS
  <2>1. Undisturbed
    OBVIOUS
  <2>2. serve[i].phase # "none" /\ serve[i].phase # "gone" /\ tasks[serve[i].server] = i
    BY <2>1 DEF Undisturbed, Busy
  <2>3. \A j \in Client!Tries :
          /\ serve'[j].phase = "none" => j \notin shut
          /\ serve'[j].phase = "gone" => ready'[j] # "pending"
          /\ serve'[j].phase \in Busy \cup {"up"} => tasks[serve'[j].server] = j
          /\ serve'[j].phase = "up" => conns[serve'[j].server] = j \/ j = Current
    BY <1>1, <1>2, <1>4, <2>1, <2>2 DEF Undisturbed
  <2>4. \A x \in Servers : conns[x] # 0 => conns[x] \in Client!Tries /\ conns[x] # i
    BY <1>2, <2>1, TriesAre DEF Undisturbed, McpTypes
  <2>5. \A x \in Servers : conns[x] # 0 =>
          /\ serve'[conns[x]].server = x /\ serve'[conns[x]].phase = "up"
          /\ conns[x] # Current
    BY <1>1, <2>1, <2>4 DEF Undisturbed
  <2>6. serve'[Current].phase = "up"
    BY <1>1, <1>2
  <2>7. Current \notin shut /\ closing.left = {} /\ ~closing.on /\ cancelled = {}
    BY <2>1 DEF Undisturbed
  <2> QED
    BY <1>1, <2>3, <2>5, <2>6, <2>7 DEF Undisturbed
<1> QED
  BY <1>1, <1>3, <1>5, <1>6, <1>7

(* A task ends: it takes what is listed under its server's name. *)
LEMMA GoneKeeps ==
  ASSUME McpInv, NEW i \in Client!Tries, Client!Go(i, "gone"),
         serve[i].phase \in Busy \cup {"up"}, Client!Unlist(i),
         UNCHANGED <<line, call, shut, cancelled, pages, closing, reloads, tried, ended>>,
         \/ ready' = [ready EXCEPT ![i] = "failed"] /\ serve[i].phase \in Busy
         \/ UNCHANGED ready /\ ((i \in shut /\ serve[i].phase = "up") \/ i \in cancelled),
         \/ UNCHANGED <<pending, expected>> /\ serve[i].phase # "signing"
         \/ pending' = 0 /\ expected' = 0 /\ serve[i].phase = "signing"
  PROVE  McpInv'
<1> USE DEF McpInv
<1> DEFINE s == serve[i].server
<1>1. /\ serve' \in [Client!Tries -> ServeRecords]
      /\ \A j \in Client!Tries :
           /\ serve'[j].server = serve[j].server /\ serve'[j].for = serve[j].for
           /\ serve'[j].interactive = serve[j].interactive
           /\ serve'[j].phase = IF j = i THEN "gone" ELSE serve[j].phase
           /\ j # i => serve'[j] = serve[j]
      /\ Current' = Current /\ LockIsOne' /\ TriesAreCounted'
  BY GoKeeps DEF Busy, Phases
<1>2. s \in Servers
  BY DEF TriesAreSane, Busy
<1>3. /\ conns' \in [Servers -> 0..MaxCalls] /\ conns'[s] = 0
      /\ tasks' \in [Servers -> 0..MaxCalls] /\ tasks'[s] = 0
      /\ \A x \in Servers : x # s => conns'[x] = conns[x] /\ tasks'[x] = tasks[x]
  BY <1>2, TriesAre DEF McpTypes, Client!Unlist, Client!NoTry
<1> HIDE DEF s
<1>4. /\ ready' \in [Client!Tries -> {"pending", "ok", "failed"}]
      /\ \A j \in Client!Tries : j # i => ready'[j] = ready[j]
      /\ serve[i].phase \in Busy => ready'[i] = "failed" \/ ready'[i] = ready[i]
      /\ serve[i].phase = "up" => ready'[i] = ready[i]
      /\ ready'[i] = "failed" \/ (i \in shut /\ serve[i].phase = "up") \/ i \in cancelled
  <2>1. ready \in [Client!Tries -> {"pending", "ok", "failed"}]
    BY DEF McpTypes
  <2>2. CASE ready' = [ready EXCEPT ![i] = "failed"] /\ serve[i].phase \in Busy
    <3>1. serve[i].phase # "up"
      BY <2>2 DEF Busy
    <3>2. /\ ready' \in [Client!Tries -> {"pending", "ok", "failed"}]
          /\ ready'[i] = "failed"
          /\ \A j \in Client!Tries : j # i => ready'[j] = ready[j]
      BY <2>1, <2>2
    <3> QED
      BY <3>1, <3>2
  <2>3. CASE UNCHANGED ready /\ ((i \in shut /\ serve[i].phase = "up") \/ i \in cancelled)
    BY <2>1, <2>3
  <2> QED
    BY <2>2, <2>3
<1>5. pending' \in 0..MaxCalls /\ expected' \in 0..MaxCalls
  BY TriesAre DEF McpTypes
<1>6. McpTypes'
  BY <1>1, <1>3, <1>4, <1>5 DEF McpTypes
<1>7. TriesAreSane'
  BY <1>1, <1>4 DEF TriesAreSane, Busy
<1>8. SignInsMatch'
  <2>1. \A j \in pages' : j \in Client!Tries /\ serve'[j].for = "connect"
    BY <1>1 DEF SignInsMatch, McpTypes
  <2>2. pending # 0 => pending \in Client!Tries
    BY TriesAre DEF McpTypes
  <2>3. pending' # 0 => serve'[pending'].phase = "signing"
    BY <1>1, <2>2 DEF SignInsMatch
  <2>4. ASSUME NEW j \in Client!Tries, serve'[j].phase \in {"browser", "signing"}
        PROVE  expected' = j
    <3>1. j # i /\ serve[j].phase \in {"browser", "signing"}
      BY <1>1, <2>4
    <3>2. j = Current /\ expected = j
      BY <3>1 DEF TriesAreSane, SignInsMatch, Busy
    <3>3. serve[i].phase \notin Busy
      BY <3>1, <3>2 DEF TriesAreSane
    <3> QED
      BY <3>2, <3>3 DEF Busy
  <2> QED
    BY <1>1, <2>1, <2>3, <2>4 DEF SignInsMatch
<1>9. reloads' = 0 => Undisturbed'
  <2> SUFFICES ASSUME reloads = 0 PROVE Undisturbed'
    OBVIOUS
  <2>1. Undisturbed
    OBVIOUS
  <2>2. tasks[s] = i
    BY <2>1 DEF Undisturbed, s
  <2>3. ASSUME NEW j \in Client!Tries, j # i, serve[j].phase \in Busy \cup {"up"}
        PROVE  serve[j].server \in Servers /\ serve[j].server # s
    BY <2>1, <2>2, <2>3 DEF Undisturbed, TriesAreSane, Busy
  <2>4. \A j \in Client!Tries :
          /\ serve'[j].phase \in Busy \cup {"up"} => tasks'[serve'[j].server] = j
          /\ serve'[j].phase = "up" => conns'[serve'[j].server] = j \/ j = Current
    <3>1. ASSUME NEW j \in Client!Tries, serve'[j].phase \in Busy \cup {"up"}
          PROVE  j # i /\ serve[j].phase = serve'[j].phase /\ serve[j].server = serve'[j].server
      BY <1>1, <3>1 DEF Busy
    <3> QED
      BY <1>3, <2>1, <2>3, <3>1 DEF Undisturbed
  <2>5. \A j \in Client!Tries : serve'[j].phase = "gone" => ready'[j] # "pending"
    <3>1. ready'[i] # "pending"
      BY <1>4, <2>1 DEF Undisturbed, TriesAreSane
    <3> QED
      BY <1>1, <1>4, <2>1, <3>1 DEF Undisturbed
  <2>6. \A x \in Servers : conns'[x] # 0 =>
          /\ serve'[conns'[x]].server = x /\ serve'[conns'[x]].phase = "up"
          /\ conns'[x] # Current
    <3> SUFFICES ASSUME NEW x \in Servers, conns'[x] # 0
                 PROVE  /\ serve'[conns'[x]].server = x /\ serve'[conns'[x]].phase = "up"
                        /\ conns'[x] # Current
      OBVIOUS
    <3>1. x # s /\ conns'[x] = conns[x] /\ conns[x] \in Client!Tries
      BY <1>3, TriesAre DEF McpTypes
    <3>2. serve[conns[x]].server = x /\ serve[conns[x]].phase = "up" /\ conns[x] # Current
      BY <2>1, <3>1 DEF Undisturbed
    <3>3. conns[x] # i
      BY <3>1, <3>2 DEF s
    <3> QED
      BY <1>1, <3>1, <3>2, <3>3
  <2>7. Current # 0 /\ ready'[Current] = "ok" => serve'[Current].phase = "up"
    <3> SUFFICES ASSUME Current # 0, ready'[Current] = "ok" PROVE serve'[Current].phase = "up"
      OBVIOUS
    <3>1. Current \in Client!Tries
      BY TriesAre
    <3>2. Current # i
      BY <1>4, <2>1 DEF Undisturbed, TriesAreSane
    <3> QED
      BY <1>1, <1>4, <2>1, <3>1, <3>2 DEF Undisturbed
  <2>8. \A j \in Client!Tries : serve'[j].phase = "none" => j \notin shut
    BY <1>1, <2>1 DEF Undisturbed
  <2> QED
    BY <1>1, <2>1, <2>4, <2>5, <2>6, <2>7, <2>8 DEF Undisturbed
<1> QED
  BY <1>1, <1>6, <1>7, <1>8, <1>9

(* The browser opens, then the task waits for the redirect. *)
LEMMA SigningKeeps ==
  ASSUME McpInv, NEW i \in Client!Tries, Client!Browse(i) \/ Client!AwaitRedirect(i)
  PROVE  McpInv'
<1> USE DEF McpInv
<1>1. PICK p \in {"browser", "signing"} :
        /\ Client!Go(i, p) /\ serve[i].phase \in {"opening", "browser"}
        /\ p = "browser" => /\ expected' = i /\ pages' = pages \cup {i}
                            /\ serve[i].interactive /\ UNCHANGED <<pending, cancelled>>
                            /\ serve[i].phase = "opening"
        /\ p = "signing" => /\ pending' = i /\ serve[i].phase = "browser"
                            /\ (pending = 0 => cancelled' = cancelled)
                            /\ UNCHANGED <<expected, pages>>
        /\ UNCHANGED <<line, call, ready, conns, tasks, shut, tokens, closing, reloads, tried,
                       ended>>
  BY DEF Client!Browse, Client!AwaitRedirect, Client!At, Client!NoTry
<1>2. /\ serve' \in [Client!Tries -> ServeRecords]
      /\ \A j \in Client!Tries :
           /\ serve'[j].server = serve[j].server /\ serve'[j].for = serve[j].for
           /\ serve'[j].interactive = serve[j].interactive
           /\ serve'[j].phase = IF j = i THEN p ELSE serve[j].phase
           /\ j # i => serve'[j] = serve[j]
      /\ Current' = Current /\ LockIsOne' /\ TriesAreCounted'
  <2>1. p \in Phases \ {"none"} /\ serve[i].phase # "none"
    BY <1>1 DEF Phases
  <2> QED
    BY <1>1, <2>1, GoKeeps
<1>3. i = Current /\ \A j \in Client!Tries : j # i => serve[j].phase \notin Busy
  BY <1>1 DEF TriesAreSane, Busy
<1>4. pending = 0
  <2>1. pending # 0 => pending \in Client!Tries /\ serve[pending].phase = "signing"
    BY TriesAre DEF McpTypes, SignInsMatch
  <2> QED
    BY <1>1, <1>3, <2>1 DEF Busy
<1>5. McpTypes'
  <2>1. i \in 0..MaxCalls
    BY TriesAre
  <2>2. pending' \in 0..MaxCalls /\ expected' \in 0..MaxCalls /\ pages' \subseteq Client!Tries
    BY <1>1, <2>1 DEF McpTypes
  <2> QED
    BY <1>1, <1>2, <2>2 DEF McpTypes
<1>6. TriesAreSane'
  BY <1>1, <1>2, <1>3 DEF TriesAreSane, Busy
<1>7. SignInsMatch'
  <2>1. \A j \in pages' : serve'[j].for = "connect"
    BY <1>1, <1>2 DEF SignInsMatch, McpTypes
  <2>2. pending' # 0 => serve'[pending'].phase = "signing"
    BY <1>1, <1>2, <1>4
  <2>3. \A j \in Client!Tries : serve'[j].phase \in {"browser", "signing"} => expected' = j
    BY <1>1, <1>2, <1>3 DEF SignInsMatch, Busy
  <2> QED
    BY <1>1, <1>2, <2>1, <2>2, <2>3 DEF SignInsMatch
<1>8. reloads' = 0 => Undisturbed'
  <2> SUFFICES ASSUME reloads = 0 PROVE Undisturbed'
    BY <1>1
  <2>1. Undisturbed /\ cancelled' = {}
    BY <1>1, <1>4 DEF Undisturbed
  <2>2. \A x \in Servers : conns[x] # 0 => conns[x] \in Client!Tries /\ conns[x] # i
    BY <1>3, <2>1, TriesAre DEF Undisturbed, McpTypes
  <2>3. ready[i] = "pending"
    BY <1>1 DEF TriesAreSane, Busy
  <2>4. /\ tasks[serve[i].server] = i
        /\ serve[i].phase # "none" /\ serve[i].phase # "gone" /\ serve[i].phase # "up"
    BY <1>1, <2>1 DEF Undisturbed, Busy
  <2>5. \A j \in Client!Tries :
          /\ serve'[j].phase = "none" => j \notin shut
          /\ serve'[j].phase = "gone" => ready[j] # "pending"
          /\ serve'[j].phase \in Busy \cup {"up"} => tasks[serve'[j].server] = j
          /\ serve'[j].phase = "up" => conns[serve'[j].server] = j \/ j = Current
    BY <1>2, <2>1, <2>4 DEF Undisturbed
  <2>6. \A x \in Servers : conns[x] # 0 =>
          /\ serve'[conns[x]].server = x /\ serve'[conns[x]].phase = "up"
          /\ conns[x] # Current
    BY <1>2, <2>1, <2>2 DEF Undisturbed
  <2>7. ready[Current] # "ok" /\ Current \notin shut /\ closing.left = {} /\ ~closing.on
    BY <1>3, <2>1, <2>3 DEF Undisturbed
  <2> QED
    BY <1>1, <1>2, <2>1, <2>5, <2>6, <2>7 DEF Undisturbed
<1> QED
  BY <1>2, <1>5, <1>6, <1>7, <1>8

(* A redirect: the one of the sign-in that waits, or of an older one. *)
LEMMA RedirectKeeps ==
  ASSUME McpInv, NEW i \in Client!Tries, Client!Redirect(i)
  PROVE  McpInv'
<1> USE DEF McpInv
<1>1. /\ pages' \subseteq pages
      /\ UNCHANGED <<line, call, conns, tasks, shut, cancelled, closing, reloads, tried>>
  BY DEF Client!Redirect
<1>2. CASE Client!Delivers(i) /\ Client!At(pending, "signing")
  <2>1. /\ pending # 0 /\ expected = i /\ serve[pending].phase = "signing"
        /\ Client!Go(pending, "up") /\ ready' = [ready EXCEPT ![pending] = "ok"]
        /\ ended' = ended \cup {<<pending, i>>} /\ pending' = 0 /\ expected' = 0
    BY <1>2 DEF Client!Redirect, Client!Delivers, Client!At, Client!NoTry
  <2>2. pending \in Client!Tries
    BY <2>1, TriesAre DEF McpTypes
  <2>3. pending = i
    BY <2>1, <2>2 DEF SignInsMatch
  <2> QED
    BY <1>1, <2>1, <2>3, UpKeeps DEF Busy
<1>3. CASE UNCHANGED <<serve, ready, tokens, ended, pending, expected>>
  <2>1. Current' = Current
    BY <1>1 DEF Current
  <2>2. McpTypes' /\ LockIsOne' /\ TriesAreCounted' /\ TriesAreSane'
    BY <1>1, <1>3, <2>1 DEF McpTypes, LockIsOne, TriesAreCounted, TriesAreSane
  <2>3. SignInsMatch' /\ (reloads' = 0 => Undisturbed')
    BY <1>1, <1>3, <2>1 DEF SignInsMatch, Undisturbed
  <2> QED
    BY <2>2, <2>3
<1> QED
  BY <1>2, <1>3 DEF Client!Redirect

LEMMA TasksKeep ==
  ASSUME McpInv, NEW i \in Client!Tries,
         \/ Client!Opened(i) \/ Client!Failed(i) \/ Client!SignInTimesOut(i)
         \/ Client!ShutDown(i) \/ Client!Cancelled(i)
  PROVE  McpInv'
<1>1. CASE Client!Opened(i)
  <2>1. /\ serve[i].phase = "opening" /\ Client!Go(i, "up")
        /\ ready' = [ready EXCEPT ![i] = "ok"]
        /\ UNCHANGED <<line, call, conns, tasks, shut, cancelled, pending, expected, pages,
                       closing, reloads, tried, ended>>
    BY <1>1 DEF Client!Opened, Client!At
  <2>2. pending # i
    BY <2>1, TriesAre DEF McpInv, SignInsMatch
  <2> QED
    BY <2>1, <2>2, UpKeeps DEF Busy
<1>2. CASE Client!Failed(i) \/ Client!SignInTimesOut(i)
  <2>1. /\ serve[i].phase \in {"opening", "signing"} /\ Client!Go(i, "gone")
        /\ ready' = [ready EXCEPT ![i] = "failed"] /\ Client!Unlist(i)
        /\ UNCHANGED <<line, call, shut, cancelled, pages, closing, reloads, tried, ended>>
        /\ \/ UNCHANGED <<pending, expected>> /\ serve[i].phase # "signing"
           \/ pending' = 0 /\ expected' = 0 /\ serve[i].phase = "signing"
    BY <1>2 DEF Client!Failed, Client!SignInTimesOut, Client!At, Client!NoTry
  <2> QED
    BY <2>1, GoneKeeps DEF Busy
<1>3. CASE Client!ShutDown(i)
  <2>1. /\ serve[i].phase = "up" /\ Client!Go(i, "gone") /\ i \in shut /\ Client!Unlist(i)
        /\ UNCHANGED <<line, call, ready, shut, cancelled, pending, expected, pages, closing,
                       reloads, tried, ended>>
    BY <1>3 DEF Client!ShutDown, Client!At
  <2> QED
    BY <2>1, GoneKeeps DEF Busy
<1>4. CASE Client!Cancelled(i)
  <2>1. /\ serve[i].phase \notin {"none", "gone"} /\ Client!Go(i, "gone") /\ i \in cancelled
        /\ Client!Unlist(i)
        /\ UNCHANGED <<line, call, ready, shut, cancelled, pages, closing, reloads, tried,
                       ended>>
        /\ \/ UNCHANGED <<pending, expected>> /\ serve[i].phase # "signing"
           \/ pending' = 0 /\ expected' = 0 /\ serve[i].phase = "signing"
    BY <1>4 DEF Client!Cancelled, Client!NoTry
  <2>2. serve[i].phase \in Busy \cup {"up"}
    BY <2>1 DEF McpInv, McpTypes, ServeRecords, Phases, Busy
  <2> QED
    BY <2>1, <2>2, GoneKeeps
<1> QED
  BY <1>1, <1>2, <1>3, <1>4

(* Sign-out and reload leave the tasks to end by themselves. *)
LEMMA ClosingKeeps ==
  ASSUME McpInv,
         \/ \E s \in Servers : Client!SignOut(s)
         \/ Client!Reload \/ Client!ReloadEnds
         \/ \E i \in Client!Tries : Client!ReloadWaits(i)
  PROVE  McpInv'
<1> USE DEF McpInv
<1>1. UNCHANGED <<line, call, serve, ready, pending, expected, pages, ended, tried>>
  BY DEF Client!SignOut, Client!Reload, Client!ReloadEnds, Client!ReloadWaits
<1>2. Current' = Current
  BY <1>1 DEF Current
<1>3. LockIsOne' /\ TriesAreCounted' /\ TriesAreSane' /\ SignInsMatch'
  BY <1>1, <1>2 DEF LockIsOne, TriesAreCounted, TriesAreSane, SignInsMatch
<1>4. \A s \in Servers : conns[s] # 0 => conns[s] \in Client!Tries
  BY TriesAre DEF McpTypes
<1>5. ASSUME NEW s \in Servers, Client!SignOut(s) PROVE McpInv'
  <2>1. /\ shut' = shut \cup ({conns[s]} \ {0})
        /\ UNCHANGED <<conns, tasks, cancelled, closing, reloads>>
    BY <1>5 DEF Client!SignOut, Client!NoTry
  <2>2. McpTypes'
    BY <1>1, <1>4, <2>1 DEF McpTypes
  <2>3. reloads = 0 => Undisturbed'
    <3> SUFFICES ASSUME reloads = 0 PROVE Undisturbed'
      OBVIOUS
    <3>1. Undisturbed
      OBVIOUS
    <3>2. conns[s] # 0 => serve[conns[s]].phase = "up" /\ conns[s] # Current
      BY <3>1 DEF Undisturbed
    <3>3. Current \notin shut' /\ \A j \in Client!Tries :
            serve[j].phase = "none" => j \notin shut'
      BY <2>1, <3>1, <3>2 DEF Undisturbed
    <3> QED
      BY <1>1, <1>2, <2>1, <3>1, <3>3 DEF Undisturbed
  <2> QED
    BY <1>3, <2>1, <2>2, <2>3
<1>6. CASE Client!Reload
  <2>1. /\ reloads' = reloads + 1 /\ UNCHANGED <<conns, tasks>>
        /\ shut' = shut \cup ({conns[s] : s \in Servers} \ {0})
    BY <1>6 DEF Client!Reload, Client!NoTry
  <2>2. McpTypes' /\ reloads' # 0
    BY <1>1, <1>4, <2>1 DEF McpTypes
  <2> QED
    BY <1>3, <2>2
<1>7. CASE Client!ReloadEnds
  <2>1. /\ closing.on /\ UNCHANGED <<shut, reloads>>
        /\ conns' = [s \in Servers |-> 0] /\ tasks' = [s \in Servers |-> 0]
    BY <1>7 DEF Client!ReloadEnds, Client!NoTry
  <2>2. McpTypes' /\ reloads' # 0
    BY <1>1, <2>1, TriesAre DEF McpTypes, Undisturbed
  <2> QED
    BY <1>3, <2>2
<1>8. ASSUME NEW i \in Client!Tries, Client!ReloadWaits(i) PROVE McpInv'
  <2>1. i \in closing.left /\ UNCHANGED <<shut, conns, tasks, reloads>>
    BY <1>8 DEF Client!ReloadWaits
  <2>2. McpTypes' /\ reloads' # 0
    BY <1>1, <2>1 DEF McpTypes, Undisturbed
  <2> QED
    BY <1>3, <2>2
<1> QED
  BY <1>5, <1>6, <1>7, <1>8

-----------------------------------------------------------------------------
(* The theorem. *)

LEMMA McpInit ==
  ASSUME Client!Init
  PROVE  McpInv
<1> USE DEF Client!Init, Client!NoTry, Client!NoCall, Client!NoServe
<1>1. MaxCalls \in Nat /\ Client!Tries = 1..MaxCalls
  BY PartsAssumption DEF Client!McpAssumption, Client!Tries
<1>2. line = <<>> /\ <<>> \in Seq(Callers) /\ Len(line) = 0 /\ Range(line) = {} /\ IsInjective(line)
  BY RangeEmpty, InjectiveEmpty
<1>3. Current = 0
  BY <1>2 DEF Current
<1>4. McpTypes
  BY <1>1, <1>2 DEF McpTypes, ServeRecords, Phases
<1>5. \A i \in Client!Tries :
        /\ serve[i] = Client!NoServe /\ serve[i].phase = "none" /\ ready[i] = "pending"
        /\ ~serve[i].interactive
  OBVIOUS
<1>6. LockIsOne
  BY <1>2 DEF LockIsOne
<1>7. TriesAreCounted
  <2>1. \A i \in Client!Tries : serve[i].phase # "none" <=> i <= 0
    BY <1>1, <1>5
  <2>2. 0 \in 0..MaxCalls /\ 0 + Len(line) <= tried + (IF Current = 0 THEN 0 ELSE 1)
    BY <1>1, <1>2, <1>3
  <2> QED
    BY <2>1, <2>2 DEF TriesAreCounted
<1>8. TriesAreSane
  BY <1>5 DEF TriesAreSane, Busy
<1>9. SignInsMatch
  BY <1>5 DEF SignInsMatch
<1>10. Undisturbed
  BY <1>3, <1>5 DEF Undisturbed, Busy
<1> QED
  BY <1>4, <1>6, <1>7, <1>8, <1>9, <1>10 DEF McpInv

LEMMA McpNext ==
  ASSUME McpInv, [Client!Next]_clientVars
  PROVE  McpInv'
<1>1. CASE UNCHANGED clientVars
  <2>1. Current' = Current
    BY <1>1 DEF clientVars, Current
  <2> QED
    BY <1>1, <2>1
       DEF clientVars, McpInv, McpTypes, LockIsOne, TriesAreCounted, TriesAreSane,
           SignInsMatch, Undisturbed
<1>2. ASSUME NEW c \in Callers, NEW s \in Servers, Client!Turn(c, s) \/ Client!Connect(c, s)
      PROVE  McpInv'
  BY <1>2, AskKeeps DEF Client!Turn, Client!Connect
<1>3. ASSUME NEW i \in Client!Tries,
             \/ Client!Opened(i) \/ Client!Failed(i) \/ Client!SignInTimesOut(i)
             \/ Client!ShutDown(i) \/ Client!Cancelled(i) \/ Client!Redirect(i)
             \/ Client!Browse(i) \/ Client!AwaitRedirect(i)
      PROVE  McpInv'
  BY <1>3, TasksKeep, RedirectKeeps, SigningKeeps
<1> QED
  BY <1>1, <1>2, <1>3, EnterKeeps, LeavesKeeps, ClosingKeeps DEF Client!Next

(* MCPManager.ensure, _serve and the sign-in, of any number of servers,    *)
(* calls and reloads: a page in the browser is of a server the user        *)
(* connects, a sign-in ends with its own redirect, and before any reload   *)
(* no call is stranded and what is handed out is open.                     *)
THEOREM ConnectionsAreHeld == Spec => []ConnectionsHold
<1>1. Init => McpInv
  BY McpInit DEF Init
<1>2. McpInv /\ [Next]_<<part, chatVars, bridgeVars, shellVars, storeVars, clientVars,
                         kitVars>>
        => McpInv'
  <2>1. [Next]_<<part, chatVars, bridgeVars, shellVars, storeVars, clientVars, kitVars>>
          => [Client!Next]_clientVars
    BY DEF Next, ChatStep, BridgeStep, ShellStep, AccountStep, McpStep, KitStep
  <2> QED
    BY <2>1, McpNext
<1>3. McpInv => ConnectionsHold
  <2> SUFFICES ASSUME McpInv PROVE Client!SignInsAreAsked /\ Client!ConnectionsAreKept
    BY DEF ConnectionsHold
  <2>1. Client!SignInsAreAsked
    BY DEF McpInv, SignInsMatch, Client!SignInsAreAsked
  <2>2. ASSUME reloads = 0 PROVE Undisturbed
    BY <2>2 DEF McpInv
  <2>3. ASSUME Undisturbed, NEW c \in Callers PROVE Client!HearsFromTask(c)
    <3>1. call[c].task # 0 => call[c].task \in Client!Tries
      BY TriesAre DEF McpInv, McpTypes
    <3> QED
      BY <2>3, <3>1 DEF Undisturbed, Client!HearsFromTask, Client!NoTry
  <2>4. ASSUME Undisturbed PROVE Client!LiveIsOpen
    BY <2>4 DEF Undisturbed, Client!LiveIsOpen, Client!NoTry
  <2>5. ASSUME Undisturbed, NEW i \in Client!Tries, serve[i].phase = "up"
        PROVE  tasks[serve[i].server] = i
    BY <2>5 DEF Undisturbed
  <2> QED
    BY <2>1, <2>2, <2>3, <2>4, <2>5 DEF Client!ConnectionsAreKept
<1> QED
  BY <1>1, <1>2, <1>3, PTL DEF Spec

-----------------------------------------------------------------------------
(* Inbound: what a session is owed is not dropped, and a chat has one      *)
(* session.                                                                *)

RouteTypes ==
  /\ turn \in [Sessions -> Msgs \cup {"idle", "resumed", "clicked"}]
  /\ steer \in [Sessions -> SUBSET Msgs] /\ thread \in [Sessions -> SUBSET Msgs]
  /\ rows \subseteq Sessions /\ fan \in [Msgs -> Seq(Sessions)]
  /\ owner \in [Chat!Chats -> Sessions \cup {"none"}]
  /\ born \in [Sessions -> Chat!Chats \cup {"none"}]
  /\ due \subseteq Msgs \X Sessions /\ deleted \subseteq Sessions

ArrivalTypes ==
  /\ msg \in [Msgs -> {Chat!Unsent} \cup [kind : Chat!Kinds, from : Senders]]
  /\ frames \in Seq(Chat!Frames) /\ parked \subseteq Msgs
  /\ subs \in Seq(Sessions) /\ prompts \subseteq Sessions

(* The sessions there are, or were until the user deleted them: no other   *)
(* session moves, is listed or is owed anything.                           *)
Made == rows \cup deleted
MadeOnly ==
  /\ \A s \in Sessions : turn[s] # "idle" => s \in Made
  /\ prompts \subseteq Made /\ Range(subs) \subseteq Made
  /\ dmSession # "none" => dmSession \in Made
  /\ \A m \in Msgs : Range(fan[m]) \subseteq Made
  /\ \A m \in Msgs, s \in Sessions : <<m, s>> \in due => s \in Made
  /\ \A s \in Made : s \in UserSessions \/ born[s] # "none"

(* The session that was spawned for a chat and is still there is the one   *)
(* the chat's messages go to.                                              *)
OwnersHold == \A s \in rows \ deleted : born[s] # "none" => owner[born[s]] = s

Owed ==
  \A m \in Msgs, s \in Sessions :
    <<m, s>> \in due =>
      m \in thread[s] \cup steer[s] \/ s \in Range(fan[m]) \/ <<m, s>> \in unrouted

RouteInv == RouteTypes /\ MadeOnly /\ OwnersHold /\ Owed

(* A message is on its way once, and is not dispatched until it is there.  *)
Held(m) == \E i \in DOMAIN frames : frames[i] = Chat!Message(m)
Arrivals ==
  /\ \A i, j \in DOMAIN frames :
       frames[i] = frames[j] /\ frames[i].what = "message" => i = j
  /\ \A m \in Msgs :
       /\ msg[m] = Chat!Unsent => ~Held(m) /\ m \notin parked
       /\ m \in parked => ~Held(m)
       /\ msg[m] = Chat!Unsent \/ Held(m) \/ m \in parked => fan[m] = <<>>

ChatInv == RouteInv /\ ArrivalTypes /\ Arrivals

-----------------------------------------------------------------------------
(* Routing. *)

LEMMA ChatRange == \A f : Chat!Range(f) = Range(f)
  BY DEF Chat!Range, Range

LEMMA ChatKept ==
  ASSUME NEW q \in Seq(Sessions), NEW T
  PROVE  Chat!Kept(q, T) \in Seq(Sessions) /\ Range(Chat!Kept(q, T)) = Range(q) \cap T
<1>1. Chat!Kept(q, T) = Kept(q, T)
  BY DEF Chat!Kept, Kept
<1> QED
  BY <1>1, KeptIs

(* Turns start and prompts come up in sessions that are there, or were.    *)
LEMMA TurnsKeep ==
  ASSUME RouteInv,
         turn' \in [Sessions -> Msgs \cup {"idle", "resumed", "clicked"}],
         \A s \in Sessions : turn'[s] # "idle" => turn[s] # "idle" \/ s \in Made,
         rows \subseteq rows', rows' \subseteq Made,
         prompts' \subseteq Made, Range(subs') \subseteq Made,
         dmSession' \in {dmSession} \cup Made,
         UNCHANGED <<steer, thread, fan, owner, born, due, unrouted, deleted>>
  PROVE  RouteInv'
<1> USE DEF RouteInv
<1>1. Made' = Made
  BY DEF Made
<1>2. rows' \subseteq Sessions
  BY DEF Made, RouteTypes
<1>3. RouteTypes' /\ Owed'
  BY <1>2 DEF RouteTypes, Owed
<1>4. MadeOnly'
  BY <1>1 DEF MadeOnly
<1>5. OwnersHold'
  BY DEF OwnersHold, Made
<1> QED
  BY <1>3, <1>4, <1>5

LEMMA DeliverKeeps ==
  ASSUME RouteTypes, NEW m \in Msgs, NEW s \in Sessions, Chat!Deliver(m, s)
  PROVE  /\ turn' \in [Sessions -> Msgs \cup {"idle", "resumed", "clicked"}]
         /\ steer' \in [Sessions -> SUBSET Msgs] /\ thread' \in [Sessions -> SUBSET Msgs]
         /\ \A x \in Sessions : turn'[x] # "idle" => turn[x] # "idle" \/ x = s
         /\ \A x \in Sessions :
              thread[x] \subseteq thread'[x] /\ steer[x] \subseteq steer'[x]
         /\ m \in thread'[s] \/ m \in steer'[s] \/ <<m, s>> \in unrouted'
         /\ unrouted \subseteq unrouted'
<1>1. CASE unrouted' = unrouted \cup {<<m, s>>} /\ UNCHANGED <<turn, steer, thread>>
  BY <1>1 DEF RouteTypes
<1>2. CASE /\ steer' = [steer EXCEPT ![s] = steer[s] \cup {m}]
           /\ UNCHANGED <<turn, thread, unrouted>>
  <2>1. steer' \in [Sessions -> SUBSET Msgs] /\ m \in steer'[s]
    BY <1>2 DEF RouteTypes
  <2>2. \A x \in Sessions : steer[x] \subseteq steer'[x]
    BY <1>2 DEF RouteTypes
  <2> QED
    BY <1>2, <2>1, <2>2 DEF RouteTypes
<1>3. CASE /\ turn' = [turn EXCEPT ![s] = m]
           /\ thread' = [thread EXCEPT ![s] = thread[s] \cup {m}]
           /\ UNCHANGED <<steer, unrouted>>
  <2>1. thread' \in [Sessions -> SUBSET Msgs] /\ m \in thread'[s]
    BY <1>3 DEF RouteTypes
  <2>2. \A x \in Sessions : thread[x] \subseteq thread'[x]
    BY <1>3 DEF RouteTypes
  <2>3. /\ turn' \in [Sessions -> Msgs \cup {"idle", "resumed", "clicked"}]
        /\ \A x \in Sessions : turn'[x] # "idle" => turn[x] # "idle" \/ x = s
    BY <1>3 DEF RouteTypes
  <2> QED
    BY <1>3, <2>1, <2>2, <2>3 DEF RouteTypes
<1> QED
  BY <1>1, <1>2, <1>3 DEF Chat!Deliver

(* One subscriber is served; left are those of message m that are to be    *)
(* served, owed the deliveries that are owed before.                       *)
LEMMA SubscriberKeeps ==
  ASSUME RouteInv, NEW m \in Msgs, NEW left \in Seq(Sessions), left # <<>>,
         Range(left) \subseteq Made, NEW owed \in SUBSET (Msgs \X Sessions),
         \A n \in Msgs, s \in Sessions : <<n, s>> \in owed =>
           /\ s \in Made
           /\ \/ n \in thread[s] \/ n \in steer[s] \/ <<n, s>> \in unrouted
              \/ n # m /\ s \in Range(fan[n])
              \/ n = m /\ s \in Range(left),
         Chat!NextSubscriber(m, left, owed),
         UNCHANGED <<subs, prompts, dmSession, deleted>>
  PROVE  RouteInv' /\ \A n \in Msgs : n # m => fan'[n] = fan[n]
<1> USE DEF RouteInv
<1> DEFINE s == Head(left)
<1>1. /\ s \in Sessions /\ Tail(left) \in Seq(Sessions)
      /\ Range(left) = {s} \cup Range(Tail(left))
  BY RangeHeadTail
<1> HIDE DEF s
<1>2. fan' = [fan EXCEPT ![m] = Tail(left)] /\ UNCHANGED <<owner, born, rows>>
  BY DEF Chat!NextSubscriber
<1>3. /\ fan' \in [Msgs -> Seq(Sessions)] /\ fan'[m] = Tail(left)
      /\ \A n \in Msgs : n # m => fan'[n] = fan[n]
  BY <1>1, <1>2 DEF RouteTypes
<1>4. Made' = Made /\ s \in Made
  BY <1>1, <1>2 DEF Made
<1>5. /\ due' \subseteq owed
      /\ turn' \in [Sessions -> Msgs \cup {"idle", "resumed", "clicked"}]
      /\ steer' \in [Sessions -> SUBSET Msgs] /\ thread' \in [Sessions -> SUBSET Msgs]
      /\ \A x \in Sessions : turn'[x] # "idle" => turn[x] # "idle" \/ x = s
      /\ \A x \in Sessions : thread[x] \subseteq thread'[x] /\ steer[x] \subseteq steer'[x]
      /\ <<m, s>> \in due' => m \in thread'[s] \/ m \in steer'[s] \/ <<m, s>> \in unrouted'
      /\ unrouted \subseteq unrouted'
  <2>1. CASE s \in muted
    BY <2>1 DEF Chat!NextSubscriber, s, RouteTypes
  <2>2. CASE s \notin muted
    <3>1. due' = owed /\ Chat!Deliver(m, s)
      BY <2>2 DEF Chat!NextSubscriber, s
    <3> QED
      BY <1>1, <3>1, DeliverKeeps
  <2> QED
    BY <2>1, <2>2
<1>6. RouteTypes'
  BY <1>2, <1>3, <1>5 DEF RouteTypes
<1>7. MadeOnly'
  <2>1. \A n \in Msgs : Range(fan'[n]) \subseteq Made
    BY <1>1, <1>3 DEF MadeOnly
  <2>2. \A n \in Msgs, x \in Sessions : <<n, x>> \in due' => x \in Made
    BY <1>5
  <2>3. \A x \in Sessions : turn'[x] # "idle" => x \in Made
    BY <1>4, <1>5 DEF MadeOnly
  <2> QED
    BY <1>2, <1>4, <2>1, <2>2, <2>3 DEF MadeOnly
<1>8. OwnersHold'
  BY <1>2 DEF OwnersHold
<1>9. Owed'
  <2> SUFFICES ASSUME NEW n \in Msgs, NEW x \in Sessions, <<n, x>> \in due'
               PROVE  \/ n \in thread'[x] \/ n \in steer'[x]
                      \/ x \in Range(fan'[n]) \/ <<n, x>> \in unrouted'
    BY DEF Owed
  <2>1. <<n, x>> \in owed
    BY <1>5
  <2>2. CASE n \in thread[x] \/ n \in steer[x] \/ <<n, x>> \in unrouted
    BY <1>5, <2>2
  <2>3. CASE n # m /\ x \in Range(fan[n])
    BY <1>3, <2>3
  <2>4. CASE n = m /\ x \in Range(left)
    BY <1>1, <1>3, <1>5, <2>4
  <2> QED
    BY <2>1, <2>2, <2>3, <2>4
<1> QED
  BY <1>3, <1>6, <1>7, <1>8, <1>9

(* A free id is of a session that was never there. *)
LEMMA FreshIs ==
  ASSUME RouteInv, NEW s, Chat!Fresh(s)
  PROVE  s \in Sessions /\ s \notin Made /\ born[s] = "none"
<1> DEFINE free == {t \in Sessions \ UserSessions : born[t] = "none"}
<1>1. free # {} /\ s = CHOOSE t \in free : TRUE
  BY DEF Chat!Fresh, Chat!None
<1>2. s \in free
  BY <1>1
<1> QED
  BY <1>2 DEF RouteInv, MadeOnly

(* The chat c gets the session s: none that is still there was its own.    *)
LEMMA SpawnKeeps ==
  ASSUME RouteInv, NEW c \in Chat!Chats, NEW s, ~Chat!HasSession(c), Chat!Fresh(s),
         owner' = [owner EXCEPT ![c] = s], born' = [born EXCEPT ![s] = c],
         rows' \in {rows, rows \cup {s}}, UNCHANGED deleted
  PROVE  /\ s \in Sessions /\ s \notin Made
         /\ owner' \in [Chat!Chats -> Sessions \cup {"none"}]
         /\ born' \in [Sessions -> Chat!Chats \cup {"none"}]
         /\ OwnersHold' /\ \A x \in Made' : x \in UserSessions \/ born'[x] # "none"
<1> USE DEF RouteInv
<1>1. s \in Sessions /\ s \notin Made /\ born[s] = "none"
  BY FreshIs
<1>2. c # "none"
  BY PartsAssumption DEF Chat!InboundAssumption, Chat!None, Chat!Chats, Chat!Thread
<1>3. /\ owner' \in [Chat!Chats -> Sessions \cup {"none"}] /\ owner'[c] = s
      /\ \A d \in Chat!Chats : d # c => owner'[d] = owner[d]
  BY <1>1 DEF RouteTypes
<1>4. /\ born' \in [Sessions -> Chat!Chats \cup {"none"}] /\ born'[s] = c
      /\ \A x \in Sessions : x # s => born'[x] = born[x]
  BY <1>1 DEF RouteTypes
<1>5. \A x \in rows \ deleted : x # s /\ x \in Sessions /\ born[x] # c
  <2> SUFFICES ASSUME NEW x \in rows \ deleted, born[x] = c PROVE FALSE
    BY <1>1 DEF Made, RouteTypes
  <2>1. owner[c] = x
    BY <1>2 DEF OwnersHold
  <2> QED
    BY <2>1 DEF Chat!HasSession
<1>6. OwnersHold'
  <2> SUFFICES ASSUME NEW x \in rows' \ deleted', born'[x] # "none"
               PROVE  owner'[born'[x]] = x
    BY DEF OwnersHold
  <2>1. CASE x = s
    BY <1>3, <1>4, <2>1
  <2>2. CASE x # s
    <3>1. x \in rows \ deleted
      BY <2>2
    <3>2. born'[x] = born[x] /\ born[x] # c /\ born[x] \in Chat!Chats
      BY <1>4, <1>5, <2>2, <3>1 DEF RouteTypes
    <3> QED
      BY <1>3, <3>1, <3>2 DEF OwnersHold
  <2> QED
    BY <2>1, <2>2
<1>7. \A x \in Made' : x \in UserSessions \/ born'[x] # "none"
  <2> SUFFICES ASSUME NEW x \in Made' PROVE x \in UserSessions \/ born'[x] # "none"
    OBVIOUS
  <2>1. CASE x = s
    BY <1>2, <1>4, <2>1
  <2>2. CASE x # s
    <3>1. x \in Made /\ x \in Sessions
      BY <2>2 DEF Made, RouteTypes
    <3> QED
      BY <1>4, <2>2, <3>1 DEF MadeOnly
  <2> QED
    BY <2>1, <2>2
<1> QED
  BY <1>1, <1>3, <1>4, <1>6, <1>7

(* A message goes to the session s, which is there or was: it is owed. *)
LEMMA OneDelivery ==
  ASSUME RouteInv, NEW m \in Msgs, NEW s \in Sessions, s \in Made, Chat!Deliver(m, s),
         due' = due \cup {<<m, s>>},
         UNCHANGED <<fan, owner, born, rows, subs, prompts, dmSession, deleted>>
  PROVE  RouteInv'
<1> USE DEF RouteInv
<1>1. /\ turn' \in [Sessions -> Msgs \cup {"idle", "resumed", "clicked"}]
      /\ steer' \in [Sessions -> SUBSET Msgs] /\ thread' \in [Sessions -> SUBSET Msgs]
      /\ \A x \in Sessions : turn'[x] # "idle" => turn[x] # "idle" \/ x = s
      /\ \A x \in Sessions : thread[x] \subseteq thread'[x] /\ steer[x] \subseteq steer'[x]
      /\ m \in thread'[s] \/ m \in steer'[s] \/ <<m, s>> \in unrouted'
      /\ unrouted \subseteq unrouted'
  BY DeliverKeeps
<1>2. due' \subseteq Msgs \X Sessions
  BY DEF RouteTypes
<1>3. RouteTypes'
  BY <1>1, <1>2 DEF RouteTypes
<1>4. \A n \in Msgs, x \in Sessions : <<n, x>> \in due' =>
        <<n, x>> \in due \/ (n = m /\ x = s)
  OBVIOUS
<1>5. Made' = Made
  BY DEF Made
<1>6. MadeOnly'
  BY <1>1, <1>4, <1>5 DEF MadeOnly
<1>7. OwnersHold'
  BY DEF OwnersHold
<1>8. Owed'
  BY <1>1, <1>4 DEF Owed
<1> QED
  BY <1>3, <1>6, <1>7, <1>8

LEMMA ToOwnerKeeps ==
  ASSUME RouteInv, NEW m \in Msgs, NEW c \in Chat!Chats, Chat!ToOwner(m, c),
         UNCHANGED <<subs, prompts, dmSession, deleted>>
  PROVE  RouteInv' /\ UNCHANGED fan
<1>1. CASE /\ Chat!HasSession(c) /\ Chat!Deliver(m, owner[c])
           /\ due' = due \cup {<<m, owner[c]>>} /\ UNCHANGED <<fan, owner, born, rows>>
  <2>1. owner[c] \in Sessions /\ owner[c] \in Made
    BY <1>1 DEF Chat!HasSession, Made, RouteInv, RouteTypes
  <2> QED
    BY <1>1, <2>1, OneDelivery
<1>2. ASSUME NEW s \in Sessions, ~Chat!HasSession(c), Chat!Fresh(s),
             owner' = [owner EXCEPT ![c] = s], born' = [born EXCEPT ![s] = c],
             rows' = rows \cup {s}, turn' = [turn EXCEPT ![s] = m],
             thread' = [thread EXCEPT ![s] = {m}], due' = due \cup {<<m, s>>},
             UNCHANGED <<fan, steer, unrouted>>
      PROVE  RouteInv'
  <2> USE DEF RouteInv
  <2>1. /\ s \notin Made
        /\ owner' \in [Chat!Chats -> Sessions \cup {"none"}]
        /\ born' \in [Sessions -> Chat!Chats \cup {"none"}]
        /\ OwnersHold' /\ \A x \in Made' : x \in UserSessions \/ born'[x] # "none"
    BY <1>2, SpawnKeeps
  <2>2. /\ turn' \in [Sessions -> Msgs \cup {"idle", "resumed", "clicked"}]
        /\ \A x \in Sessions : x # s => turn'[x] = turn[x]
    BY <1>2 DEF RouteTypes
  <2>3. /\ thread' \in [Sessions -> SUBSET Msgs] /\ m \in thread'[s]
        /\ \A x \in Sessions : x # s => thread'[x] = thread[x]
    BY <1>2 DEF RouteTypes
  <2>4. \A n \in Msgs, x \in Sessions : <<n, x>> \in due' =>
          (<<n, x>> \in due /\ x # s) \/ (n = m /\ x = s)
    BY <1>2, <2>1 DEF MadeOnly
  <2>5. Made' = Made \cup {s}
    BY <1>2 DEF Made
  <2>6. RouteTypes'
    BY <1>2, <2>1, <2>2, <2>3 DEF RouteTypes
  <2>7. MadeOnly'
    BY <1>2, <2>1, <2>2, <2>4, <2>5 DEF MadeOnly
  <2>8. Owed'
    BY <1>2, <2>3, <2>4 DEF Owed
  <2> QED
    BY <2>1, <2>6, <2>7, <2>8
<1>3. CASE /\ unrouted' = unrouted \cup {<<m, Chat!None>>}
           /\ UNCHANGED <<fan, owner, born, rows, turn, steer, thread, due>>
  <2> USE DEF RouteInv
  <2>1. RouteTypes' /\ OwnersHold' /\ Owed'
    BY <1>3 DEF RouteTypes, OwnersHold, Owed
  <2>2. Made' = Made
    BY <1>3 DEF Made
  <2>3. MadeOnly'
    BY <1>3, <2>2 DEF MadeOnly
  <2> QED
    BY <2>1, <2>3, <1>3
<1> QED
  BY <1>1, <1>2, <1>3 DEF Chat!ToOwner

(* A message that has not been dispatched is, and those of others that are *)
(* on their way stay so.                                                   *)
LEMMA DispatchKeeps ==
  ASSUME RouteInv, subs \in Seq(Sessions), NEW m \in Msgs, NEW how, NEW from \in Senders,
         fan[m] = <<>>, Chat!Dispatch(m, how, from),
         UNCHANGED <<subs, prompts, dmSession, deleted>>
  PROVE  RouteInv' /\ \A n \in Msgs : n # m => fan'[n] = fan[n]
<1> USE DEF RouteInv
<1>1. CASE subs # <<>> /\ Chat!FanOut(m)
  <2> DEFINE owed == due \cup ({m} \X Range(subs))
  <2>1. Chat!NextSubscriber(m, subs, owed)
    BY <1>1, ChatRange DEF Chat!FanOut
  <2>2. Range(subs) \subseteq Made /\ Made \subseteq Sessions
    BY DEF MadeOnly, Made, RouteTypes
  <2>3. owed \in SUBSET (Msgs \X Sessions)
    BY <2>2 DEF RouteTypes
  <2>4. Range(fan[m]) = {}
    BY RangeEmpty
  <2>5. \A n \in Msgs, s \in Sessions : <<n, s>> \in owed =>
          <<n, s>> \in due \/ (n = m /\ s \in Range(subs))
    OBVIOUS
  <2> HIDE DEF owed
  <2>6. \A n \in Msgs, s \in Sessions : <<n, s>> \in owed =>
           /\ s \in Made
           /\ \/ n \in thread[s] \/ n \in steer[s] \/ <<n, s>> \in unrouted
              \/ n # m /\ s \in Range(fan[n])
              \/ n = m /\ s \in Range(subs)
    BY <2>2, <2>4, <2>5 DEF Owed, MadeOnly
  <2> QED
    BY <1>1, <2>1, <2>2, <2>3, <2>6, SubscriberKeeps
<1>2. CASE UNCHANGED <<turn, steer, thread, rows, Chat!routeVars>>
  <2>1. rows \subseteq Made
    BY DEF Made
  <2> QED
    BY <1>2, <2>1, TurnsKeep DEF Chat!routeVars, RouteTypes, MadeOnly
<1>3. CASE \E c \in Chat!Chats : Chat!ToOwner(m, c)
  BY <1>3, ToOwnerKeeps
<1>4. CASE /\ unrouted' = unrouted \cup {<<m, dmSession>>}
           /\ UNCHANGED <<turn, steer, thread, rows, fan, owner, due, born>>
  <2>1. RouteTypes' /\ OwnersHold' /\ Owed'
    BY <1>4 DEF RouteTypes, OwnersHold, Owed
  <2>2. Made' = Made
    BY <1>4 DEF Made
  <2>3. MadeOnly'
    BY <1>4, <2>2 DEF MadeOnly
  <2> QED
    BY <2>1, <2>3, <1>4
<1>5. CASE /\ dmSession \in Sessions /\ Chat!Deliver(m, dmSession)
           /\ due' = due \cup {<<m, dmSession>>} /\ UNCHANGED <<rows, fan, owner, born>>
  <2>1. dmSession # "none"
    BY <1>5, PartsAssumption DEF Chat!InboundAssumption, Chat!None
  <2>2. dmSession \in Made
    BY <2>1 DEF MadeOnly
  <2> QED
    BY <1>5, <2>2, OneDelivery
<1>6. from \in Chat!Chats /\ Chat!Thread \in Chat!Chats
  BY DEF Chat!Chats
<1> QED
  BY <1>1, <1>2, <1>3, <1>4, <1>5, <1>6 DEF Chat!Dispatch

-----------------------------------------------------------------------------
(* Arrivals. *)

LEMMA FramesAre ==
  ASSUME NEW f \in Chat!Frames, f.what = "message"
  PROVE  f.m \in Msgs /\ f = Chat!Message(f.m)
<1>1. CASE f = Chat!NoFrame
  BY <1>1 DEF Chat!NoFrame
<1>2. ASSUME NEW m \in Msgs, f = Chat!Message(m) PROVE f.m \in Msgs /\ f = Chat!Message(f.m)
  BY <1>2 DEF Chat!Message
<1>3. ASSUME NEW s \in Sessions, NEW u \in Senders, f = Chat!Click(s, u) PROVE FALSE
  BY <1>3 DEF Chat!Click
<1> QED
  BY <1>1, <1>2, <1>3 DEF Chat!Frames

LEMMA MessageIs ==
  ASSUME NEW m \in Msgs, NEW n \in Msgs
  PROVE  /\ Chat!Message(m) \in Chat!Frames /\ Chat!Message(m).what = "message"
         /\ Chat!Message(m).m = m
         /\ Chat!Message(m) = Chat!Message(n) => m = n
<1>1. Chat!Message(m).m = m /\ Chat!Message(n).m = n /\ Chat!Message(m).what = "message"
  BY DEF Chat!Message
<1>2. Chat!Message(m) \in Chat!Frames
  BY DEF Chat!Frames
<1> QED
  BY <1>1, <1>2

(* The frames that are left hold what was held, but the first. *)
LEMMA FramesShrink ==
  ASSUME ArrivalTypes, Arrivals, frames # <<>>, frames' = Tail(frames)
  PROVE  /\ frames' \in Seq(Chat!Frames) /\ Head(frames) \in Chat!Frames
         /\ \A i, j \in DOMAIN frames' :
              frames'[i] = frames'[j] /\ frames'[i].what = "message" => i = j
         /\ \A m \in Msgs : Held(m)' => Held(m) /\ Head(frames) # Chat!Message(m)
         /\ \A m \in Msgs : Head(frames) = Chat!Message(m) => Held(m)
<1> DEFINE p == frames
           t == Tail(frames)
           n == Len(frames)
<1>1. /\ n \in Nat \ {0} /\ DOMAIN p = 1..n /\ DOMAIN t = 1..(n - 1) /\ Head(p) = p[1]
      /\ \A i \in 1..(n - 1) : t[i] = p[i + 1]
      /\ Head(p) \in Chat!Frames /\ t \in Seq(Chat!Frames)
  BY HeadTailProperties DEF ArrivalTypes
<1>2. frames' = t
  OBVIOUS
<1> HIDE DEF t, n, p
<1>3. /\ 1 \in 1..n /\ \A i \in 1..(n - 1) : i + 1 \in 1..n /\ i + 1 # 1
      /\ \A i, j \in 1..(n - 1) : i + 1 = j + 1 => i = j
  BY <1>1
<1>4. \A i, j \in 1..n : p[i] = p[j] /\ p[i].what = "message" => i = j
  BY <1>1 DEF Arrivals, p
<1>5. \A i, j \in 1..(n - 1) : t[i] = t[j] /\ t[i].what = "message" => i = j
  BY <1>1, <1>3, <1>4
<1>6. ASSUME NEW m \in Msgs, NEW i \in 1..(n - 1), t[i] = Chat!Message(m)
      PROVE  p[i + 1] = Chat!Message(m) /\ i + 1 \in 1..n /\ p[1] # Chat!Message(m)
  BY <1>1, <1>3, <1>4, <1>6, MessageIs
<1>7. \A m \in Msgs : Held(m)' => Held(m) /\ Head(p) # Chat!Message(m)
  BY <1>1, <1>2, <1>6 DEF Held, p
<1>8. \A m \in Msgs : Head(p) = Chat!Message(m) => Held(m)
  BY <1>1, <1>3 DEF Held, p
<1> QED
  BY <1>1, <1>2, <1>5, <1>7, <1>8 DEF p

LEMMA FramesGrow ==
  ASSUME ArrivalTypes, Arrivals, NEW f \in Chat!Frames, frames' = Append(frames, f),
         f.what = "message" => \A i \in DOMAIN frames : frames[i] # f
  PROVE  /\ frames' \in Seq(Chat!Frames)
         /\ \A i, j \in DOMAIN frames' :
              frames'[i] = frames'[j] /\ frames'[i].what = "message" => i = j
         /\ \A m \in Msgs : Held(m)' => Held(m) \/ f = Chat!Message(m)
<1> DEFINE p == frames
           q == Append(frames, f)
           n == Len(frames)
<1>1. /\ n \in Nat /\ DOMAIN p = 1..n /\ DOMAIN q = 1..(n + 1) /\ q[n + 1] = f
      /\ \A i \in 1..n : q[i] = p[i]
      /\ q \in Seq(Chat!Frames)
  BY AppendProperties DEF ArrivalTypes
<1>2. frames' = q
  OBVIOUS
<1> HIDE DEF q, n, p
<1>3. \A i \in 1..(n + 1) : i \in 1..n \/ i = n + 1
  BY <1>1
<1>4. \A i, j \in 1..n : p[i] = p[j] /\ p[i].what = "message" => i = j
  BY <1>1 DEF Arrivals, p
<1>5. f.what = "message" => \A i \in 1..n : p[i] # f
  BY <1>1 DEF p
<1>6. \A i, j \in 1..(n + 1) : q[i] = q[j] /\ q[i].what = "message" => i = j
  BY <1>1, <1>3, <1>4, <1>5
<1>7. \A m \in Msgs : Held(m)' => Held(m) \/ f = Chat!Message(m)
  BY <1>1, <1>2, <1>3 DEF Held, p
<1> QED
  BY <1>1, <1>2, <1>6, <1>7

(* The gateway takes a message that has not been dispatched. *)
LEMMA OnInboundKeeps ==
  ASSUME RouteInv, ArrivalTypes, NEW m \in Msgs, NEW how, NEW from \in Senders,
         fan[m] = <<>>, Chat!OnInbound(m, how, from)
  PROVE  /\ RouteInv' /\ UNCHANGED subs /\ prompts' \subseteq Sessions
         /\ \A n \in Msgs : n # m => fan'[n] = fan[n]
         /\ \/ UNCHANGED parked
            \/ parked' = parked \cup {m} /\ UNCHANGED fan
<1> USE DEF RouteInv, ArrivalTypes
<1>1. UNCHANGED <<subs, dmSession, deleted>>
  BY DEF Chat!OnInbound, Chat!settingVars, Chat!pastVars
<1>2. rows \subseteq Made
  BY DEF Made
<1>3. CASE /\ parked' = parked \cup {m}
           /\ UNCHANGED <<turn, steer, thread, prompts, waits, rows, Chat!routeVars>>
  BY <1>1, <1>2, <1>3, TurnsKeep DEF Chat!routeVars, RouteTypes, MadeOnly
<1>4. CASE /\ Chat!AnswerByReply(from)
           /\ UNCHANGED <<parked, turn, steer, thread, rows, Chat!routeVars>>
  <2>1. prompts' \subseteq prompts
    BY <1>4 DEF Chat!AnswerByReply
  <2> QED
    BY <1>1, <1>2, <1>4, <2>1, TurnsKeep DEF Chat!routeVars, RouteTypes, MadeOnly
<1>5. CASE Chat!Dispatch(m, how, from) /\ UNCHANGED <<parked, prompts, waits>>
  BY <1>1, <1>5, DispatchKeeps
<1> QED
  BY <1>3, <1>4, <1>5 DEF Chat!OnInbound

(* Whoever has written is a sender. *)
LEMMA SentIs ==
  ASSUME ArrivalTypes, NEW m \in Msgs, msg[m] # Chat!Unsent
  PROVE  msg[m].from \in Senders
  BY DEF ArrivalTypes

LEMMA SendByRelayKeeps ==
  ASSUME ChatInv, NEW m \in Msgs, Chat!SendByRelay(m)
  PROVE  ChatInv'
<1> USE DEF ChatInv
<1>1. /\ msg[m] = Chat!Unsent /\ frames' = Append(frames, Chat!Message(m))
      /\ UNCHANGED <<turn, prompts, rows, steer, thread, fan, owner, unrouted, due, born,
                     subs, dmSession, deleted, parked>>
  BY DEF Chat!SendByRelay, Chat!turnVars, Chat!routeVars, Chat!settingVars, Chat!pastVars
<1>2. RouteInv'
  <2>1. rows \subseteq Made
    BY DEF Made
  <2> QED
    BY <1>1, <2>1, TurnsKeep DEF RouteInv, RouteTypes, MadeOnly
<1>3. PICK k \in Chat!Kinds, u \in Senders : msg' = [msg EXCEPT ![m] = [kind |-> k, from |-> u]]
  BY PartsAssumption DEF Chat!SendByRelay, Chat!InboundAssumption
<1>4. /\ msg' \in [Msgs -> {Chat!Unsent} \cup [kind : Chat!Kinds, from : Senders]]
      /\ msg'[m] # Chat!Unsent /\ \A n \in Msgs : n # m => msg'[n] = msg[n]
  BY <1>3 DEF ArrivalTypes, Chat!Unsent, Chat!Kinds, Chat!None
<1>5. ~Held(m) /\ m \notin parked /\ fan[m] = <<>>
  BY <1>1 DEF Arrivals
<1>6. /\ frames' \in Seq(Chat!Frames)
      /\ \A i, j \in DOMAIN frames' :
           frames'[i] = frames'[j] /\ frames'[i].what = "message" => i = j
      /\ \A n \in Msgs : Held(n)' => Held(n) \/ n = m
  <2>1. \A i \in DOMAIN frames : frames[i] # Chat!Message(m)
    BY <1>5 DEF Held
  <2> QED
    BY <1>1, <2>1, MessageIs, FramesGrow
<1>7. ArrivalTypes'
  BY <1>1, <1>4, <1>6 DEF ArrivalTypes
<1>8. Arrivals'
  BY <1>1, <1>4, <1>5, <1>6 DEF Arrivals
<1> QED
  BY <1>2, <1>7, <1>8

LEMMA SendDirectlyKeeps ==
  ASSUME ChatInv, NEW m \in Msgs, Chat!SendDirectly(m)
  PROVE  ChatInv'
<1> USE DEF ChatInv
<1>1. msg[m] = Chat!Unsent /\ UNCHANGED frames
  BY DEF Chat!SendDirectly, Chat!linkVars
<1>2. PICK k \in Chat!Kinds, u \in Senders :
        /\ msg' = [msg EXCEPT ![m] = [kind |-> k, from |-> u]]
        /\ Chat!OnInbound(m, k, u)
  BY DEF Chat!SendDirectly
<1>3. /\ msg' \in [Msgs -> {Chat!Unsent} \cup [kind : Chat!Kinds, from : Senders]]
      /\ msg'[m] # Chat!Unsent /\ \A n \in Msgs : n # m => msg'[n] = msg[n]
  BY <1>2 DEF ArrivalTypes, Chat!Unsent, Chat!Kinds, Chat!None
<1>4. ~Held(m) /\ m \notin parked /\ fan[m] = <<>>
  BY <1>1 DEF Arrivals
<1>5. /\ RouteInv' /\ UNCHANGED subs /\ prompts' \subseteq Sessions
      /\ \A n \in Msgs : n # m => fan'[n] = fan[n]
      /\ \/ UNCHANGED parked
         \/ parked' = parked \cup {m} /\ UNCHANGED fan
  BY <1>2, <1>4, OnInboundKeeps
<1>6. ArrivalTypes'
  BY <1>1, <1>3, <1>5 DEF ArrivalTypes
<1>7. \A n \in Msgs : Held(n)' = Held(n)
  BY <1>1 DEF Held
<1>8. Arrivals'
  BY <1>1, <1>3, <1>4, <1>5, <1>7 DEF Arrivals
<1> QED
  BY <1>5, <1>6, <1>8

LEMMA ReadMessageKeeps ==
  ASSUME ChatInv, Chat!ReadMessage
  PROVE  ChatInv'
<1> USE DEF ChatInv
<1>1. /\ frames # <<>> /\ Head(frames).what = "message" /\ frames' = Tail(frames)
      /\ Chat!OnInbound(Head(frames).m, msg[Head(frames).m].kind, msg[Head(frames).m].from)
      /\ UNCHANGED msg
  BY DEF Chat!ReadMessage
<1>2. /\ frames' \in Seq(Chat!Frames) /\ Head(frames) \in Chat!Frames
      /\ \A i, j \in DOMAIN frames' :
           frames'[i] = frames'[j] /\ frames'[i].what = "message" => i = j
      /\ \A n \in Msgs : Held(n)' => Held(n) /\ Head(frames) # Chat!Message(n)
      /\ \A n \in Msgs : Head(frames) = Chat!Message(n) => Held(n)
  BY <1>1, FramesShrink
<1>3. PICK m \in Msgs : m = Head(frames).m /\ Head(frames) = Chat!Message(m)
  BY <1>1, <1>2, FramesAre
<1>4. Held(m) /\ fan[m] = <<>> /\ msg[m] # Chat!Unsent /\ m \notin parked /\ ~Held(m)'
  BY <1>2, <1>3 DEF Arrivals
<1>5. /\ RouteInv' /\ UNCHANGED subs /\ prompts' \subseteq Sessions
      /\ \A n \in Msgs : n # m => fan'[n] = fan[n]
      /\ \/ UNCHANGED parked
         \/ parked' = parked \cup {m} /\ UNCHANGED fan
  <2>1. Chat!OnInbound(m, msg[m].kind, msg[m].from)
    BY <1>1, <1>3
  <2>2. msg[m].from \in Senders
    BY <1>4, SentIs
  <2> QED
    BY <1>4, <2>1, <2>2, OnInboundKeeps
<1>6. ArrivalTypes'
  BY <1>1, <1>2, <1>3, <1>5 DEF ArrivalTypes
<1>7. Arrivals'
  <2> SUFFICES ASSUME NEW n \in Msgs
               PROVE  /\ msg'[n] = Chat!Unsent => ~Held(n)' /\ n \notin parked'
                      /\ n \in parked' => ~Held(n)'
                      /\ msg'[n] = Chat!Unsent \/ Held(n)' \/ n \in parked' => fan'[n] = <<>>
    BY <1>2 DEF Arrivals
  <2>1. CASE n = m
    BY <1>1, <1>4, <1>5, <2>1
  <2>2. CASE n # m
    BY <1>1, <1>2, <1>5, <2>2 DEF Arrivals
  <2> QED
    BY <2>1, <2>2
<1> QED
  BY <1>5, <1>6, <1>7

(* The user decides on a message that was kept: it is dispatched now. *)
LEMMA DecideKeeps ==
  ASSUME ChatInv, NEW m \in Msgs, Chat!Decide(m)
  PROVE  ChatInv'
<1> USE DEF ChatInv
<1>1. /\ m \in parked /\ parked' = parked \ {m}
      /\ UNCHANGED <<msg, prompts, subs, dmSession, frames, deleted>>
  BY DEF Chat!Decide, Chat!linkVars
<1>2. ~Held(m) /\ fan[m] = <<>> /\ msg[m] # Chat!Unsent
  BY <1>1 DEF Arrivals
<1>3. RouteInv' /\ \A n \in Msgs : n # m => fan'[n] = fan[n]
  <2>1. CASE UNCHANGED <<turn, steer, thread, rows, Chat!routeVars>>
    <3>1. rows \subseteq Made
      BY DEF Made
    <3> QED
      BY <1>1, <2>1, <3>1, TurnsKeep DEF Chat!routeVars, RouteInv, RouteTypes, MadeOnly
  <2>2. CASE Chat!Dispatch(m, IF msg[m].kind = "dm" THEN "dm" ELSE "plain", msg[m].from)
    <3>1. msg[m].from \in Senders
      BY <1>2, SentIs
    <3>2. subs \in Seq(Sessions)
      BY DEF ArrivalTypes
    <3> QED
      BY <1>1, <1>2, <2>2, <3>1, <3>2, DispatchKeeps
  <2> QED
    BY <2>1, <2>2 DEF Chat!Decide
<1>4. ArrivalTypes'
  BY <1>1 DEF ArrivalTypes
<1>5. \A n \in Msgs : Held(n)' = Held(n)
  BY <1>1 DEF Held
<1>6. Arrivals'
  BY <1>1, <1>2, <1>3, <1>5 DEF Arrivals
<1> QED
  BY <1>3, <1>4, <1>6

LEMMA FanOnKeeps ==
  ASSUME ChatInv, NEW m \in Msgs, Chat!FanOn(m)
  PROVE  ChatInv'
<1> USE DEF ChatInv
<1>1. /\ fan[m] # <<>> /\ Chat!NextSubscriber(m, fan[m], due)
      /\ UNCHANGED <<msg, parked, prompts, subs, dmSession, frames, deleted>>
  BY DEF Chat!FanOn, Chat!settingVars, Chat!linkVars, Chat!pastVars
<1>2. fan[m] \in Seq(Sessions) /\ Range(fan[m]) \subseteq Made /\ due \in SUBSET (Msgs \X Sessions)
  BY DEF RouteInv, RouteTypes, MadeOnly
<1>3. \A n \in Msgs, s \in Sessions : <<n, s>> \in due =>
           /\ s \in Made
           /\ \/ n \in thread[s] \/ n \in steer[s] \/ <<n, s>> \in unrouted
              \/ n # m /\ s \in Range(fan[n])
              \/ n = m /\ s \in Range(fan[m])
  BY DEF RouteInv, MadeOnly, Owed
<1>4. RouteInv' /\ \A n \in Msgs : n # m => fan'[n] = fan[n]
  BY <1>1, <1>2, <1>3, SubscriberKeeps
<1>5. ArrivalTypes'
  BY <1>1 DEF ArrivalTypes
<1>6. \A n \in Msgs : Held(n)' = Held(n)
  BY <1>1 DEF Held
<1>7. Arrivals'
  BY <1>1, <1>4, <1>6 DEF Arrivals
<1> QED
  BY <1>4, <1>5, <1>7

-----------------------------------------------------------------------------
(* Turns and the user. *)

(* What leaves messages, frames and the fan-out alone, or only cuts them   *)
(* off.                                                                    *)
LEMMA ArrivalsKeep ==
  ASSUME ChatInv, UNCHANGED <<msg, parked, frames>>,
         subs' \in Seq(Sessions), prompts' \subseteq Sessions,
         \A m \in Msgs : fan'[m] = fan[m] \/ fan'[m] = <<>>
  PROVE  ArrivalTypes' /\ Arrivals'
<1>1. \A n \in Msgs : Held(n)' = Held(n)
  BY DEF Held
<1>2. Arrivals'
  BY <1>1 DEF ChatInv, Arrivals
<1> QED
  BY <1>2 DEF ChatInv, ArrivalTypes

LEMMA AnswersKeep ==
  ASSUME ChatInv, NEW s \in Sessions, Chat!AnswerInApp(s) \/ Chat!Ask(s) \/ Chat!EndTurn(s)
  PROVE  ChatInv'
<1> USE DEF ChatInv
<1>1. /\ turn' \in [Sessions -> Msgs \cup {"idle", "resumed", "clicked"}]
      /\ \A x \in Sessions : turn'[x] # "idle" => turn[x] # "idle" \/ x = s
  <2>1. turn' \in {turn, [turn EXCEPT ![s] = "resumed"], [turn EXCEPT ![s] = "idle"]}
    BY DEF Chat!AnswerInApp, Chat!Ask, Chat!EndTurn, Chat!Idle
  <2> QED
    BY <2>1 DEF RouteInv, RouteTypes
<1>2. s \in Made
  BY DEF Chat!AnswerInApp, Chat!Ask, Chat!EndTurn, Chat!Idle, RouteInv, MadeOnly
<1>3. /\ rows' \in {rows, rows \cup {s}} /\ prompts' \subseteq prompts \cup {s}
      /\ UNCHANGED <<msg, parked, frames, steer, thread, fan, owner, born, due, unrouted,
                     deleted, subs, dmSession>>
  BY DEF Chat!AnswerInApp, Chat!Ask, Chat!EndTurn, Chat!routeVars, Chat!settingVars,
         Chat!linkVars, Chat!pastVars
<1>4. rows \subseteq rows' /\ rows' \subseteq Made /\ prompts' \subseteq Made
  BY <1>2, <1>3 DEF Made, RouteInv, MadeOnly
<1>5. RouteInv'
  BY <1>1, <1>2, <1>3, <1>4, TurnsKeep DEF RouteInv, MadeOnly
<1>6. ArrivalTypes' /\ Arrivals'
  BY <1>3, ArrivalsKeep DEF ArrivalTypes
<1> QED
  BY <1>5, <1>6

LEMMA ReadClickKeeps ==
  ASSUME ChatInv, Chat!ReadClick
  PROVE  ChatInv'
<1> USE DEF ChatInv
<1> DEFINE s == Head(frames).s
<1>1. /\ frames # <<>> /\ frames' = Tail(frames) /\ prompts' \subseteq prompts
      /\ turn' = turn \/ (turn' = [turn EXCEPT ![s] = "clicked"] /\ s \in prompts)
      /\ UNCHANGED <<msg, parked, rows, steer, thread, fan, owner, born, due, unrouted,
                     deleted, subs, dmSession>>
  BY DEF Chat!ReadClick, Chat!routeVars, Chat!settingVars, Chat!pastVars
<1>2. /\ turn' \in [Sessions -> Msgs \cup {"idle", "resumed", "clicked"}]
      /\ \A x \in Sessions : turn'[x] # "idle" => turn[x] # "idle" \/ x \in prompts
  BY <1>1 DEF RouteInv, RouteTypes
<1>3. rows \subseteq Made /\ prompts \subseteq Made
  BY DEF Made, RouteInv, MadeOnly
<1>4. RouteInv'
  BY <1>1, <1>2, <1>3, TurnsKeep DEF RouteInv, MadeOnly
<1>5. /\ frames' \in Seq(Chat!Frames)
      /\ \A i, j \in DOMAIN frames' :
           frames'[i] = frames'[j] /\ frames'[i].what = "message" => i = j
      /\ \A n \in Msgs : Held(n)' => Held(n)
  BY <1>1, FramesShrink
<1>6. ArrivalTypes'
  BY <1>1, <1>5 DEF ArrivalTypes
<1>7. Arrivals'
  BY <1>1, <1>5 DEF Arrivals
<1> QED
  BY <1>4, <1>6, <1>7

LEMMA ClickButtonKeeps ==
  ASSUME ChatInv, NEW s \in Sessions, NEW u \in Relayed, Chat!ClickButton(s, u)
  PROVE  ChatInv'
<1> USE DEF ChatInv
<1>1. /\ frames' = Append(frames, Chat!Click(s, u))
      /\ UNCHANGED <<msg, parked, turn, prompts, rows, steer, thread, fan, owner, born, due,
                     unrouted, deleted, subs, dmSession>>
  BY DEF Chat!ClickButton, Chat!turnVars, Chat!routeVars, Chat!settingVars
<1>2. RouteInv'
  <2>1. rows \subseteq Made
    BY DEF Made
  <2> QED
    BY <1>1, <2>1, TurnsKeep DEF RouteInv, RouteTypes, MadeOnly
<1>3. /\ Chat!Click(s, u) \in Chat!Frames /\ Chat!Click(s, u).what = "click"
      /\ \A m \in Msgs : Chat!Click(s, u) # Chat!Message(m)
  <2>1. Chat!Click(s, u).what = "click" /\ u \in Senders
    BY PartsAssumption DEF Chat!Click, Chat!InboundAssumption
  <2>2. Chat!Click(s, u) \in Chat!Frames
    BY <2>1 DEF Chat!Frames
  <2> QED
    BY <2>1, <2>2, MessageIs
<1>4. /\ frames' \in Seq(Chat!Frames)
      /\ \A i, j \in DOMAIN frames' :
           frames'[i] = frames'[j] /\ frames'[i].what = "message" => i = j
      /\ \A n \in Msgs : Held(n)' => Held(n)
  BY <1>1, <1>3, FramesGrow
<1>5. ArrivalTypes'
  BY <1>1, <1>4 DEF ArrivalTypes
<1>6. Arrivals'
  BY <1>1, <1>4 DEF Arrivals
<1> QED
  BY <1>2, <1>5, <1>6

LEMMA ReadSteeringKeeps ==
  ASSUME ChatInv, NEW s \in Sessions, Chat!ReadSteering(s)
  PROVE  ChatInv'
<1> USE DEF ChatInv, RouteInv
<1>1. /\ thread' = [thread EXCEPT ![s] = thread[s] \cup steer[s]]
      /\ steer' = [steer EXCEPT ![s] = {}]
      /\ UNCHANGED <<msg, parked, turn, prompts, rows, fan, owner, born, due, unrouted,
                     deleted, subs, dmSession, frames>>
  BY DEF Chat!ReadSteering, Chat!routeVars, Chat!settingVars, Chat!linkVars, Chat!pastVars
<1>2. /\ thread' \in [Sessions -> SUBSET Msgs] /\ steer' \in [Sessions -> SUBSET Msgs]
      /\ \A x \in Sessions : thread[x] \cup steer[x] \subseteq thread'[x] \cup steer'[x]
  BY <1>1 DEF RouteTypes
<1>3. RouteTypes' /\ OwnersHold'
  BY <1>1, <1>2 DEF RouteTypes, OwnersHold
<1>4. Made' = Made
  BY <1>1 DEF Made
<1>5. MadeOnly'
  BY <1>1, <1>4 DEF MadeOnly
<1>6. Owed'
  BY <1>1, <1>2 DEF Owed
<1>7. ArrivalTypes' /\ Arrivals'
  BY <1>1, ArrivalsKeep DEF ArrivalTypes
<1> QED
  BY <1>3, <1>5, <1>6, <1>7

LEMMA SubscriptionsKeep ==
  ASSUME ChatInv,
         \/ Chat!Configure
         \/ \E s \in Sessions : Chat!Subscribe(s) \/ Chat!Unsubscribe(s)
  PROVE  ChatInv'
<1> USE DEF ChatInv
<1>1. /\ UNCHANGED <<msg, parked, turn, prompts, rows, steer, thread, fan, owner, born, due,
                     unrouted, deleted, frames>>
      /\ dmSession' \in {dmSession} \cup rows
  BY DEF Chat!Configure, Chat!Subscribe, Chat!Unsubscribe, Chat!turnVars, Chat!routeVars,
         Chat!linkVars
<1>2. subs \in Seq(Sessions) /\ Range(subs) \subseteq Made /\ rows \subseteq Made
  BY DEF ArrivalTypes, RouteInv, MadeOnly, Made
<1>3. subs' \in Seq(Sessions) /\ Range(subs') \subseteq Made
  <2>1. ASSUME NEW s \in Sessions, Chat!Subscribe(s)
        PROVE  subs' \in Seq(Sessions) /\ Range(subs') \subseteq Made
    <3>1. subs' = Append(subs, s) /\ s \in Made
      BY <2>1 DEF Chat!Subscribe, Chat!Idle, RouteInv, MadeOnly
    <3> QED
      BY <1>2, <3>1, RangeAppend
  <2>2. ASSUME NEW s \in Sessions, Chat!Unsubscribe(s)
        PROVE  subs' \in Seq(Sessions) /\ Range(subs') \subseteq Made
    BY <1>2, <2>2, ChatKept DEF Chat!Unsubscribe
  <2>3. CASE Chat!Configure
    BY <1>2, <2>3 DEF Chat!Configure
  <2> QED
    BY <2>1, <2>2, <2>3
<1>4. RouteInv'
  BY <1>1, <1>2, <1>3, TurnsKeep DEF RouteInv, RouteTypes, MadeOnly
<1>5. ArrivalTypes' /\ Arrivals'
  BY <1>1, <1>3, ArrivalsKeep DEF ArrivalTypes
<1> QED
  BY <1>4, <1>5

(* The user deletes a session: what it was owed is no longer. *)
LEMMA DeleteKeeps ==
  ASSUME ChatInv, NEW s \in Sessions, Chat!Delete(s)
  PROVE  ChatInv'
<1> USE DEF ChatInv, RouteInv
<1>1. /\ s \in rows /\ rows' = rows \ {s} /\ deleted' = deleted \cup {s}
      /\ subs' = Chat!Kept(subs, Sessions \ {s}) /\ prompts' = prompts \ {s}
      /\ owner' = [c \in Chat!Chats |-> IF owner[c] = s THEN "none" ELSE owner[c]]
      /\ steer' = [steer EXCEPT ![s] = {}] /\ thread' = [thread EXCEPT ![s] = {}]
      /\ due' = {d \in due : d[2] # s}
      /\ UNCHANGED <<msg, parked, turn, fan, born, unrouted, dmSession, frames>>
  BY DEF Chat!Delete, Chat!Owned, Chat!None, Chat!linkVars
<1>2. /\ steer' \in [Sessions -> SUBSET Msgs] /\ thread' \in [Sessions -> SUBSET Msgs]
      /\ \A x \in Sessions : x # s => steer'[x] = steer[x] /\ thread'[x] = thread[x]
  BY <1>1 DEF RouteTypes
<1>3. subs' \in Seq(Sessions) /\ Range(subs') \subseteq Range(subs)
  BY <1>1, ChatKept DEF ArrivalTypes
<1>4. \A n \in Msgs, x \in Sessions : <<n, x>> \in due' => <<n, x>> \in due /\ x # s
  BY <1>1
<1>5. Made' = Made
  BY <1>1 DEF Made
<1>6. RouteTypes'
  <2>1. due' \subseteq Msgs \X Sessions /\ rows' \subseteq Sessions /\ deleted' \subseteq Sessions
    BY <1>1 DEF RouteTypes
  <2>2. owner' \in [Chat!Chats -> Sessions \cup {"none"}]
    BY <1>1 DEF RouteTypes
  <2> QED
    BY <1>1, <1>2, <2>1, <2>2 DEF RouteTypes
<1>7. MadeOnly'
  BY <1>1, <1>3, <1>4, <1>5 DEF MadeOnly
<1>8. OwnersHold'
  <2> SUFFICES ASSUME NEW x \in rows' \ deleted', born'[x] # "none"
               PROVE  owner'[born'[x]] = x
    BY DEF OwnersHold
  <2>1. x \in rows \ deleted /\ x # s /\ born'[x] = born[x] /\ born[x] \in Chat!Chats
    BY <1>1 DEF RouteTypes
  <2>2. owner[born[x]] = x
    BY <1>1, <2>1 DEF OwnersHold
  <2> QED
    BY <1>1, <2>1, <2>2
<1>9. Owed'
  BY <1>1, <1>2, <1>4 DEF Owed
<1>10. ArrivalTypes' /\ Arrivals'
  BY <1>1, <1>3, ArrivalsKeep DEF ArrivalTypes
<1> QED
  BY <1>6, <1>7, <1>8, <1>9, <1>10

(* Turns are cut off and fan-outs broken off: what was still to be given   *)
(* out is no longer owed.                                                  *)
LEMMA RefreshKeeps ==
  ASSUME ChatInv, Chat!Refresh
  PROVE  ChatInv'
<1> USE DEF ChatInv, RouteInv
<1>1. /\ turn' = [s \in Sessions |-> IF Chat!InHub(s) THEN "idle" ELSE turn[s]]
      /\ fan' = [m \in Msgs |-> IF reading = Chat!Message(m) THEN <<>> ELSE fan[m]]
      /\ due' = {d \in due : ~(reading = Chat!Message(d[1]) /\ d[2] \in Range(fan[d[1]]))}
      /\ UNCHANGED <<msg, parked, rows, owner, born, steer, thread, prompts, unrouted,
                     subs, dmSession, frames, deleted>>
  BY ChatRange DEF Chat!Refresh, Chat!Idle, Chat!settingVars
<1>2. /\ turn' \in [Sessions -> Msgs \cup {"idle", "resumed", "clicked"}]
      /\ \A s \in Sessions : turn'[s] # "idle" => turn[s] # "idle"
  BY <1>1 DEF RouteTypes
<1>3. \A n \in Msgs : fan'[n] = <<>> \/ (fan'[n] = fan[n] /\ reading # Chat!Message(n))
                        \/ reading = Chat!Message(n)
  BY <1>1
<1>4. fan' \in [Msgs -> Seq(Sessions)] /\ \A n \in Msgs : Range(fan'[n]) \subseteq Range(fan[n])
  <2>1. <<>> \in Seq(Sessions)
    OBVIOUS
  <2> QED
    BY <1>1, <2>1, RangeEmpty DEF RouteTypes
<1>5. \A n \in Msgs, x \in Sessions : <<n, x>> \in due' =>
        <<n, x>> \in due /\ (x \in Range(fan[n]) => fan'[n] = fan[n])
  BY <1>1
<1>6. Made' = Made
  BY <1>1 DEF Made
<1>7. due' \subseteq Msgs \X Sessions
  BY <1>1 DEF RouteTypes
<1>8. RouteTypes' /\ OwnersHold'
  BY <1>1, <1>2, <1>4, <1>7 DEF RouteTypes, OwnersHold
<1>9. MadeOnly'
  BY <1>1, <1>2, <1>4, <1>5, <1>6 DEF MadeOnly
<1>10. Owed'
  BY <1>1, <1>5 DEF Owed
<1>11. ArrivalTypes' /\ Arrivals'
  <2>1. \A n \in Msgs : fan'[n] = fan[n] \/ fan'[n] = <<>>
    BY <1>1
  <2> QED
    BY <1>1, <2>1, ArrivalsKeep DEF ArrivalTypes
<1> QED
  BY <1>8, <1>9, <1>10, <1>11

(* After a crash only what is in a transcript is still owed. *)
LEMMA CrashKeeps ==
  ASSUME ChatInv, Chat!Crash
  PROVE  ChatInv'
<1> USE DEF ChatInv, RouteInv
<1>1. /\ turn' = [s \in Sessions |-> "idle"] /\ steer' = [s \in Sessions |-> {}]
      /\ fan' = [m \in Msgs |-> <<>>]
      /\ due' = {d \in due : turn[d[2]] = "idle" /\ d[1] \in thread[d[2]]}
      /\ UNCHANGED <<msg, parked, thread, prompts, rows, unrouted, subs, dmSession, frames,
                     deleted>>
  BY DEF Chat!Crash, Chat!Idle, Chat!settingVars
<1>2. /\ owner' \in [Chat!Chats -> Sessions \cup {"none"}]
      /\ born' \in [Sessions -> Chat!Chats \cup {"none"}]
      /\ OwnersHold' /\ \A x \in Made' : x \in UserSessions \/ born'[x] # "none"
  <2>1. CASE UNCHANGED <<owner, born>>
    BY <1>1, <2>1 DEF RouteTypes, OwnersHold, MadeOnly, Made
  <2>2. ASSUME NEW c \in Chat!Chats, NEW s \in Sessions, ~Chat!HasSession(c), Chat!Fresh(s),
               owner' = [owner EXCEPT ![c] = s], born' = [born EXCEPT ![s] = c]
        PROVE  /\ owner' \in [Chat!Chats -> Sessions \cup {"none"}]
               /\ born' \in [Sessions -> Chat!Chats \cup {"none"}]
               /\ OwnersHold' /\ \A x \in Made' : x \in UserSessions \/ born'[x] # "none"
    BY <1>1, <2>2, SpawnKeeps
  <2> QED
    BY <2>1, <2>2 DEF Chat!Crash
<1>3. <<>> \in Seq(Sessions) /\ Range(<<>>) = {}
  BY RangeEmpty
<1>4. \A n \in Msgs, x \in Sessions : <<n, x>> \in due' =>
        <<n, x>> \in due /\ n \in thread[x]
  BY <1>1
<1>5. due' \subseteq Msgs \X Sessions
  BY <1>1 DEF RouteTypes
<1>6. RouteTypes'
  BY <1>1, <1>2, <1>3, <1>5 DEF RouteTypes
<1>7. Made' = Made
  BY <1>1 DEF Made
<1>8. MadeOnly'
  BY <1>1, <1>2, <1>3, <1>4, <1>7 DEF MadeOnly
<1>9. Owed'
  BY <1>1, <1>4 DEF Owed
<1>10. ArrivalTypes' /\ Arrivals'
  BY <1>1, ArrivalsKeep DEF ArrivalTypes
<1> QED
  BY <1>2, <1>6, <1>8, <1>9, <1>10

-----------------------------------------------------------------------------
(* The theorem. *)

LEMMA ChatSetToSeq ==
  ASSUME NEW S, IsFiniteSet(S)
  PROVE  Chat!SetToSeq(S) \in Seq(S) /\ Range(Chat!SetToSeq(S)) \subseteq S
<1> DEFINE n == Cardinality(S)
<1>1. n \in Nat /\ ExistsBijection(1..n, S)
  BY FS_CardinalityType
<1>2. PICK f \in [1..n -> S] : IsInjective(f)
  BY <1>1 DEF ExistsBijection, Bijection, Injection, IsInjective
<1>3. Chat!SetToSeq(S) \in [1..n -> S]
  BY <1>2 DEF Chat!SetToSeq, Chat!IsInjective, IsInjective, Chat!Cardinality, Cardinality
<1> HIDE DEF n
<1>4. Chat!SetToSeq(S) \in Seq(S)
  BY <1>1, <1>3
<1> QED
  BY <1>3, <1>4 DEF Range

LEMMA ChatInit ==
  ASSUME Chat!Init
  PROVE  ChatInv
<1> USE DEF Chat!Init, Chat!None, Chat!Idle, Chat!NoFrame
<1>1. /\ UserSessions \subseteq Sessions /\ IsFiniteSet(UserSessions)
  BY PartsAssumption DEF Chat!InboundAssumption, Chat!IsFiniteSet, IsFiniteSet
<1>2. <<>> \in Seq(Sessions) /\ <<>> \in Seq(Chat!Frames) /\ Range(<<>>) = {}
  BY RangeEmpty
<1>3. subs \in Seq(Sessions) /\ Range(subs) \subseteq UserSessions
  <2>1. /\ Chat!SetToSeq(UserSessions) \in Seq(UserSessions)
        /\ Range(Chat!SetToSeq(UserSessions)) \subseteq UserSessions
    BY <1>1, ChatSetToSeq
  <2>2. Chat!SetToSeq(UserSessions) \in Seq(Sessions)
    BY <1>1, <2>1
  <2>3. subs = <<>> \/ subs = Chat!SetToSeq(UserSessions)
    OBVIOUS
  <2> QED
    BY <1>2, <2>1, <2>2, <2>3
<1>4. RouteTypes
  BY <1>1, <1>2 DEF RouteTypes
<1>5. MadeOnly
  BY <1>2, <1>3 DEF MadeOnly, Made
<1>6. OwnersHold
  BY <1>1 DEF OwnersHold
<1>7. Owed
  BY DEF Owed
<1>8. ArrivalTypes
  BY <1>2, <1>3 DEF ArrivalTypes
<1>9. Arrivals
  BY DEF Arrivals, Held
<1> QED
  BY <1>4, <1>5, <1>6, <1>7, <1>8, <1>9 DEF ChatInv, RouteInv

LEMMA ChatNext ==
  ASSUME ChatInv, [Chat!Next]_chatVars
  PROVE  ChatInv'
<1>1. CASE UNCHANGED chatVars
  <2>1. rows \subseteq Made
    BY DEF Made
  <2>2. RouteInv'
    BY <1>1, <2>1, TurnsKeep DEF chatVars, ChatInv, RouteInv, RouteTypes, MadeOnly
  <2>3. ArrivalTypes' /\ Arrivals'
    BY <1>1, ArrivalsKeep DEF chatVars, ChatInv, ArrivalTypes
  <2> QED
    BY <2>2, <2>3 DEF ChatInv
<1>2. ASSUME NEW m \in Msgs,
             \/ Chat!SendByRelay(m) \/ Chat!SendDirectly(m) \/ Chat!FanOn(m) \/ Chat!Decide(m)
      PROVE  ChatInv'
  BY <1>2, SendByRelayKeeps, SendDirectlyKeeps, FanOnKeeps, DecideKeeps
<1>3. ASSUME NEW s \in Sessions,
             \/ Chat!AnswerInApp(s) \/ Chat!ReadSteering(s) \/ Chat!Ask(s) \/ Chat!EndTurn(s)
             \/ Chat!Subscribe(s) \/ Chat!Unsubscribe(s) \/ Chat!Delete(s)
             \/ \E u \in Relayed : Chat!ClickButton(s, u)
      PROVE  ChatInv'
  BY <1>3, AnswersKeep, ReadSteeringKeeps, SubscriptionsKeep, DeleteKeeps, ClickButtonKeeps
<1> QED
  BY <1>1, <1>2, <1>3, ReadMessageKeeps, ReadClickKeeps, SubscriptionsKeep, RefreshKeeps,
     CrashKeeps DEF Chat!Next

(* _dispatch_inbound and deliver_to_session, of any number of messages,    *)
(* people and sessions, through mutes, deletions, reloads and crashes: a   *)
(* message owed to a session is in its transcript, in its queue, still to  *)
(* come or a dead letter, and a chat has one session.                      *)
THEOREM ChatsAreHeld == Spec => []ChatsHold
<1>1. Init => ChatInv
  BY ChatInit DEF Init
<1>2. ChatInv /\ [Next]_<<part, chatVars, bridgeVars, shellVars, storeVars, clientVars,
                          kitVars>>
        => ChatInv'
  <2>1. [Next]_<<part, chatVars, bridgeVars, shellVars, storeVars, clientVars, kitVars>>
          => [Chat!Next]_chatVars
    BY DEF Next, ChatStep, BridgeStep, ShellStep, AccountStep, McpStep, KitStep
  <2> QED
    BY <2>1, ChatNext
<1>3. ChatInv => ChatsHold
  <2> SUFFICES ASSUME ChatInv PROVE Chat!NothingIsDropped /\ Chat!OneSessionPerChat
    BY DEF ChatsHold
  <2>1. Chat!NothingIsDropped
    <3> SUFFICES ASSUME NEW d \in due
                 PROVE  \/ d[1] \in thread[d[2]] \cup steer[d[2]]
                        \/ d[2] \in Range(fan[d[1]]) \/ d \in unrouted
      BY ChatRange DEF Chat!NothingIsDropped
    <3>1. PICK m \in Msgs, s \in Sessions : d = <<m, s>>
      BY DEF ChatInv, RouteInv, RouteTypes
    <3> QED
      BY <3>1 DEF ChatInv, RouteInv, Owed
  <2>2. Chat!OneSessionPerChat
    BY DEF ChatInv, RouteInv, OwnersHold, Chat!OneSessionPerChat, Chat!None
  <2> QED
    BY <2>1, <2>2
<1> QED
  BY <1>1, <1>2, <1>3, PTL DEF Spec

-----------------------------------------------------------------------------
(* Connector tools: every tool's steps and registry entry, then its calls.  *)

(* The tools one of whose requests changes something at the service.       *)
KitChanging ==
  {"browser_click", "email_send", "github_create_issue", "github_reply", "github_review",
   "gmail_send_email", "gcal_create_event", "gcal_update_event", "gcal_delete_event",
   "outlook_send_mail", "outlook_create_event", "outlook_update_event",
   "outlook_delete_event", "outlook_respond_event", "jira_create_issue",
   "confluence_create_page", "zendesk_create_ticket", "linear_create_issue",
   "gitlab_create_issue", "discord_send_message", "asana_create_task",
   "hubspot_create_contact", "hubspot_update_object", "hubspot_log_note",
   "hubspot_create_task", "whatsapp_send_message", "whatsapp_send_template",
   "notion_create_page", "attio_create_note", "clickup_create_task",
   "clickup_update_task", "clickup_add_comment", "close_create_lead",
   "close_update_opportunity", "close_log_note", "figma_post_comment",
   "docusign_send_from_template"}

(* The shapes of a tool's steps; only the third one changes a service. *)
KitShapes ==
  {<<"read">>, <<"read", "glance">>, <<"read", "read">>, <<"read", "read", "read">>,
   <<"read", "read", "glance">>, <<"discover", "read">>, <<"page">>, <<"job">>,
   <<"disk">>, <<"disk", "glance">>, <<"read", "disk", "glance">>,
   <<"read", "read", "read", "disk">>, <<"read", "filters">>}
KitChanges == {<<"change">>, <<"discover", "change">>, <<"read", "read", "change">>}

KitFits(t, uses) ==
  uses.steps \in KitShapes \/ (uses.steps \in KitChanges /\ t \in KitChanging)

LEMMA KitTools1 ==
  \A p \in {Kit!BrowserReading, Kit!BrowserViewing, Kit!BrowserActing,
            Kit!BrowserWaiting, Kit!EmailReading, Kit!EmailDownload, Kit!EmailSend} :
    \A t \in DOMAIN p : KitFits(t, p[t])
<1>1. \A t \in DOMAIN Kit!BrowserReading : KitFits(t, Kit!BrowserReading[t])
  BY DEF Kit!BrowserReading, Kit!Uses, Kit!Checked, Kit!NoProfile, Kit!Read,
         KitFits, KitShapes, KitChanges, KitChanging
<1>2. \A t \in DOMAIN Kit!BrowserViewing : KitFits(t, Kit!BrowserViewing[t])
  BY DEF Kit!BrowserViewing, Kit!Uses, Kit!Checked, Kit!NoProfile, Kit!Read,
         KitFits, KitShapes, KitChanges, KitChanging
<1>3. \A t \in DOMAIN Kit!BrowserActing : KitFits(t, Kit!BrowserActing[t])
  BY DEF Kit!BrowserActing, Kit!Uses, Kit!Checked, Kit!NoProfile, Kit!Change,
         KitFits, KitShapes, KitChanges, KitChanging
<1>4. \A t \in DOMAIN Kit!BrowserWaiting : KitFits(t, Kit!BrowserWaiting[t])
  BY DEF Kit!BrowserWaiting, Kit!Uses, Kit!NoProfile, Kit!Read, KitFits, KitShapes,
         KitChanges, KitChanging
<1>5. \A t \in DOMAIN Kit!EmailReading : KitFits(t, Kit!EmailReading[t])
  BY DEF Kit!EmailReading, Kit!Uses, Kit!Checked, Kit!Default, KitFits, KitShapes,
         KitChanges, KitChanging
<1>6. \A t \in DOMAIN Kit!EmailDownload : KitFits(t, Kit!EmailDownload[t])
  BY DEF Kit!EmailDownload, Kit!Uses, Kit!Checked, Kit!Default, KitFits, KitShapes,
         KitChanges, KitChanging
<1>7. \A t \in DOMAIN Kit!EmailSend : KitFits(t, Kit!EmailSend[t])
  BY DEF Kit!EmailSend, Kit!Uses, Kit!Checked, Kit!Default, KitFits, KitShapes,
         KitChanges, KitChanging
<1> QED
  BY <1>1, <1>2, <1>3, <1>4, <1>5, <1>6, <1>7

LEMMA KitTools2 ==
  \A p \in {Kit!GithubIssues, Kit!GithubReviews, Kit!GithubClones, Kit!GmailReading,
            Kit!GmailSending, Kit!CalendarReading, Kit!CalendarWriting} :
    \A t \in DOMAIN p : KitFits(t, p[t])
<1>1. \A t \in DOMAIN Kit!GithubIssues : KitFits(t, Kit!GithubIssues[t])
  BY DEF Kit!GithubIssues, Kit!Uses, Kit!Github, Kit!Read, Kit!Change, KitFits,
         KitShapes, KitChanges, KitChanging
<1>2. \A t \in DOMAIN Kit!GithubReviews : KitFits(t, Kit!GithubReviews[t])
  BY DEF Kit!GithubReviews, Kit!Uses, Kit!Checked, Kit!Github, Kit!Read, Kit!Change,
         KitFits, KitShapes, KitChanges, KitChanging
<1>3. \A t \in DOMAIN Kit!GithubClones : KitFits(t, Kit!GithubClones[t])
  BY DEF Kit!GithubClones, Kit!Uses, Kit!Checked, Kit!NoProfile, KitFits, KitShapes,
         KitChanges, KitChanging
<1>4. \A t \in DOMAIN Kit!GmailReading : KitFits(t, Kit!GmailReading[t])
  BY DEF Kit!GmailReading, Kit!Uses, Kit!Gmail, KitFits, KitShapes, KitChanges,
         KitChanging
<1>5. \A t \in DOMAIN Kit!GmailSending : KitFits(t, Kit!GmailSending[t])
  BY DEF Kit!GmailSending, Kit!Uses, Kit!Gmail, Kit!Change, KitFits, KitShapes,
         KitChanges, KitChanging
<1>6. \A t \in DOMAIN Kit!CalendarReading : KitFits(t, Kit!CalendarReading[t])
  BY DEF Kit!CalendarReading, Kit!Uses, Kit!Calendar, Kit!Read, KitFits, KitShapes,
         KitChanges, KitChanging
<1>7. \A t \in DOMAIN Kit!CalendarWriting : KitFits(t, Kit!CalendarWriting[t])
  BY DEF Kit!CalendarWriting, Kit!Uses, Kit!Checked, Kit!Calendar, Kit!Change,
         KitFits, KitShapes, KitChanges, KitChanging
<1> QED
  BY <1>1, <1>2, <1>3, <1>4, <1>5, <1>6, <1>7

LEMMA KitTools3 ==
  \A p \in {Kit!OutlookMail, Kit!OutlookPlanning, Kit!OutlookAnswers, Kit!Jira,
            Kit!Confluence, Kit!Zendesk, Kit!Linear} :
    \A t \in DOMAIN p : KitFits(t, p[t])
<1>1. \A t \in DOMAIN Kit!OutlookMail : KitFits(t, Kit!OutlookMail[t])
  BY DEF Kit!OutlookMail, Kit!Uses, Kit!Account, Kit!Read, Kit!Change, KitFits,
         KitShapes, KitChanges, KitChanging
<1>2. \A t \in DOMAIN Kit!OutlookPlanning : KitFits(t, Kit!OutlookPlanning[t])
  BY DEF Kit!OutlookPlanning, Kit!Uses, Kit!Account, Kit!Change, KitFits, KitShapes,
         KitChanges, KitChanging
<1>3. \A t \in DOMAIN Kit!OutlookAnswers : KitFits(t, Kit!OutlookAnswers[t])
  BY DEF Kit!OutlookAnswers, Kit!Uses, Kit!Checked, Kit!Account, Kit!Change,
         KitFits, KitShapes, KitChanges, KitChanging
<1>4. \A t \in DOMAIN Kit!Jira : KitFits(t, Kit!Jira[t])
  BY DEF Kit!Jira, Kit!Uses, Kit!Default, Kit!Read, Kit!Change, KitFits, KitShapes,
         KitChanges, KitChanging
<1>5. \A t \in DOMAIN Kit!Confluence : KitFits(t, Kit!Confluence[t])
  BY DEF Kit!Confluence, Kit!Uses, Kit!Default, Kit!Read, Kit!Change, KitFits,
         KitShapes, KitChanges, KitChanging
<1>6. \A t \in DOMAIN Kit!Zendesk : KitFits(t, Kit!Zendesk[t])
  BY DEF Kit!Zendesk, Kit!Uses, Kit!Default, Kit!Read, Kit!Change, KitFits,
         KitShapes, KitChanges, KitChanging
<1>7. \A t \in DOMAIN Kit!Linear : KitFits(t, Kit!Linear[t])
  BY DEF Kit!Linear, Kit!Uses, Kit!Default, Kit!Read, Kit!Change, KitFits,
         KitShapes, KitChanges, KitChanging
<1> QED
  BY <1>1, <1>2, <1>3, <1>4, <1>5, <1>6, <1>7

LEMMA KitTools4 ==
  \A p \in {Kit!Gitlab, Kit!Discord, Kit!Stripe, Kit!Asana, Kit!HubspotReading,
            Kit!HubspotWriting, Kit!HubspotTasks} :
    \A t \in DOMAIN p : KitFits(t, p[t])
<1>1. \A t \in DOMAIN Kit!Gitlab : KitFits(t, Kit!Gitlab[t])
  BY DEF Kit!Gitlab, Kit!Uses, Kit!Default, Kit!Read, Kit!Change, KitFits,
         KitShapes, KitChanges, KitChanging
<1>2. \A t \in DOMAIN Kit!Discord : KitFits(t, Kit!Discord[t])
  BY DEF Kit!Discord, Kit!Uses, Kit!Default, Kit!Read, Kit!Change, KitFits,
         KitShapes, KitChanges, KitChanging
<1>3. \A t \in DOMAIN Kit!Stripe : KitFits(t, Kit!Stripe[t])
  BY DEF Kit!Stripe, Kit!Uses, Kit!Default, Kit!Read, KitFits, KitShapes,
         KitChanges, KitChanging
<1>4. \A t \in DOMAIN Kit!Asana : KitFits(t, Kit!Asana[t])
  BY DEF Kit!Asana, Kit!Uses, Kit!Default, Kit!Read, Kit!Change, KitFits, KitShapes,
         KitChanges, KitChanging
<1>5. \A t \in DOMAIN Kit!HubspotReading : KitFits(t, Kit!HubspotReading[t])
  BY DEF Kit!HubspotReading, Kit!Uses, Kit!Checked, Kit!Hubspot, Kit!Read, KitFits,
         KitShapes, KitChanges, KitChanging
<1>6. \A t \in DOMAIN Kit!HubspotWriting : KitFits(t, Kit!HubspotWriting[t])
  BY DEF Kit!HubspotWriting, Kit!Uses, Kit!Checked, Kit!Hubspot, Kit!Change,
         KitFits, KitShapes, KitChanges, KitChanging
<1>7. \A t \in DOMAIN Kit!HubspotTasks : KitFits(t, Kit!HubspotTasks[t])
  BY DEF Kit!HubspotTasks, Kit!Uses, Kit!Hubspot, Kit!Change, KitFits, KitShapes,
         KitChanges, KitChanging
<1> QED
  BY <1>1, <1>2, <1>3, <1>4, <1>5, <1>6, <1>7

LEMMA KitTools5 ==
  \A p \in {Kit!Dropbox, Kit!Box, Kit!Quickbooks, Kit!Whatsapp, Kit!NotionReading,
            Kit!NotionWriting, Kit!Attio} :
    \A t \in DOMAIN p : KitFits(t, p[t])
<1>1. \A t \in DOMAIN Kit!Dropbox : KitFits(t, Kit!Dropbox[t])
  BY DEF Kit!Dropbox, Kit!Uses, Kit!Default, Kit!Read, KitFits, KitShapes,
         KitChanges, KitChanging
<1>2. \A t \in DOMAIN Kit!Box : KitFits(t, Kit!Box[t])
  BY DEF Kit!Box, Kit!Uses, Kit!Default, Kit!Read, KitFits, KitShapes, KitChanges,
         KitChanging
<1>3. \A t \in DOMAIN Kit!Quickbooks : KitFits(t, Kit!Quickbooks[t])
  BY DEF Kit!Quickbooks, Kit!Uses, Kit!Default, Kit!Read, KitFits, KitShapes,
         KitChanges, KitChanging
<1>4. \A t \in DOMAIN Kit!Whatsapp : KitFits(t, Kit!Whatsapp[t])
  BY DEF Kit!Whatsapp, Kit!Uses, Kit!Default, Kit!Change, KitFits, KitShapes,
         KitChanges, KitChanging
<1>5. \A t \in DOMAIN Kit!NotionReading : KitFits(t, Kit!NotionReading[t])
  BY DEF Kit!NotionReading, Kit!Uses, Kit!Checked, Kit!Account, Kit!Read, KitFits,
         KitShapes, KitChanges, KitChanging
<1>6. \A t \in DOMAIN Kit!NotionWriting : KitFits(t, Kit!NotionWriting[t])
  BY DEF Kit!NotionWriting, Kit!Uses, Kit!Account, Kit!Change, KitFits, KitShapes,
         KitChanges, KitChanging
<1>7. \A t \in DOMAIN Kit!Attio : KitFits(t, Kit!Attio[t])
  BY DEF Kit!Attio, Kit!Uses, Kit!Checked, Kit!Account, Kit!Read, Kit!Change,
         KitFits, KitShapes, KitChanges, KitChanging
<1> QED
  BY <1>1, <1>2, <1>3, <1>4, <1>5, <1>6, <1>7

LEMMA KitTools6 ==
  \A p \in {Kit!Analytics, Kit!MoreAnalytics, Kit!Apollo, Kit!Hunter,
            Kit!ClickupReading, Kit!ClickupWriting, Kit!CloseReading} :
    \A t \in DOMAIN p : KitFits(t, p[t])
<1>1. \A t \in DOMAIN Kit!Analytics : KitFits(t, Kit!Analytics[t])
  BY DEF Kit!Analytics, Kit!Uses, Kit!Account, Kit!Read, KitFits, KitShapes,
         KitChanges, KitChanging
<1>2. \A t \in DOMAIN Kit!MoreAnalytics : KitFits(t, Kit!MoreAnalytics[t])
  BY DEF Kit!MoreAnalytics, Kit!Uses, Kit!Account, Kit!Read, KitFits, KitShapes,
         KitChanges, KitChanging
<1>3. \A t \in DOMAIN Kit!Apollo : KitFits(t, Kit!Apollo[t])
  BY DEF Kit!Apollo, Kit!Uses, Kit!Checked, Kit!Account, Kit!Read, KitFits,
         KitShapes, KitChanges, KitChanging
<1>4. \A t \in DOMAIN Kit!Hunter : KitFits(t, Kit!Hunter[t])
  BY DEF Kit!Hunter, Kit!Uses, Kit!Account, Kit!Read, KitFits, KitShapes,
         KitChanges, KitChanging
<1>5. \A t \in DOMAIN Kit!ClickupReading : KitFits(t, Kit!ClickupReading[t])
  BY DEF Kit!ClickupReading, Kit!Uses, Kit!Default, Kit!Read, KitFits, KitShapes,
         KitChanges, KitChanging
<1>6. \A t \in DOMAIN Kit!ClickupWriting : KitFits(t, Kit!ClickupWriting[t])
  BY DEF Kit!ClickupWriting, Kit!Uses, Kit!Checked, Kit!Default, Kit!Change,
         KitFits, KitShapes, KitChanges, KitChanging
<1>7. \A t \in DOMAIN Kit!CloseReading : KitFits(t, Kit!CloseReading[t])
  BY DEF Kit!CloseReading, Kit!Uses, Kit!Default, Kit!Read, KitFits, KitShapes,
         KitChanges, KitChanging
<1> QED
  BY <1>1, <1>2, <1>3, <1>4, <1>5, <1>6, <1>7

LEMMA KitTools7 ==
  \A p \in {Kit!CloseWriting, Kit!Figma, Kit!FigmaImages, Kit!Drive,
            Kit!DocusignReading, Kit!DocusignSending, Kit!Canva} :
    \A t \in DOMAIN p : KitFits(t, p[t])
<1>1. \A t \in DOMAIN Kit!CloseWriting : KitFits(t, Kit!CloseWriting[t])
  BY DEF Kit!CloseWriting, Kit!Uses, Kit!Checked, Kit!Default, Kit!Change, KitFits,
         KitShapes, KitChanges, KitChanging
<1>2. \A t \in DOMAIN Kit!Figma : KitFits(t, Kit!Figma[t])
  BY DEF Kit!Figma, Kit!Uses, Kit!Default, Kit!Read, Kit!Change, KitFits, KitShapes,
         KitChanges, KitChanging
<1>3. \A t \in DOMAIN Kit!FigmaImages : KitFits(t, Kit!FigmaImages[t])
  BY DEF Kit!FigmaImages, Kit!Uses, Kit!Default, Kit!Read, KitFits, KitShapes,
         KitChanges, KitChanging
<1>4. \A t \in DOMAIN Kit!Drive : KitFits(t, Kit!Drive[t])
  BY DEF Kit!Drive, Kit!Uses, Kit!Account, Kit!Read, KitFits, KitShapes, KitChanges,
         KitChanging
<1>5. \A t \in DOMAIN Kit!DocusignReading : KitFits(t, Kit!DocusignReading[t])
  BY DEF Kit!DocusignReading, Kit!Uses, Kit!Default, KitFits, KitShapes, KitChanges,
         KitChanging
<1>6. \A t \in DOMAIN Kit!DocusignSending : KitFits(t, Kit!DocusignSending[t])
  BY DEF Kit!DocusignSending, Kit!Uses, Kit!Default, KitFits, KitShapes, KitChanges,
         KitChanging
<1>7. \A t \in DOMAIN Kit!Canva : KitFits(t, Kit!Canva[t])
  BY DEF Kit!Canva, Kit!Uses, Kit!Default, Kit!Read, KitFits, KitShapes, KitChanges,
         KitChanging
<1> QED
  BY <1>1, <1>2, <1>3, <1>4, <1>5, <1>6, <1>7

LEMMA KitReads1 ==
  \A d \in {Kit!BrowserDefs, Kit!GithubDefs, Kit!EmailDefs, Kit!GmailDefs,
            Kit!GoogleCalendarDefs, Kit!OutlookDefs, Kit!JiraDefs, Kit!MondayDefs,
            Kit!AsanaDefs} : KitChanging \cap d.reads = {}
<1>1. KitChanging \cap Kit!BrowserDefs.reads = {}
  BY DEF KitChanging, Kit!BrowserDefs, Kit!Defs
<1>2. KitChanging \cap Kit!GithubDefs.reads = {}
  BY DEF KitChanging, Kit!GithubDefs, Kit!Defs
<1>3. KitChanging \cap Kit!EmailDefs.reads = {}
  BY DEF KitChanging, Kit!EmailDefs, Kit!Defs
<1>4. KitChanging \cap Kit!GmailDefs.reads = {}
  BY DEF KitChanging, Kit!GmailDefs, Kit!Defs
<1>5. KitChanging \cap Kit!GoogleCalendarDefs.reads = {}
  BY DEF KitChanging, Kit!GoogleCalendarDefs, Kit!Defs
<1>6. KitChanging \cap Kit!OutlookDefs.reads = {}
  BY DEF KitChanging, Kit!OutlookDefs, Kit!Defs
<1>7. KitChanging \cap Kit!JiraDefs.reads = {}
  BY DEF KitChanging, Kit!JiraDefs, Kit!Defs
<1>8. KitChanging \cap Kit!MondayDefs.reads = {}
  BY DEF KitChanging, Kit!MondayDefs, Kit!Defs
<1>9. KitChanging \cap Kit!AsanaDefs.reads = {}
  BY DEF KitChanging, Kit!AsanaDefs, Kit!Defs
<1> QED
  BY <1>1, <1>2, <1>3, <1>4, <1>5, <1>6, <1>7, <1>8, <1>9

LEMMA KitReads2 ==
  \A d \in {Kit!ConfluenceDefs, Kit!ZendeskDefs, Kit!LinearDefs, Kit!GitlabDefs,
            Kit!DiscordDefs, Kit!StripeDefs, Kit!AsanaApiDefs, Kit!HubspotDefs,
            Kit!DropboxDefs} : KitChanging \cap d.reads = {}
<1>1. KitChanging \cap Kit!ConfluenceDefs.reads = {}
  BY DEF KitChanging, Kit!ConfluenceDefs, Kit!Defs
<1>2. KitChanging \cap Kit!ZendeskDefs.reads = {}
  BY DEF KitChanging, Kit!ZendeskDefs, Kit!Defs
<1>3. KitChanging \cap Kit!LinearDefs.reads = {}
  BY DEF KitChanging, Kit!LinearDefs, Kit!Defs
<1>4. KitChanging \cap Kit!GitlabDefs.reads = {}
  BY DEF KitChanging, Kit!GitlabDefs, Kit!Defs
<1>5. KitChanging \cap Kit!DiscordDefs.reads = {}
  BY DEF KitChanging, Kit!DiscordDefs, Kit!Defs
<1>6. KitChanging \cap Kit!StripeDefs.reads = {}
  BY DEF KitChanging, Kit!StripeDefs, Kit!Defs
<1>7. KitChanging \cap Kit!AsanaApiDefs.reads = {}
  BY DEF KitChanging, Kit!AsanaApiDefs, Kit!Defs
<1>8. KitChanging \cap Kit!HubspotDefs.reads = {}
  BY DEF KitChanging, Kit!HubspotDefs, Kit!Defs
<1>9. KitChanging \cap Kit!DropboxDefs.reads = {}
  BY DEF KitChanging, Kit!DropboxDefs, Kit!Defs
<1> QED
  BY <1>1, <1>2, <1>3, <1>4, <1>5, <1>6, <1>7, <1>8, <1>9

LEMMA KitReads3 ==
  \A d \in {Kit!BoxDefs, Kit!QuickbooksDefs, Kit!WhatsappDefs, Kit!NotionDefs,
            Kit!AttioDefs, Kit!PosthogDefs, Kit!MixpanelDefs, Kit!AmplitudeDefs,
            Kit!ApolloDefs} : KitChanging \cap d.reads = {}
<1>1. KitChanging \cap Kit!BoxDefs.reads = {}
  BY DEF KitChanging, Kit!BoxDefs, Kit!Defs
<1>2. KitChanging \cap Kit!QuickbooksDefs.reads = {}
  BY DEF KitChanging, Kit!QuickbooksDefs, Kit!Defs
<1>3. KitChanging \cap Kit!WhatsappDefs.reads = {}
  BY DEF KitChanging, Kit!WhatsappDefs, Kit!Defs
<1>4. KitChanging \cap Kit!NotionDefs.reads = {}
  BY DEF KitChanging, Kit!NotionDefs, Kit!Defs
<1>5. KitChanging \cap Kit!AttioDefs.reads = {}
  BY DEF KitChanging, Kit!AttioDefs, Kit!Defs
<1>6. KitChanging \cap Kit!PosthogDefs.reads = {}
  BY DEF KitChanging, Kit!PosthogDefs, Kit!Defs
<1>7. KitChanging \cap Kit!MixpanelDefs.reads = {}
  BY DEF KitChanging, Kit!MixpanelDefs, Kit!Defs
<1>8. KitChanging \cap Kit!AmplitudeDefs.reads = {}
  BY DEF KitChanging, Kit!AmplitudeDefs, Kit!Defs
<1>9. KitChanging \cap Kit!ApolloDefs.reads = {}
  BY DEF KitChanging, Kit!ApolloDefs, Kit!Defs
<1> QED
  BY <1>1, <1>2, <1>3, <1>4, <1>5, <1>6, <1>7, <1>8, <1>9

LEMMA KitReads4 ==
  \A d \in {Kit!HunterDefs, Kit!ClickupDefs, Kit!CloseDefs, Kit!FigmaDefs,
            Kit!GoogleDriveDefs, Kit!DocusignDefs, Kit!CanvaDefs} : KitChanging \cap d.reads = {}
<1>1. KitChanging \cap Kit!HunterDefs.reads = {}
  BY DEF KitChanging, Kit!HunterDefs, Kit!Defs
<1>2. KitChanging \cap Kit!ClickupDefs.reads = {}
  BY DEF KitChanging, Kit!ClickupDefs, Kit!Defs
<1>3. KitChanging \cap Kit!CloseDefs.reads = {}
  BY DEF KitChanging, Kit!CloseDefs, Kit!Defs
<1>4. KitChanging \cap Kit!FigmaDefs.reads = {}
  BY DEF KitChanging, Kit!FigmaDefs, Kit!Defs
<1>5. KitChanging \cap Kit!GoogleDriveDefs.reads = {}
  BY DEF KitChanging, Kit!GoogleDriveDefs, Kit!Defs
<1>6. KitChanging \cap Kit!DocusignDefs.reads = {}
  BY DEF KitChanging, Kit!DocusignDefs, Kit!Defs
<1>7. KitChanging \cap Kit!CanvaDefs.reads = {}
  BY DEF KitChanging, Kit!CanvaDefs, Kit!Defs
<1> QED
  BY <1>1, <1>2, <1>3, <1>4, <1>5, <1>6, <1>7

LEMMA KitPlans == \A t \in Kit!Tools : KitFits(t, Kit!Plan[t])
<1>1. \A p \in Kit!Parts : \A t \in DOMAIN p : KitFits(t, p[t])
  BY KitTools1, KitTools2, KitTools3, KitTools4, KitTools5, KitTools6, KitTools7 DEF Kit!Parts
<1> SUFFICES ASSUME NEW t \in Kit!Tools
             PROVE  KitFits(t, Kit!Plan[t])
  OBVIOUS
<1> DEFINE p == CHOOSE q \in Kit!Parts : t \in DOMAIN q
<1>2. p \in Kit!Parts /\ t \in DOMAIN p
  BY DEF Kit!Tools
<1>3. Kit!Plan[t] = p[t]
  BY DEF Kit!Plan
<1> QED
  BY <1>1, <1>2, <1>3

LEMMA KitAsks == \A t \in KitChanging : Kit!ApprovalForTool(t)
<1>1. \A d \in Kit!Registry : KitChanging \cap d.reads = {}
  BY KitReads1, KitReads2, KitReads3, KitReads4 DEF Kit!Registry
<1> QED
  BY <1>1 DEF Kit!ApprovalForTool, Kit!Reads


(* What every tool's steps are like: one of them at most has an effect, a  *)
(* change or a filter comes last, and a tool that changes asks.            *)
KitStepsFit(s) ==
  /\ Len(s) \in Nat /\ Len(s) > 0 /\ DOMAIN s = 1..Len(s)
  /\ \A i, j \in DOMAIN s : s[i] \in Kit!Doing /\ s[j] \in Kit!Doing => i = j
  /\ \A i \in DOMAIN s : s[i] \in {"change", "filters"} => i = Len(s)

LEMMA KitShapesFit == \A s \in KitShapes \cup KitChanges : KitStepsFit(s)
<1>1. /\ KitStepsFit(<<"read">>) /\ KitStepsFit(<<"page">>) /\ KitStepsFit(<<"job">>)
      /\ KitStepsFit(<<"disk">>) /\ KitStepsFit(<<"change">>)
  BY DEF KitStepsFit, Kit!Doing
<1>2. /\ KitStepsFit(<<"read", "glance">>) /\ KitStepsFit(<<"read", "read">>)
      /\ KitStepsFit(<<"discover", "read">>) /\ KitStepsFit(<<"disk", "glance">>)
  BY DEF KitStepsFit, Kit!Doing
<1>3. /\ KitStepsFit(<<"read", "filters">>) /\ KitStepsFit(<<"discover", "change">>)
  BY DEF KitStepsFit, Kit!Doing
<1>4. /\ KitStepsFit(<<"read", "read", "read">>) /\ KitStepsFit(<<"read", "read", "glance">>)
  BY DEF KitStepsFit, Kit!Doing
<1>5. KitStepsFit(<<"read", "disk", "glance">>)
  BY DEF KitStepsFit, Kit!Doing
<1>6. KitStepsFit(<<"read", "read", "change">>)
  BY DEF KitStepsFit, Kit!Doing
<1>7. KitStepsFit(<<"read", "read", "read", "disk">>)
  BY DEF KitStepsFit, Kit!Doing
<1> QED
  BY <1>1, <1>2, <1>3, <1>4, <1>5, <1>6, <1>7 DEF KitShapes, KitChanges

LEMMA KitPlanFits ==
  ASSUME NEW t \in Kit!Tools
  PROVE  /\ KitStepsFit(Kit!Plan[t].steps)
         /\ \A i \in DOMAIN Kit!Plan[t].steps :
              Kit!Plan[t].steps[i] = "change" => Kit!ApprovalForTool(t)
<1> DEFINE s == Kit!Plan[t].steps
<1>1. KitFits(t, Kit!Plan[t])
  BY KitPlans
<1>2. s \in KitShapes \/ (s \in KitChanges /\ t \in KitChanging)
  BY <1>1 DEF KitFits
<1>3. KitStepsFit(s)
  BY <1>2, KitShapesFit
<1>4. CASE s \in KitChanges /\ t \in KitChanging
  BY <1>3, <1>4, KitAsks
<1>5. CASE s \in KitShapes
  <2>1. \A i \in DOMAIN s : s[i] # "change"
    BY <1>5 DEF KitShapes
  <2> QED
    BY <1>3, <2>1
<1> QED
  BY <1>2, <1>4, <1>5

(* What a call has done: nothing, or the one step with an effect, which it *)
(* has passed or on which it ended.                                        *)
KitHasDone ==
  LET s == Kit!plan.steps
  IN /\ \/ effects = <<>>
        \/ \E i \in 1..at : /\ s[i] \in Kit!Doing /\ effects = <<s[i]>>
                            /\ i = at => stage \in {"ok", "failed"}
     /\ \A i \in DOMAIN s :
          s[i] \in Kit!Doing /\ (i < at \/ stage = "ok") => effects = <<s[i]>>

(* A call that is on its way was asked about when the registry says so, and*)
(* knows the filter of its start; what it shows has passed the filter, and *)
(* what it names served.                                                   *)
KitHolds ==
  /\ stage # "idle" => gated = Kit!ApprovalForTool(tool) /\ filter \in {never, "moved"}
  /\ stage \in {"idle", "prompted", "denied"} => at = 1 /\ effects = <<>>
  /\ listed => /\ stage = "ok"
               /\ filter = mail /\ mail # "plain" => labels = "failed"
  /\ named \in {Kit!NobodyYet, served}

(* The values each variable ranges over. *)
KitTypes ==
  /\ tool \in Kit!Tools /\ override \in {"default", "on", "off"} /\ mode \in {"api", "mcp"}
  /\ holders \subseteq Holders /\ pointer \in Holders \cup {Kit!NobodyYet}
  /\ engine \in {"none", "with", "without"}
  /\ stage \in {"idle", "prompted", "running", "ok", "refused", "failed", "denied"}
  /\ gated \in BOOLEAN
  /\ at \in 1 .. Len(Kit!plan.steps)
  /\ served \in Holders \cup {Kit!NobodyYet} /\ named \in Holders \cup {Kit!NobodyYet}
  /\ reminted \in BOOLEAN /\ located \in BOOLEAN /\ listed \in BOOLEAN
  /\ mail \in {"plain", "sender", "label"} /\ labels \in {"unread", "known", "failed"}
  /\ never \in {"none", "sender", "label"} /\ switches \in 0 .. MaxSwitches

KitInv == KitTypes /\ KitHasDone /\ KitHolds

LEMMA KitStarts == Init => KitInv
<1> SUFFICES ASSUME Kit!Init PROVE KitInv
  BY DEF Init
<1> USE DEF Kit!Init
<1> DEFINE s == Kit!plan.steps
<1>1. KitStepsFit(s)
  BY KitPlanFits DEF Kit!plan
<1>2. Len(s) \in Nat /\ Len(s) > 0 /\ DOMAIN s = 1..Len(s)
  BY <1>1 DEF KitStepsFit
<1>3. holders \subseteq Holders
  <2>1. CASE Kit!HasAccounts
    <3>1. holders \in SUBSET Holders
      BY <2>1, Zenon
    <3> QED
      BY <3>1
  <2>2. CASE ~Kit!HasAccounts
    <3>1. holders \in {{}, {Kit!Single}}
      BY <2>2, Zenon
    <3>2. Kit!Single \in Holders
      BY PartsAssumption DEF Kit!IntegrationToolsAssumption, Kit!Single
    <3> QED
      BY <3>1, <3>2
  <2> QED
    BY <2>1, <2>2
<1>4. KitTypes
  <2>1. mode \in {"api", "mcp"}
    <3>1. mode \in {"api", "mcp"} \/ mode \in {"api"}
      BY Zenon
    <3> QED
      BY <3>1
  <2>2. located \in BOOLEAN
    <3>1. located \in BOOLEAN \/ located \in {FALSE}
      BY Zenon
    <3> QED
      BY <3>1
  <2>3. mail \in {"plain", "sender", "label"}
    <3>1. mail \in {"plain", "sender", "label"} \/ mail \in {"plain"}
      BY Zenon
    <3> QED
      BY <3>1
  <2>4. /\ tool \in Kit!Tools /\ override = "default" /\ pointer \in holders \cup {Kit!NobodyYet}
        /\ engine = "none" /\ stage = "idle" /\ at = 1 /\ labels = "unread"
        /\ never = "none" /\ switches = 0
        /\ served = Kit!NobodyYet /\ named = Kit!NobodyYet
    OBVIOUS
  <2>5. gated \in BOOLEAN /\ reminted \in BOOLEAN /\ listed \in BOOLEAN
    BY Zenon
  <2> HIDE DEF Kit!Init
  <2>6. pointer \in Holders \cup {Kit!NobodyYet}
    BY <1>3, <2>4
  <2>7. 1 \in 1..Len(s) /\ 0 \in 0..MaxSwitches
    BY <1>2, PartsAssumption DEF Kit!IntegrationToolsAssumption
  <2> QED
    BY <1>3, <2>1, <2>2, <2>3, <2>4, <2>5, <2>6, <2>7 DEF KitTypes
<1>5. KitHasDone
  BY <1>2 DEF KitHasDone
<1>6. KitHolds
  BY DEF KitHolds
<1> QED
  BY <1>4, <1>5, <1>6 DEF KitInv

(* The step the tool is at, and what the invariant says of it. *)
LEMMA KitStepIs ==
  ASSUME KitInv
  PROVE  LET s == Kit!plan.steps
         IN /\ KitStepsFit(s)
            /\ \A i \in DOMAIN s : s[i] = "change" => Kit!ApprovalForTool(tool)
            /\ at \in DOMAIN s /\ at \in Nat /\ at <= Len(s)
            /\ \A i \in 1..at : i \in DOMAIN s
<1> DEFINE s == Kit!plan.steps
<1>1. tool \in Kit!Tools /\ at \in 1..Len(s)
  BY DEF KitInv, KitTypes
<1>2. /\ KitStepsFit(s)
      /\ \A i \in DOMAIN s : s[i] = "change" => Kit!ApprovalForTool(tool)
  BY <1>1, KitPlanFits DEF Kit!plan
<1>3. Len(s) \in Nat /\ DOMAIN s = 1..Len(s)
  BY <1>2 DEF KitStepsFit
<1> HIDE DEF s
<1>4. at \in DOMAIN s /\ at \in Nat /\ at <= Len(s) /\ \A i \in 1..at : i \in DOMAIN s
  BY <1>1, <1>3
<1> QED
  BY <1>2, <1>4 DEF s

LEMMA KitUserKeeps ==
  ASSUME KitInv, Kit!User
  PROVE  KitInv'
<1>1. /\ UNCHANGED <<tool, engine, Kit!callVars, mail>> /\ switches' = switches + 1
      /\ switches < MaxSwitches
      /\ stage \in {"idle", "prompted", "running"}
  BY DEF Kit!User, Kit!PatchToolSettings, Kit!Connect, Kit!SetDefault, Kit!Disconnect,
         Kit!SetFilters, Kit!Switched
<1>2. UNCHANGED <<tool, engine, stage, gated, at, served, named, reminted, effects,
                  located, labels, listed, mail>>
  BY <1>1 DEF Kit!callVars
<1>3. Kit!plan' = Kit!plan
  BY <1>2 DEF Kit!plan
<1> DEFINE Typed ==
      /\ override' \in {"default", "on", "off"} /\ mode' \in {"api", "mcp"}
      /\ holders' \subseteq Holders /\ pointer' \in Holders \cup {Kit!NobodyYet}
      /\ never' \in {"none", "sender", "label"}
<1>4. Typed
  <2> USE DEF KitInv, KitTypes
  <2>1. CASE \E v \in {"on", "off"} : Kit!PatchToolSettings(v)
    BY <2>1 DEF Kit!PatchToolSettings
  <2>2. ASSUME NEW h \in Holders, Kit!Connect(h)
        PROVE  Typed
    <3>1. pointer' = h \/ pointer' = pointer
      BY <2>2 DEF Kit!Connect
    <3> QED
      BY <2>2, <3>1 DEF Kit!Connect
  <2>3. ASSUME NEW h \in Holders, Kit!SetDefault(h)
        PROVE  Typed
    BY <2>3 DEF Kit!SetDefault
  <2>4. ASSUME NEW h \in Holders, Kit!Disconnect(h)
        PROVE  Typed
    <3>1. holders' = holders \ {h} /\ UNCHANGED <<override, mode, never>>
      BY <2>4 DEF Kit!Disconnect
    <3>2. pointer' = pointer \/ pointer' = Kit!NobodyYet \/ pointer' \in holders'
      BY <2>4 DEF Kit!Disconnect
    <3> QED
      BY <3>1, <3>2
  <2>5. ASSUME NEW f \in {"none", "sender", "label"}, Kit!SetFilters(f)
        PROVE  Typed
    BY <2>5 DEF Kit!SetFilters
  <2> QED
    BY <2>1, <2>2, <2>3, <2>4, <2>5 DEF Kit!User
<1>5. (filter' = filter /\ never' = never) \/ stage = "idle" \/ filter' = "moved"
  BY DEF Kit!User, Kit!PatchToolSettings, Kit!Connect, Kit!SetDefault, Kit!Disconnect,
         Kit!SetFilters
<1>6. switches' \in 0..MaxSwitches
  BY <1>1, PartsAssumption DEF KitInv, KitTypes, Kit!IntegrationToolsAssumption
<1>7. KitTypes'
  BY <1>2, <1>3, <1>4, <1>6 DEF KitInv, KitTypes
<1>8. KitHasDone'
  BY <1>2, <1>3 DEF KitInv, KitHasDone
<1>9. KitHolds'
  BY <1>1, <1>2, <1>5 DEF KitInv, KitHolds, Kit!ApprovalForTool
<1> QED
  BY <1>7, <1>8, <1>9 DEF KitInv

LEMMA KitSessionKeeps ==
  ASSUME KitInv, Kit!Session
  PROVE  KitInv'
<1> USE DEF Kit!userVars, Kit!callVars, Kit!mailVars
<1>1. UNCHANGED <<tool, override, mode, holders, pointer, never, switches, at, named,
                  reminted, effects, located, labels, listed, mail>>
  BY DEF Kit!Session, Kit!BuildEngine, Kit!Call, Kit!Decide, Kit!Refuse, Kit!TakeAccount
<1>2. Kit!plan' = Kit!plan
  BY <1>1 DEF Kit!plan
<1>3. CASE Kit!BuildEngine
  BY <1>1, <1>2, <1>3 DEF KitInv, KitTypes, KitHasDone, KitHolds, Kit!BuildEngine,
                          Kit!ApprovalForTool
<1>4. CASE Kit!Call
  <2>1. /\ stage = "idle" /\ stage' \in {"prompted", "running"} /\ filter' = never
        /\ UNCHANGED <<engine, served>>
    BY <1>4 DEF Kit!Call
  <2>2. gated' = Kit!ApprovalForTool(tool) /\ gated' \in BOOLEAN
    BY <1>4, Zenon DEF Kit!Call, Kit!ApprovalForTool
  <2>3. KitTypes'
    BY <1>1, <1>2, <2>1, <2>2 DEF KitInv, KitTypes
  <2>4. KitHasDone'
    BY <1>1, <1>2, <2>1 DEF KitInv, KitHasDone, KitHolds, KitTypes
  <2>5. KitHolds'
    BY <1>1, <2>1, <2>2 DEF KitInv, KitHolds, Kit!ApprovalForTool
  <2> QED
    BY <2>3, <2>4, <2>5 DEF KitInv
<1>5. ASSUME NEW reply \in {"running", "denied"}, Kit!Decide(reply)
      PROVE  KitInv'
  <2>1. stage = "prompted" /\ stage' = reply /\ UNCHANGED <<engine, gated, served, filter>>
    BY <1>5 DEF Kit!Decide
  <2> QED
    BY <1>1, <1>2, <2>1 DEF KitInv, KitTypes, KitHasDone, KitHolds, Kit!ApprovalForTool
<1>6. CASE Kit!Refuse
  <2>1. /\ stage = "running" /\ stage' = "refused"
        /\ UNCHANGED <<engine, gated, served, filter>>
    BY <1>6 DEF Kit!Refuse
  <2> QED
    BY <1>1, <1>2, <2>1 DEF KitInv, KitTypes, KitHasDone, KitHolds, Kit!ApprovalForTool
<1>7. ASSUME NEW h \in Holders, Kit!TakeAccount(h)
      PROVE  KitInv'
  <2>1. served = Kit!NobodyYet /\ served' = h /\ UNCHANGED <<engine, stage, gated, filter>>
    BY <1>7 DEF Kit!TakeAccount
  <2> QED
    BY <1>1, <1>2, <2>1 DEF KitInv, KitTypes, KitHasDone, KitHolds, Kit!ApprovalForTool
<1> QED
  BY <1>3, <1>4, <1>5, <1>6, <1>7 DEF Kit!Session

(* What the requests have in common: a step moves on, or the call ends.    *)
LEMMA KitRequestKeeps ==
  ASSUME KitInv, stage = "running",
         UNCHANGED <<tool, engine, override, mode, pointer, never, switches, gated,
                     served, filter, mail>>,
         holders' \subseteq Holders,
         reminted' \in BOOLEAN, located' \in BOOLEAN,
         labels' \in {"unread", "known", "failed"}, listed' \in BOOLEAN,
         named' \in {Kit!NobodyYet, served},
         listed' => /\ stage' = "ok"
                    /\ filter = mail /\ mail # "plain" => labels' = "failed",
         \/ /\ stage' = "running" /\ at' = at + 1 /\ at < Len(Kit!plan.steps)
            /\ effects' = Kit!Did
         \/ stage' = "ok" /\ at' = at /\ at = Len(Kit!plan.steps) /\ effects' = Kit!Did
         \/ stage' = "failed" /\ at' = at /\ effects' \in {effects, Kit!Did}
         \/ stage' \in {"refused", "running"} /\ at' = at /\ effects' = effects
  PROVE  KitInv'
<1> DEFINE s == Kit!plan.steps
<1>1. Kit!plan' = Kit!plan
  BY DEF Kit!plan
<1>2. /\ Len(s) \in Nat /\ DOMAIN s = 1..Len(s)
      /\ \A i, j \in DOMAIN s : s[i] \in Kit!Doing /\ s[j] \in Kit!Doing => i = j
      /\ at \in DOMAIN s /\ at \in Nat
  BY KitStepIs DEF KitStepsFit
<1>3. KitTypes'
  <2>1. at' \in 1..Len(s)
    BY <1>2
  <2>2. named' \in Holders \cup {Kit!NobodyYet}
    BY DEF KitInv, KitTypes
  <2> QED
    BY <1>1, <2>1, <2>2 DEF KitInv, KitTypes
<1>4. /\ \/ effects = <<>>
         \/ \E i \in 1..at : s[i] \in Kit!Doing /\ effects = <<s[i]>> /\ i < at
      /\ \A i \in DOMAIN s : s[i] \in Kit!Doing /\ i < at => effects = <<s[i]>>
  <2>1. \A i \in 1..at : i = at \/ i < at
    BY <1>2
  <2> HIDE DEF s
  <2>2. /\ \/ effects = <<>>
           \/ \E i \in 1..at : /\ s[i] \in Kit!Doing /\ effects = <<s[i]>>
                               /\ i = at => stage \in {"ok", "failed"}
        /\ \A i \in DOMAIN s :
             s[i] \in Kit!Doing /\ (i < at \/ stage = "ok") => effects = <<s[i]>>
    BY DEF KitInv, KitHasDone, s
  <2> QED
    BY <2>1, <2>2
<1>5. s[at] \in Kit!Doing => effects = <<>> /\ Kit!Did = <<s[at]>>
  <2> HIDE DEF s
  <2>1. \A i \in 1..at : i < at => i \in DOMAIN s /\ i # at
    BY <1>2 DEF s
  <2>2. ASSUME s[at] \in Kit!Doing, effects # <<>>
        PROVE  FALSE
    <3>1. PICK i \in 1..at : s[i] \in Kit!Doing /\ effects = <<s[i]>> /\ i < at
      BY <1>4, <2>2 DEF s
    <3>2. i \in DOMAIN s /\ i # at
      BY <2>1, <3>1
    <3>3. at \in DOMAIN s
      BY <1>2 DEF s
    <3>4. \A j, k \in DOMAIN s : s[j] \in Kit!Doing /\ s[k] \in Kit!Doing => j = k
      BY <1>2 DEF s
    <3> QED
      BY ONLY <2>2, <3>1, <3>2, <3>3, <3>4
  <2>3. Append(<<>>, s[at]) = <<s[at]>>
    OBVIOUS
  <2>4. Kit!Did = IF s[at] \in Kit!Doing THEN Append(effects, s[at]) ELSE effects
    BY DEF Kit!Did, s
  <2>5. s[at] \in Kit!Doing => effects = <<>>
    BY <2>2
  <2> QED
    BY <2>3, <2>4, <2>5, Zenon DEF s
<1>6. s[at] \notin Kit!Doing => Kit!Did = effects
  BY DEF Kit!Did
<1>7. KitHasDone'
  <2> HIDE DEF s
  <2>1. \/ effects' = <<>>
        \/ \E i \in 1..at' : /\ s[i] \in Kit!Doing /\ effects' = <<s[i]>>
                             /\ i = at' => stage' \in {"ok", "failed"}
    BY <1>2, <1>4, <1>5, <1>6 DEF s
  <2>2. ASSUME NEW i \in DOMAIN s, s[i] \in Kit!Doing, i < at' \/ stage' = "ok"
        PROVE  effects' = <<s[i]>>
    <3>1. i < at \/ i = at
      BY <1>2, <2>2 DEF s
    <3>2. effects' = Kit!Did \/ (effects' = effects /\ at' = at)
      OBVIOUS
    <3>3. CASE i < at
      BY <1>2, <1>4, <1>5, <1>6, <2>2, <3>2, <3>3
    <3>4. CASE i = at
      BY <1>2, <1>4, <1>5, <1>6, <2>2, <3>2, <3>4 DEF s
    <3> QED
      BY <3>1, <3>3, <3>4
  <2> QED
    BY <1>1, <2>1, <2>2 DEF KitHasDone, s
<1>8. KitHolds'
  BY DEF KitInv, KitHolds, Kit!ApprovalForTool
<1> QED
  BY <1>3, <1>7, <1>8 DEF KitInv

LEMMA KitRequestsKeep ==
  ASSUME KitInv, Kit!Requests
  PROVE  KitInv'
<1> USE DEF Kit!userVars, Kit!callVars, Kit!mailVars, Kit!Running, Kit!Fail, Kit!Advance
<1> DEFINE s == Kit!plan.steps
<1>1. /\ at \in Nat /\ at <= Len(s) /\ Len(s) \in Nat
      /\ \A i \in DOMAIN s : s[i] \in {"change", "filters"} => i = Len(s)
      /\ at \in DOMAIN s
  BY KitStepIs DEF KitStepsFit
<1>2. /\ stage = "running" /\ listed = FALSE /\ served # Kit!NobodyYet
      /\ named \in {Kit!NobodyYet, served} /\ labels \in {"unread", "known", "failed"}
      /\ reminted \in BOOLEAN /\ located \in BOOLEAN /\ holders \subseteq Holders
      /\ served \in Holders
  <2>1. stage = "running" /\ served # Kit!NobodyYet
    BY DEF Kit!Requests, Kit!Answered, Kit!Rejected, Kit!Lost, Kit!Shrug,
           Kit!RemintGithub, Kit!Discover, Kit!FilterMail
  <2>2. listed \in BOOLEAN /\ ~listed
    BY <2>1 DEF KitInv, KitTypes, KitHolds
  <2> QED
    BY <2>1, <2>2 DEF KitInv, KitTypes, KitHolds
<1>3. /\ UNCHANGED <<tool, engine, override, mode, pointer, never, switches, gated,
                      served, filter, mail>>
  BY DEF Kit!Requests, Kit!Answered, Kit!Rejected, Kit!Lost, Kit!Shrug,
         Kit!RemintGithub, Kit!Discover, Kit!FilterMail
<1>4. Kit!Stamp \in {Kit!NobodyYet, served}
  BY DEF Kit!Stamp
<1>5. at # Len(s) => at < Len(s)
  BY <1>1
<1>6. s[at] \notin Kit!Doing => Kit!Did = effects
  BY DEF Kit!Did
<1> HIDE DEF s
<1>7. CASE Kit!Answered
  <2>1. /\ UNCHANGED <<holders, reminted, located, labels, listed>> /\ effects' = Kit!Did
        /\ IF at = Len(s) THEN stage' = "ok" /\ named' = Kit!Stamp /\ at' = at
           ELSE at' = at + 1 /\ UNCHANGED <<stage, named>>
    BY <1>7 DEF Kit!Answered, s
  <2> QED
    BY <1>1, <1>2, <1>3, <1>4, <1>5, <2>1, KitRequestKeeps DEF s
<1>8. CASE Kit!Rejected
  <2>1. /\ UNCHANGED <<holders, reminted, located, labels, listed, effects>>
        /\ stage' = "refused" /\ at' = at /\ named' \in {Kit!Stamp, Kit!NobodyYet}
    BY <1>8 DEF Kit!Rejected
  <2> QED
    BY <1>1, <1>2, <1>3, <1>4, <2>1, KitRequestKeeps
<1>9. CASE Kit!Lost
  <2>1. /\ UNCHANGED <<holders, reminted, located, labels, listed>>
        /\ effects' \in {effects, Kit!Did}
        /\ stage' = "failed" /\ at' = at /\ named' \in {Kit!Stamp, Kit!NobodyYet}
    BY <1>9 DEF Kit!Lost
  <2> QED
    BY <1>1, <1>2, <1>3, <1>4, <2>1, KitRequestKeeps
<1>10. CASE Kit!Shrug
  <2>1. /\ UNCHANGED <<holders, reminted, located, labels, listed, effects>>
        /\ s[at] = "glance"
        /\ IF at = Len(s) THEN stage' = "ok" /\ named' = Kit!Stamp /\ at' = at
           ELSE at' = at + 1 /\ UNCHANGED <<stage, named>>
    BY <1>10 DEF Kit!Shrug, s
  <2>2. effects' = Kit!Did
    BY <1>6, <2>1 DEF Kit!Doing
  <2> QED
    BY <1>1, <1>2, <1>3, <1>4, <1>5, <2>1, <2>2, KitRequestKeeps DEF s
<1>11. CASE Kit!RemintGithub
  <2>1. /\ UNCHANGED <<holders, located, labels, listed, effects, stage, at, named>>
        /\ reminted' = TRUE
    BY <1>11 DEF Kit!RemintGithub, Kit!Retried
  <2> QED
    BY <1>1, <1>2, <1>3, <2>1, KitRequestKeeps
<1>12. CASE Kit!Discover
  <2>1. /\ UNCHANGED <<reminted, labels, listed, effects>> /\ s[at] = "discover"
        /\ IF at = Len(s) THEN stage' = "ok" /\ named' = Kit!Stamp /\ at' = at
           ELSE at' = at + 1 /\ UNCHANGED <<stage, named>>
    BY <1>12 DEF Kit!Discover, s
  <2>2. effects' = Kit!Did
    BY <1>6, <2>1 DEF Kit!Doing
  <2>3. /\ holders' = holders \/ holders' = holders \cup {served}
        /\ located' = located \/ located' = TRUE
    BY <1>12, Zenon DEF Kit!Discover
  <2>4. holders' \subseteq Holders
    BY <1>2, <2>3
  <2>5. located' \in BOOLEAN
    BY <1>2, <2>3
  <2> QED
    BY <1>1, <1>2, <1>3, <1>4, <1>5, <2>1, <2>2, <2>4, <2>5, KitRequestKeeps DEF s
<1>13. CASE Kit!FilterMail
  <2>1. /\ UNCHANGED <<holders, reminted, located, effects>> /\ s[at] = "filters"
        /\ labels' \in IF Kit!Lookups THEN {"known", "failed"} ELSE {"unread"}
    BY <1>13 DEF Kit!FilterMail, s
  <2>2. at = Len(s) /\ effects' = Kit!Did
    BY <1>1, <1>6, <2>1 DEF Kit!Doing
  <2>3. listed' = ~Kit!IsHidden(labels')
    BY <1>13, Zenon DEF Kit!FilterMail
  <2>4. at' = at /\ (stage' = "ok" \/ (stage' = "refused" /\ ~listed'))
                /\ named' \in {Kit!Stamp, Kit!NobodyYet}
    BY <1>13, <2>2 DEF Kit!FilterMail, s
  <2>5. filter \in {never, "moved"} /\ mail \in {"plain", "sender", "label"}
    BY <1>2 DEF KitInv, KitHolds, KitTypes
  <2>6. labels' \in {"unread", "known", "failed"} /\ (Kit!Lookups => labels' # "unread")
    BY <2>1
  <2>7. listed' /\ filter = mail /\ mail # "plain" => labels' = "failed"
    <3> SUFFICES ASSUME listed', filter = mail, mail # "plain"
                 PROVE  labels' = "failed"
      OBVIOUS
    <3>1. ~Kit!IsHidden(labels')
      BY <2>3
    <3>2. never = mail /\ never # "none"
      BY <2>5
    <3>3. Kit!Lookups /\ labels' # "known"
      BY <3>1, <3>2 DEF Kit!IsHidden
    <3> QED
      BY <2>6, <3>3
  <2>8. listed' \in BOOLEAN
    BY <2>3 DEF Kit!IsHidden
  <2> QED
    BY <1>1, <1>2, <1>3, <1>4, <2>1, <2>2, <2>4, <2>6, <2>7, <2>8, KitRequestKeeps DEF s
<1> QED
  BY <1>7, <1>8, <1>9, <1>10, <1>11, <1>12, <1>13 DEF Kit!Requests

LEMMA KitStutters ==
  ASSUME KitInv, UNCHANGED kitVars
  PROVE  KitInv'
<1>1. Kit!plan' = Kit!plan
  BY DEF kitVars, Kit!plan
<1> QED
  BY <1>1 DEF kitVars, KitInv, KitTypes, KitHasDone, KitHolds, Kit!ApprovalForTool

LEMMA KitIsHonest == KitInv => Kit!CallsAreHonest
<1> SUFFICES ASSUME KitInv PROVE Kit!CallsAreHonest
  OBVIOUS
<1> DEFINE s == Kit!plan.steps
<1>1. /\ Len(s) \in Nat /\ DOMAIN s = 1..Len(s) /\ at \in Nat /\ at <= Len(s)
      /\ \A i \in DOMAIN s : s[i] \in {"change", "filters"} => i = Len(s)
      /\ \A i \in DOMAIN s : s[i] = "change" => Kit!ApprovalForTool(tool)
      /\ \A i \in 1..at : i \in DOMAIN s
  BY KitStepIs DEF KitStepsFit
<1>2. \/ effects = <<>>
      \/ \E i \in 1..at : /\ s[i] \in Kit!Doing /\ effects = <<s[i]>>
                          /\ i = at => stage \in {"ok", "failed"}
  BY DEF KitInv, KitHasDone
<1>3. \A i \in DOMAIN s :
        s[i] \in Kit!Doing /\ (i < at \/ stage = "ok") => effects = <<s[i]>>
  BY DEF KitInv, KitHasDone
<1> HIDE DEF s
<1>4. Kit!Changes \subseteq {1}
  BY <1>2 DEF Kit!Changes
<1>5. Kit!Changes # {} => /\ Kit!ApprovalForTool(tool) /\ stage \in {"ok", "failed"}
  <2> SUFFICES ASSUME Kit!Changes # {}
               PROVE  Kit!ApprovalForTool(tool) /\ stage \in {"ok", "failed"}
    OBVIOUS
  <2>1. effects # <<>> /\ (1 \in DOMAIN effects => effects[1] = "change")
    BY <1>4 DEF Kit!Changes
  <2>2. PICK i \in 1..at : /\ effects = <<s[i]>>
                           /\ i = at => stage \in {"ok", "failed"}
    BY <1>2, <2>1
  <2>3. s[i] = "change" /\ i \in DOMAIN s
    BY <1>1, <2>1, <2>2
  <2>4. i = at
    BY <1>1, <2>3
  <2> QED
    BY <1>1, <2>2, <2>3, <2>4
<1>6. Kit!UnaskedChangesNothing
  <2>1. stage # "idle" => gated = Kit!ApprovalForTool(tool)
    BY DEF KitInv, KitHolds
  <2>2. Kit!Changes # {} => gated = Kit!ApprovalForTool(tool) /\ Kit!ApprovalForTool(tool)
    BY <1>5, <2>1
  <2> QED
    BY <2>2, Zenon DEF Kit!UnaskedChangesNothing
<1>7. Kit!ChangesOnce
  <2>1. Cardinality(Kit!Changes) <= 1
    <3>1. Kit!Changes = {} \/ Kit!Changes = {1}
      BY <1>4
    <3>2. Cardinality({}) = 0 /\ Cardinality({1}) = 1
      BY FS_EmptySet, FS_Singleton, Zenon
    <3>3. Cardinality(Kit!Changes) \in {0, 1}
      BY <3>1, <3>2
    <3> QED
      BY <3>3
  <2>2. Kit!Cardinality(Kit!Changes) = Cardinality(Kit!Changes)
    BY DEF Kit!Cardinality, Cardinality
  <2>3. stage \in {"refused", "denied"} => Kit!Changes = {}
    BY <1>5
  <2>4. stage = "ok" =>
          \A i \in DOMAIN s : s[i] \in Kit!Doing => \E j \in DOMAIN effects : effects[j] = s[i]
    <3> SUFFICES ASSUME stage = "ok", NEW i \in DOMAIN s, s[i] \in Kit!Doing
                 PROVE  \E j \in DOMAIN effects : effects[j] = s[i]
      OBVIOUS
    <3>1. effects = <<s[i]>>
      BY <1>3
    <3> QED
      BY <3>1
  <2> QED
    BY <2>1, <2>2, <2>3, <2>4 DEF Kit!ChangesOnce, s
<1>8. Kit!NamesItsAccount
  BY DEF KitInv, KitHolds, Kit!NamesItsAccount
<1>9. Kit!HiddenStaysHidden
  BY DEF KitInv, KitHolds, Kit!HiddenStaysHidden
<1> QED
  BY <1>6, <1>7, <1>8, <1>9 DEF Kit!CallsAreHonest

LEMMA KitInductive == Spec => []KitInv
<1>1. Init => KitInv
  BY KitStarts
<1>2. KitInv /\ [Next]_<<part, chatVars, bridgeVars, shellVars, storeVars, clientVars, kitVars>>
        => KitInv'
  <2> SUFFICES ASSUME KitInv,
                      [Next]_<<part, chatVars, bridgeVars, shellVars, storeVars,
                               clientVars, kitVars>>
               PROVE  KitInv'
    OBVIOUS
  <2>1. CASE KitStep
    BY <2>1, KitUserKeeps, KitSessionKeeps, KitRequestsKeep DEF KitStep, Kit!Next
  <2>2. CASE UNCHANGED kitVars
    BY <2>2, KitStutters
  <2> QED
    BY <2>1, <2>2 DEF Next, ChatStep, BridgeStep, ShellStep, AccountStep, McpStep
<1> QED
  BY <1>1, <1>2, PTL DEF Spec

(* Every connector tool: nothing at a service changes in a call the user   *)
(* was not asked about, nor twice, nor in a refused call; an answer names  *)
(* the account that served, and filtered mail stays hidden.                *)
THEOREM KitsCallsAreHonest == Spec => []CallsAreHonest
<1>1. KitInv => CallsAreHonest
  BY KitIsHonest DEF CallsAreHonest
<1> QED
  BY <1>1, KitInductive, PTL

-----------------------------------------------------------------------------
(* The types of every part: what the invariants above leave out, and all   *)
(* of them together.                                                       *)

(* The values that the proofs of the shell could do without. *)
ShellRest ==
  /\ signalled \subseteq Tool!Commands /\ printed \subseteq Tool!Commands
  /\ done \subseteq Tool!Shells /\ poisoned \subseteq {"hasty", "former"}

LEMMA ShellRestStep ==
  ASSUME ShellTypes, ShellRest, Tool!Next
  PROVE  ShellRest'
<1> USE DEF ShellRest
<1>0. ASSUME NEW s \in Tool!Shells, NEW item, Tool!Put(s, item)
      PROVE  poisoned' \subseteq {"hasty", "former"}
  BY <1>0 DEF Tool!Put
<1>1. ASSUME NEW s \in Tool!Shells, Tool!ShellReads(s)
      PROVE  ShellRest'
  <2>1. UNCHANGED <<signalled, printed, done>>
    BY <1>1 DEF Tool!ShellReads
  <2>2. UNCHANGED poisoned \/ \E item : Tool!Put(s, item)
    BY <1>1 DEF Tool!ShellReads
  <2> QED
    BY <1>0, <2>1, <2>2
<1>2. ASSUME NEW s \in Tool!Shells, Tool!ReaderEnds(s)
      PROVE  ShellRest'
  BY <1>0, <1>2 DEF Tool!ReaderEnds
<1>3. ASSUME NEW s \in Tool!Shells, Tool!Eats(s) \/ Tool!Ends(s) \/ Tool!Dies(s)
      PROVE  ShellRest'
  BY <1>3 DEF Tool!Eats, Tool!Ends, Tool!Dies
<1>4. ASSUME NEW s \in Tool!Shells, NEW c \in Tool!Commands,
             Tool!Prints(s, c) \/ Tool!OrphanEnds(s, c)
      PROVE  ShellRest'
  BY <1>0, <1>4 DEF Tool!Prints, Tool!OrphanEnds
<1>5. ASSUME NEW c \in Tool!Commands, Tool!Run(c) \/ Tool!RunBroken(c)
      PROVE  ShellRest'
  BY <1>5 DEF Tool!Run, Tool!RunBroken
<1>6. CASE Tool!Deadline \/ Tool!Stopped
  <2>1. signalled' \subseteq Tool!Commands
    BY <1>6 DEF Tool!Deadline, Tool!Stopped, Tool!Interrupt, ShellTypes
  <2> QED
    BY <1>6, <2>1 DEF Tool!Deadline, Tool!Stopped
<1>7. CASE Tool!Take \/ Tool!GraceOver \/ Tool!Stop
  BY <1>7 DEF Tool!Take, Tool!GraceOver, Tool!Stop
<1> QED
  BY <1>1, <1>2, <1>3, <1>4, <1>5, <1>6, <1>7 DEF Tool!Next

LEMMA ShellTypeOK ==
  ASSUME ShellTypes, ShellRest
  PROVE  Tool!TypeOK
<1>1. ASSUME NEW s \in Tool!Shells, NEW i \in DOMAIN input[s]
      PROVE  input[s][i] \in [what : {"command", "trailer"}, of : Tool!Commands]
  <2>1. input[s] \in Seq(Inputs)
    BY DEF ShellTypes
  <2>2. input[s][i] \in Inputs
    BY <2>1
  <2> QED
    BY <2>2 DEF Inputs
<1>2. \A i \in DOMAIN queue :
        queue[i] \in [what : {"line", "marker", "eof"}, of : 0..MaxCommands]
  <2>1. Items \subseteq [what : {"line", "marker", "eof"}, of : 0..MaxCommands]
    BY PartsAssumption
       DEF Items, Tool!Commands, Tool!ShellAssumption
  <2> QED
    BY <2>1 DEF ShellTypes
<1>3. /\ fg \in [Tool!Shells -> 0..MaxCommands]
      /\ holds \in [Tool!Shells -> SUBSET Tool!Commands]
  BY DEF ShellTypes
<1>7. /\ shell \in [Tool!Shells -> {"unborn", "up", "dying", "gone"}]
      /\ cur \in Tool!Shells
  BY DEF ShellTypes
<1>8. /\ kind \in [Tool!Commands -> CommandKinds \cup {Tool!None}]
      /\ abort \in BOOLEAN
  BY DEF ShellTypes
<1>4. command \in [cmd : 0..MaxCommands, phase : {Tool!None, "reading", "grace"},
                  late : BOOLEAN, lines : SUBSET Tool!Commands]
  BY DEF ShellTypes
<1>5. result \in [Tool!Commands ->
                   [end : {Tool!None, "marker", "eof", "stopped", "wedged", "broken"},
                    marker : 0..MaxCommands, lines : SUBSET Tool!Commands]]
  BY DEF ShellTypes
<1>6. /\ signalled \subseteq Tool!Commands /\ printed \subseteq Tool!Commands
      /\ done \subseteq Tool!Shells /\ poisoned \subseteq {"hasty", "former"}
  BY DEF ShellRest
<1> QED
  BY <1>1, <1>2, <1>3, <1>4, <1>5, <1>6, <1>7, <1>8, Zenon
     DEF Tool!TypeOK

(* Accounts and ClaudeWatch: their invariants say it all. *)
LEMMA AccountsTypeOK ==
  ASSUME AccountTypes, SlackTypes
  PROVE  Store!TypeOK
<1>1. ASSUME NEW c \in Calls
      PROVE  /\ calls[c].op \in {"none", "connect", "filters", "default", "remove", "use"}
             /\ calls[c].of \in Store!Maybe(Mailboxes) /\ calls[c].read \in Store!Profiles
             /\ calls[c].phase \in {"none", "cloud", "local", "write"}
  <2>1. calls[c] \in CallsAre
    BY <1>1 DEF AccountTypes
  <2> QED
    BY <2>1 DEF CallsAre
<1> QED
  BY <1>1, Zenon DEF Store!TypeOK, AccountTypes, SlackTypes, Store!None

LEMMA BridgeTypeOK ==
  ASSUME BridgeTypes, SendsHead
  PROVE  Bridge!TypeOK
<1>1. \A i \in DOMAIN poll : poll[i].s \in Terminals /\ poll[i].state \in Bridge!States
  <2>1. \A i \in DOMAIN poll : poll[i] \in Notices
    BY DEF BridgeTypes
  <2> QED
    BY <2>1 DEF Notices
<1>2. sending.s \in Terminals \cup {"none"}
  <2>1. CASE sending = Bridge!Nothing
    BY <2>1 DEF Bridge!Nothing, Bridge!None
  <2>2. CASE sending # Bridge!Nothing
    <3>1. Head(poll) = poll[1] /\ 1 \in DOMAIN poll
      BY <2>2 DEF SendsHead, BridgeTypes
    <3> QED
      BY <2>2, <3>1, <1>1 DEF SendsHead
  <2> QED
    BY <2>1, <2>2
<1>3. answer.phase \in {"none", "token", "key"}
  BY DEF BridgeTypes
<1> QED
  BY <1>1, <1>2, <1>3 DEF Bridge!TypeOK, BridgeTypes, Bridge!None


(* Mcp: tasks told to stop, tokens, a reload and the redirects so far. *)
McpRest ==
  /\ cancelled \subseteq Client!Tries /\ tokens \subseteq Servers
  /\ closing \in [on : BOOLEAN, left : SUBSET Client!Tries]
  /\ reloads \in 0..MaxReloads /\ ended \subseteq Client!Tries \X Client!Tries

LEMMA McpRestStep ==
  ASSUME McpInv, McpRest, Client!Next
  PROVE  McpRest'
<1> USE DEF McpInv, McpRest
<1>0. MaxReloads \in Nat /\ MaxCalls \in Nat
  BY PartsAssumption DEF Client!McpAssumption
<1>1. ASSUME NEW c \in Callers,
             (\E s \in Servers : Client!Ask(c, "turn", s) \/ Client!Ask(c, "connect", s))
               \/ Client!Enter(c) \/ Client!Leaves(c)
      PROVE  McpRest'
  BY <1>1 DEF Client!Ask, Client!Enter, Client!Leaves
<1>2. ASSUME NEW i \in Client!Tries,
             \/ Client!Opened(i) \/ Client!Failed(i) \/ Client!SignInTimesOut(i)
             \/ Client!ShutDown(i) \/ Client!Cancelled(i) \/ Client!Browse(i)
      PROVE  McpRest'
  BY <1>2 DEF Client!Opened, Client!Failed, Client!SignInTimesOut, Client!ShutDown,
     Client!Cancelled, Client!Browse
<1>3. ASSUME NEW i \in Client!Tries, Client!AwaitRedirect(i)
      PROVE  McpRest'
  <2>1. pending # 0 => pending \in Client!Tries
    BY TriesAre DEF McpTypes
  <2>2. cancelled' \subseteq Client!Tries /\ UNCHANGED <<tokens, closing, reloads, ended>>
    BY <1>3, <2>1 DEF Client!AwaitRedirect, Client!NoTry
  <2> QED
    BY <2>2
<1>4. ASSUME NEW i \in Client!Tries, Client!Redirect(i)
      PROVE  McpRest'
  <2>1. UNCHANGED <<closing, reloads, cancelled>>
    BY <1>4 DEF Client!Redirect
  <2>2. CASE UNCHANGED <<tokens, ended>>
    BY <2>1, <2>2
  <2>3. CASE /\ pending # 0 /\ serve[pending].phase = "signing"
             /\ tokens' = tokens \cup {serve[pending].server}
             /\ ended' = ended \cup {<<pending, i>>}
    <3>1. pending \in Client!Tries
      BY <2>3, TriesAre DEF McpTypes
    <3>2. serve[pending].server \in Servers
      BY <2>3, <3>1 DEF TriesAreSane
    <3> QED
      BY <2>1, <2>3, <3>1, <3>2
  <2> QED
    BY <1>4, <2>2, <2>3 DEF Client!Redirect, Client!Delivers, Client!At, Client!NoTry
<1>5. ASSUME NEW i \in Client!Tries, Client!ReloadWaits(i)
      PROVE  McpRest'
  BY <1>5 DEF Client!ReloadWaits
<1>6. ASSUME NEW s \in Servers, Client!SignOut(s)
      PROVE  McpRest'
  BY <1>6 DEF Client!SignOut
<1>7. CASE Client!Reload
  <2>1. {tasks[s] : s \in Servers} \ {0} \subseteq Client!Tries
    BY TriesAre DEF McpTypes
  <2>2. closing' \in [on : BOOLEAN, left : SUBSET Client!Tries]
    BY <1>7, <2>1 DEF Client!Reload, Client!Reloading, Client!NoTry
  <2>3. reloads' \in 0..MaxReloads
    BY <1>0, <1>7 DEF Client!Reload
  <2> QED
    BY <1>7, <2>2, <2>3 DEF Client!Reload
<1>8. CASE Client!ReloadEnds
  BY <1>8 DEF Client!ReloadEnds
<1> QED
  BY <1>1, <1>2, <1>3, <1>4, <1>5, <1>6, <1>7, <1>8
     DEF Client!Next, Client!Turn, Client!Connect

LEMMA McpTypeOK ==
  ASSUME McpInv, McpRest
  PROVE  Client!TypeOK
<1>1. line \in Seq(Callers) /\ IsInjective(line)
  BY DEF McpInv, McpTypes, LockIsOne
<1>2. \A i \in DOMAIN line : /\ line[i] \in Callers
                             /\ \A j \in DOMAIN line : line[i] = line[j] => i = j
  BY <1>1 DEF IsInjective
<1>3. closing.on \in BOOLEAN /\ closing.left \subseteq Client!Tries
  BY DEF McpRest
<1> QED
  BY <1>2, <1>3, Zenon
     DEF Client!TypeOK, McpInv, McpTypes, McpRest, ServeRecords, Phases

(* Inbound: a turn that waits, or whose engine was dropped, runs. *)
ChatRest ==
  /\ reading \in Chat!Frames /\ linked \in BOOLEAN
  /\ zombie \subseteq Sessions /\ waits \subseteq prompts /\ muted \subseteq Sessions
  /\ \A s \in zombie \cup waits : turn[s] # "idle"
  /\ allowed \subseteq Senders /\ released \subseteq Msgs
  /\ unrouted \subseteq Msgs \X (Sessions \cup {"none"})
  /\ settings \in 0..MaxSettings /\ asked \in 0..MaxPrompts /\ clicked \in 0..MaxPrompts

(* What a delivery does to the turns that run and to the dead letters. *)
TurnsGoOn == \A s \in Sessions : turn[s] # "idle" => turn'[s] = turn[s]
LettersAre == unrouted' \subseteq Msgs \X (Sessions \cup {"none"})

LEMMA DeliverGoesOn ==
  ASSUME RouteTypes, ChatRest, NEW m \in Msgs, NEW s \in Sessions, Chat!Deliver(m, s)
  PROVE  TurnsGoOn /\ LettersAre
<1>1. CASE unrouted' = unrouted \cup {<<m, s>>} /\ UNCHANGED <<turn, steer, thread>>
  BY <1>1 DEF TurnsGoOn, LettersAre, ChatRest
<1>2. CASE UNCHANGED <<turn, thread, unrouted>>
  BY <1>2 DEF TurnsGoOn, LettersAre, ChatRest
<1>3. CASE turn[s] = "idle" /\ turn' = [turn EXCEPT ![s] = m] /\ UNCHANGED <<steer, unrouted>>
  BY <1>3 DEF TurnsGoOn, LettersAre, ChatRest, RouteTypes
<1> QED
  BY <1>1, <1>2, <1>3 DEF Chat!Deliver, Chat!Idle

LEMMA SubscriberGoesOn ==
  ASSUME RouteTypes, ChatRest, NEW m \in Msgs, NEW left \in Seq(Sessions), left # <<>>,
         NEW owed, Chat!NextSubscriber(m, left, owed)
  PROVE  TurnsGoOn /\ LettersAre
<1>1. Head(left) \in Sessions
  OBVIOUS
<1>2. CASE UNCHANGED <<turn, steer, thread, unrouted>>
  BY <1>2 DEF TurnsGoOn, LettersAre, ChatRest
<1>3. CASE Chat!Deliver(m, Head(left))
  BY <1>1, <1>3, DeliverGoesOn
<1> QED
  BY <1>2, <1>3 DEF Chat!NextSubscriber

LEMMA OwnerGoesOn ==
  ASSUME RouteInv, ChatRest, NEW m \in Msgs, NEW c \in Chat!Chats, Chat!ToOwner(m, c)
  PROVE  TurnsGoOn /\ LettersAre
<1> USE DEF RouteInv
<1>1. CASE Chat!HasSession(c) /\ Chat!Deliver(m, owner[c])
  <2>1. owner[c] \in Sessions
    BY <1>1 DEF Chat!HasSession, RouteTypes
  <2> QED
    BY <1>1, <2>1, DeliverGoesOn
<1>2. ASSUME NEW s \in Sessions, Chat!Fresh(s), turn' = [turn EXCEPT ![s] = m],
             UNCHANGED unrouted
      PROVE  TurnsGoOn /\ LettersAre
  <2>1. turn[s] = "idle"
    BY <1>2, FreshIs DEF MadeOnly
  <2> QED
    BY <1>2, <2>1 DEF TurnsGoOn, LettersAre, ChatRest, RouteTypes
<1>3. CASE unrouted' = unrouted \cup {<<m, "none">>} /\ UNCHANGED <<turn>>
  BY <1>3 DEF TurnsGoOn, LettersAre, ChatRest
<1> QED
  BY <1>1, <1>2, <1>3 DEF Chat!ToOwner, Chat!None

LEMMA DispatchGoesOn ==
  ASSUME RouteInv, ChatRest, NEW m \in Msgs, NEW how, NEW from \in Senders,
         subs \in Seq(Sessions), Chat!Dispatch(m, how, from)
  PROVE  TurnsGoOn /\ LettersAre
<1> USE DEF RouteInv
<1>1. from \in Chat!Chats /\ Chat!Thread \in Chat!Chats
  BY DEF Chat!Chats
<1>2. CASE subs # <<>> /\ Chat!FanOut(m)
  BY <1>2, SubscriberGoesOn DEF Chat!FanOut
<1>3. CASE UNCHANGED <<turn, steer, thread, rows, Chat!routeVars>>
  BY <1>3 DEF TurnsGoOn, LettersAre, ChatRest, Chat!routeVars
<1>4. CASE Chat!ToOwner(m, Chat!Thread) \/ Chat!ToOwner(m, from)
  BY <1>1, <1>4, OwnerGoesOn
<1>5. CASE dmSession \in muted /\ unrouted' = unrouted \cup {<<m, dmSession>>} /\ UNCHANGED turn
  BY <1>5 DEF TurnsGoOn, LettersAre, ChatRest
<1>6. CASE dmSession \in Sessions /\ Chat!Deliver(m, dmSession)
  BY <1>6, DeliverGoesOn
<1> QED
  BY <1>2, <1>3, <1>4, <1>5, <1>6 DEF Chat!Dispatch

LEMMA OnInboundGoesOn ==
  ASSUME RouteInv, ChatRest, NEW m \in Msgs, NEW how, NEW from \in Senders,
         subs \in Seq(Sessions), Chat!OnInbound(m, how, from)
  PROVE  TurnsGoOn /\ LettersAre /\ waits' \subseteq prompts' /\ waits' \subseteq waits
<1>1. waits' \subseteq prompts' /\ waits' \subseteq waits
  <2>1. CASE UNCHANGED <<prompts, waits>>
    BY <2>1 DEF ChatRest
  <2>2. CASE Chat!AnswerByReply(from)
    BY <2>2 DEF Chat!AnswerByReply, ChatRest
  <2> QED
    BY <2>1, <2>2 DEF Chat!OnInbound
<1>2. CASE UNCHANGED <<turn, unrouted>>
  BY <1>1, <1>2 DEF TurnsGoOn, LettersAre, ChatRest
<1>3. CASE Chat!Dispatch(m, how, from)
  BY <1>1, <1>3, DispatchGoesOn
<1> QED
  BY <1>2, <1>3 DEF Chat!OnInbound, Chat!routeVars

(* What is left after a step in which running turns go on. *)
LEMMA WaitsStay ==
  ASSUME ChatRest, ArrivalTypes, TurnsGoOn, zombie' \subseteq zombie, waits' \subseteq waits
  PROVE  \A s \in zombie' \cup waits' : turn'[s] # "idle"
  BY DEF ChatRest, ArrivalTypes, TurnsGoOn

LEMMA ArrivalsGoOn ==
  ASSUME ChatInv, ChatRest, NEW m \in Msgs,
         \/ Chat!SendByRelay(m) \/ Chat!SendDirectly(m) \/ Chat!FanOn(m) \/ Chat!Decide(m)
         \/ Chat!ReadMessage
  PROVE  ChatRest'
<1> USE DEF ChatInv
<1>0. subs \in Seq(Sessions) /\ RouteTypes
  BY DEF ArrivalTypes, RouteInv
<1>1. CASE Chat!SendByRelay(m)
  BY <1>1 DEF Chat!SendByRelay, Chat!turnVars, Chat!routeVars, Chat!settingVars,
     Chat!pastVars, ChatRest
<1>2. CASE Chat!SendDirectly(m)
  <2>1. PICK k \in Chat!Kinds, u \in Senders : Chat!OnInbound(m, k, u)
    BY <1>2 DEF Chat!SendDirectly
  <2>2. TurnsGoOn /\ LettersAre /\ waits' \subseteq prompts' /\ waits' \subseteq waits
    BY <1>0, <2>1, OnInboundGoesOn
  <2>3. /\ UNCHANGED <<zombie, muted, allowed, released, settings, asked, clicked>>
        /\ UNCHANGED <<reading, linked>>
    BY <1>2, <2>1
       DEF Chat!SendDirectly, Chat!OnInbound, Chat!settingVars, Chat!pastVars, Chat!linkVars
  <2>4. \A s \in zombie' \cup waits' : turn'[s] # "idle"
    BY <2>2, <2>3, WaitsStay
  <2> QED
    BY <2>2, <2>3, <2>4 DEF ChatRest, LettersAre
<1>3. CASE Chat!ReadMessage
  <2>1. frames # <<>> /\ frames \in Seq(Chat!Frames) /\ Head(frames).what = "message"
    BY <1>3 DEF Chat!ReadMessage, ArrivalTypes
  <2>2. PICK n \in Msgs : Head(frames) = Chat!Message(n) /\ n = Head(frames).m
    BY <2>1, FramesAre
  <2>3. msg[n].from \in Senders
    <3>1. Held(n)
      BY <2>1, <2>2 DEF Held
    <3> QED
      BY <3>1, SentIs DEF Arrivals
  <2>4. Chat!OnInbound(n, msg[n].kind, msg[n].from)
    BY <1>3, <2>2 DEF Chat!ReadMessage
  <2>5. TurnsGoOn /\ LettersAre /\ waits' \subseteq prompts' /\ waits' \subseteq waits
    BY <1>0, <2>3, <2>4, OnInboundGoesOn
  <2>6. /\ UNCHANGED <<zombie, muted, allowed, released, settings, asked, clicked>>
        /\ reading' \in Chat!Frames /\ UNCHANGED linked
    BY <1>3, <2>1, <2>4
       DEF Chat!ReadMessage, Chat!OnInbound, Chat!settingVars, Chat!pastVars
  <2>7. \A s \in zombie' \cup waits' : turn'[s] # "idle"
    BY <2>5, <2>6, WaitsStay
  <2> QED
    BY <2>5, <2>6, <2>7 DEF ChatRest, LettersAre
<1>4. CASE Chat!FanOn(m)
  <2>1. fan[m] \in Seq(Sessions) /\ fan[m] # <<>> /\ Chat!NextSubscriber(m, fan[m], due)
    BY <1>0, <1>4 DEF Chat!FanOn, RouteTypes
  <2>2. TurnsGoOn /\ LettersAre
    BY <1>0, <2>1, SubscriberGoesOn
  <2>3. /\ UNCHANGED <<zombie, waits, prompts, muted, allowed, released>>
        /\ UNCHANGED <<settings, asked, clicked>>
        /\ UNCHANGED <<reading, linked>>
    BY <1>4 DEF Chat!FanOn, Chat!settingVars, Chat!pastVars, Chat!linkVars
  <2>4. \A s \in zombie' \cup waits' : turn'[s] # "idle"
    BY <2>2, <2>3, WaitsStay
  <2> QED
    BY <2>2, <2>3, <2>4 DEF ChatRest, LettersAre
<1>5. CASE Chat!Decide(m)
  <2>1. msg[m].from \in Senders
    <3>1. m \in parked
      BY <1>5 DEF Chat!Decide
    <3> QED
      BY <3>1, SentIs DEF Arrivals
  <2>2. TurnsGoOn /\ LettersAre
    <3>1. CASE UNCHANGED <<turn, steer, thread, rows, Chat!routeVars>>
      BY <3>1 DEF TurnsGoOn, LettersAre, ChatRest, Chat!routeVars
    <3>2. CASE Chat!Dispatch(m, IF msg[m].kind = "dm" THEN "dm" ELSE "plain", msg[m].from)
      BY <1>0, <2>1, <3>2, DispatchGoesOn
    <3> QED
      BY <1>5, <3>1, <3>2 DEF Chat!Decide
  <2>3. /\ UNCHANGED <<zombie, waits, prompts, muted, settings, asked, clicked>>
        /\ UNCHANGED <<reading, linked>>
    BY <1>5 DEF Chat!Decide, Chat!linkVars
  <2>4. allowed' \subseteq Senders /\ released' \subseteq Msgs
    BY <1>5, <2>1 DEF Chat!Decide, ChatRest
  <2>5. \A s \in zombie' \cup waits' : turn'[s] # "idle"
    BY <2>2, <2>3, WaitsStay
  <2> QED
    BY <2>2, <2>3, <2>4, <2>5 DEF ChatRest, LettersAre
<1> QED
  BY <1>1, <1>2, <1>3, <1>4, <1>5

(* A turn ends when it waits no more, and takes its zombie with it. *)
LEMMA TurnsGoOnOrEnd ==
  ASSUME ChatInv, ChatRest, NEW s \in Sessions,
         \/ Chat!AnswerInApp(s) \/ Chat!ReadSteering(s) \/ Chat!Ask(s) \/ Chat!EndTurn(s)
         \/ \E u \in Relayed : Chat!ClickButton(s, u)
  PROVE  ChatRest'
<1> USE DEF ChatRest
<1>0. /\ MaxPrompts \in Nat /\ prompts \subseteq Sessions
      /\ turn \in [Sessions -> Msgs \cup {"idle", "resumed", "clicked"}]
  BY PartsAssumption
     DEF Chat!InboundAssumption, ChatInv, RouteInv, RouteTypes, ArrivalTypes
<1>1. CASE Chat!AnswerInApp(s)
  <2>1. /\ prompts' = prompts \ {s} /\ waits' = waits \ {s} /\ UNCHANGED zombie
        /\ turn' = IF turn[s] = "idle" THEN [turn EXCEPT ![s] = "resumed"] ELSE turn
    BY <1>1 DEF Chat!AnswerInApp, Chat!Idle
  <2>2. \A x \in zombie' \cup waits' : turn'[x] # "idle"
    BY <1>0, <2>1
  <2> QED
    BY <1>1, <2>1, <2>2
       DEF Chat!AnswerInApp, Chat!routeVars, Chat!settingVars, Chat!linkVars, Chat!pastVars
<1>2. CASE Chat!ReadSteering(s)
  BY <1>2 DEF Chat!ReadSteering, Chat!routeVars, Chat!settingVars, Chat!linkVars,
     Chat!pastVars
<1>3. CASE Chat!Ask(s)
  <2>1. \A x \in zombie' \cup waits' : turn'[x] # "idle"
    BY <1>3 DEF Chat!Ask, Chat!Idle
  <2>2. asked' \in 0..MaxPrompts
    BY <1>0, <1>3 DEF Chat!Ask
  <2> QED
    BY <1>3, <2>1, <2>2 DEF Chat!Ask, Chat!routeVars, Chat!settingVars, Chat!linkVars
<1>4. CASE Chat!EndTurn(s)
  <2>1. \A x \in zombie' \cup waits' : turn'[x] # "idle"
    BY <1>0, <1>4 DEF Chat!EndTurn, Chat!Idle
  <2> QED
    BY <1>4, <2>1
       DEF Chat!EndTurn, Chat!routeVars, Chat!settingVars, Chat!linkVars, Chat!pastVars
<1>5. ASSUME NEW u \in Relayed, Chat!ClickButton(s, u)
      PROVE  ChatRest'
  <2>1. clicked' \in 0..MaxPrompts
    BY <1>0, <1>5 DEF Chat!ClickButton
  <2> QED
    BY <1>5, <2>1
       DEF Chat!ClickButton, Chat!turnVars, Chat!routeVars, Chat!settingVars
<1> QED
  BY <1>1, <1>2, <1>3, <1>4, <1>5

LEMMA ClicksGoOn ==
  ASSUME ChatInv, ChatRest, Chat!ReadClick
  PROVE  ChatRest'
<1> USE DEF ChatRest
<1>0. turn \in [Sessions -> Msgs \cup {"idle", "resumed", "clicked"}]
  BY DEF ChatInv, RouteInv, RouteTypes
<1>1. reading' \in Chat!Frames
  BY DEF Chat!ReadClick, ChatInv, ArrivalTypes
<1>2. UNCHANGED <<linked, zombie, muted, allowed, released, unrouted, settings, asked, clicked>>
  BY DEF Chat!ReadClick, Chat!routeVars, Chat!settingVars, Chat!pastVars
<1>3. ASSUME NEW x, prompts' = prompts \ {x}, waits' = waits \ {x},
             turn' = IF turn[x] = "idle" THEN [turn EXCEPT ![x] = "clicked"] ELSE turn
      PROVE  waits' \subseteq prompts' /\ \A y \in zombie' \cup waits' : turn'[y] # "idle"
  BY <1>0, <1>2, <1>3
<1>4. waits' \subseteq prompts' /\ \A y \in zombie' \cup waits' : turn'[y] # "idle"
  BY <1>2, <1>3 DEF Chat!ReadClick, Chat!Idle
<1> QED
  BY <1>1, <1>2, <1>4

(* A session's deletion, a reload and a crash end the waits they cut off. *)
LEMMA SettingsGoOn ==
  ASSUME ChatInv, ChatRest, Chat!Edit,
         \/ \E s \in Sessions : Chat!Subscribe(s) \/ Chat!Unsubscribe(s) \/ Chat!Delete(s)
         \/ Chat!Configure \/ Chat!Refresh \/ Chat!Crash
  PROVE  ChatRest'
<1> USE DEF ChatRest
<1>0. settings' \in 0..MaxSettings
  BY PartsAssumption DEF Chat!Edit, Chat!InboundAssumption
<1>a. Chat!NoFrame \in Chat!Frames /\ rows \subseteq Sessions /\ prompts \subseteq Sessions
  BY DEF Chat!Frames, ChatInv, RouteInv, RouteTypes, ArrivalTypes
<1>1. ASSUME NEW s \in Sessions, Chat!Subscribe(s) \/ Chat!Unsubscribe(s)
      PROVE  ChatRest'
  BY <1>0, <1>1 DEF Chat!Subscribe, Chat!Unsubscribe, Chat!turnVars, Chat!routeVars,
     Chat!linkVars
<1>2. ASSUME NEW s \in Sessions, Chat!Delete(s)
      PROVE  ChatRest'
  <2>1. /\ prompts' = prompts \ {s} /\ waits' = waits \ {s} /\ UNCHANGED turn
        /\ zombie' = IF turn[s] = "idle" THEN zombie ELSE zombie \cup {s}
    BY <1>2 DEF Chat!Delete, Chat!Idle
  <2>2. \A x \in zombie' \cup waits' : turn'[x] # "idle"
    BY <2>1
  <2> QED
    BY <1>0, <1>2, <2>1, <2>2 DEF Chat!Delete, Chat!linkVars
<1>3. CASE Chat!Configure
  BY <1>0, <1>3, <1>a DEF Chat!Configure, Chat!turnVars, Chat!routeVars, Chat!linkVars
<1>4. CASE Chat!Refresh
  <2>1. \A x \in zombie' \cup waits' : turn'[x] # "idle"
    BY <1>4, <1>a DEF Chat!Refresh, Chat!Idle
  <2> QED
    BY <1>0, <1>4, <1>a, <2>1 DEF Chat!Refresh, Chat!settingVars
<1>5. CASE Chat!Crash
  BY <1>0, <1>5, <1>a DEF Chat!Crash, Chat!settingVars
<1> QED
  BY <1>1, <1>2, <1>3, <1>4, <1>5

LEMMA ChatTypeOK ==
  ASSUME ChatInv, ChatRest
  PROVE  Chat!TypeOK
<1> USE DEF ChatInv, RouteInv
<1>1. Chat!Range(frames) \subseteq Chat!Frames /\ Chat!Range(subs) \subseteq Sessions
  BY DEF ArrivalTypes, Chat!Range
<1>2. ASSUME NEW m \in Msgs
      PROVE  Chat!Range(fan[m]) \subseteq Sessions
  <2>1. fan[m] \in Seq(Sessions)
    BY DEF RouteTypes
  <2> QED
    BY <2>1 DEF Chat!Range
<1>3. dmSession \in Sessions \cup {"none"}
  BY DEF MadeOnly, Made, RouteTypes
<1>4. \A s \in zombie \cup waits : turn[s] # Chat!Idle
  BY DEF ChatRest, Chat!Idle
<1>5. turn \in [Sessions -> Msgs \cup {Chat!Idle, "resumed", "clicked"}]
  BY DEF RouteTypes, Chat!Idle
<1> QED
  BY <1>1, <1>2, <1>3, <1>4, <1>5, Zenon
     DEF Chat!TypeOK, RouteTypes, ArrivalTypes, ChatRest, Chat!None

LEMMA KitTypeOK ==
  ASSUME KitInv
  PROVE  Kit!TypeOK
<1> DEFINE s == Kit!plan.steps
<1>1. Len(s) \in Nat /\ at \in Nat /\ at <= Len(s) /\ 1 <= at
  BY KitStepIs DEF KitStepsFit, KitInv, KitTypes
<1>2. \/ effects = <<>>
      \/ \E i \in 1..at : s[i] \in Kit!Doing /\ effects = <<s[i]>>
  BY DEF KitInv, KitHasDone
<1> HIDE DEF s
<1>3. effects \in Seq(Kit!Doing) /\ Len(effects) <= Len(s)
  <2>1. CASE effects = <<>>
    BY <1>1, <2>1
  <2>2. ASSUME NEW x \in Kit!Doing, effects = <<x>>
        PROVE  effects \in Seq(Kit!Doing) /\ Len(effects) <= Len(s)
    BY <1>1, <2>2
  <2> QED
    BY <1>2, <2>1, <2>2
<1>4. {served, named} \subseteq Holders \union {Kit!NobodyYet}
  BY DEF KitInv, KitTypes
<1>5. {reminted, located, listed} \subseteq BOOLEAN
  <2>1. reminted \in BOOLEAN /\ located \in BOOLEAN /\ listed \in BOOLEAN
    BY Zenon DEF KitInv, KitTypes
  <2> QED
    BY <2>1
<1> QED
  BY <1>3, <1>4, <1>5, Zenon DEF Kit!TypeOK, KitInv, KitTypes, s

(* The part that moves is one of the six, and each keeps to its types.     *)
Parts == {"chat", "bridge", "shell", "accounts", "mcp", "tools"}
AllInv ==
  /\ part \in Parts
  /\ ChatInv /\ BridgeInv /\ ShellInv /\ AccountInv /\ McpInv /\ KitInv
  /\ ChatRest /\ ShellRest /\ McpRest

LEMMA AllInit == Init => AllInv
<1> SUFFICES ASSUME Init PROVE AllInv
  OBVIOUS
<1>1. part \in Parts
  BY DEF Init, Parts
<1>2. ChatInv /\ McpInv /\ KitInv
  BY ChatInit, McpInit, KitStarts DEF Init
<1>3. BridgeInv /\ ShellInv /\ AccountInv
  BY PartsAssumption, BridgeInit, ShellInit, AccountsInit DEF Init
<1>4. ChatRest
  <2>1. Chat!Init /\ MaxSettings \in Nat /\ MaxPrompts \in Nat /\ Owners \subseteq Senders
    BY PartsAssumption DEF Init, Chat!InboundAssumption
  <2>2. linked \in BOOLEAN
    BY <2>1, Zenon DEF Chat!Init
  <2> QED
    BY <2>1, <2>2 DEF Chat!Init, ChatRest, Chat!Frames
<1>5. ShellRest
  BY DEF Init, Tool!Init, ShellRest
<1>6. McpRest
  BY PartsAssumption DEF Init, Client!Init, McpRest, Client!McpAssumption
<1> QED
  BY <1>1, <1>2, <1>3, <1>4, <1>5, <1>6 DEF AllInv

LEMMA AllNext ==
  ASSUME AllInv,
         [Next]_<<part, chatVars, bridgeVars, shellVars, storeVars, clientVars, kitVars>>
  PROVE  AllInv'
<1> USE DEF AllInv
<1>1. /\ [Chat!Next]_chatVars /\ [Bridge!Next]_bridgeVars /\ [Tool!Next]_shellVars
      /\ [Store!Next]_storeVars /\ [Client!Next]_clientVars
      /\ UNCHANGED part
  BY DEF Next, ChatStep, BridgeStep, ShellStep, AccountStep, McpStep, KitStep
<1>2. ChatInv' /\ McpInv'
  BY <1>1, ChatNext, McpNext
<1>3. BridgeInv' /\ ShellInv' /\ AccountInv'
  BY <1>1, PartsAssumption, BridgeNext, ShellStaysInStep,
     AccountsStep
<1>4. KitInv'
  <2>1. Kit!Next \/ UNCHANGED kitVars
    BY DEF Next, ChatStep, BridgeStep, ShellStep, AccountStep, McpStep, KitStep
  <2> QED
    BY <2>1, KitUserKeeps, KitSessionKeeps, KitRequestsKeep, KitStutters DEF Kit!Next
<1>5. ChatRest'
  <2>1. CASE UNCHANGED chatVars
    BY <2>1 DEF chatVars, ChatRest
  <2>2. ASSUME NEW m \in Msgs,
               \/ Chat!SendByRelay(m) \/ Chat!SendDirectly(m) \/ Chat!FanOn(m)
               \/ Chat!Decide(m)
        PROVE  ChatRest'
    BY <2>2, ArrivalsGoOn
  <2>3. CASE Chat!ReadMessage
    <3>1. \E m \in Msgs : TRUE
      <4>1. frames # <<>> /\ frames \in Seq(Chat!Frames) /\ Head(frames).what = "message"
        BY <2>3 DEF Chat!ReadMessage, ChatInv, ArrivalTypes
      <4> QED
        BY <4>1, FramesAre
    <3> QED
      BY <2>3, <3>1, ArrivalsGoOn
  <2>4. ASSUME NEW s \in Sessions,
               \/ Chat!AnswerInApp(s) \/ Chat!ReadSteering(s) \/ Chat!Ask(s)
               \/ Chat!EndTurn(s) \/ \E u \in Relayed : Chat!ClickButton(s, u)
        PROVE  ChatRest'
    BY <2>4, TurnsGoOnOrEnd
  <2>5. CASE Chat!ReadClick
    BY <2>5, ClicksGoOn
  <2>6. CASE \/ \E s \in Sessions : Chat!Subscribe(s) \/ Chat!Unsubscribe(s) \/ Chat!Delete(s)
             \/ Chat!Configure \/ Chat!Refresh \/ Chat!Crash
    <3>1. Chat!Edit
      BY <2>6 DEF Chat!Subscribe, Chat!Unsubscribe, Chat!Delete, Chat!Configure,
         Chat!Refresh, Chat!Crash
    <3> QED
      BY <2>6, <3>1, SettingsGoOn
  <2> QED
    BY <1>1, <2>1, <2>2, <2>3, <2>4, <2>5, <2>6 DEF Chat!Next
<1>6. ShellRest'
  <2>1. UNCHANGED shellVars => ShellRest'
    BY DEF shellVars, ShellRest
  <2> QED
    BY <1>1, <2>1, ShellRestStep DEF ShellInv
<1>7. McpRest'
  <2>1. UNCHANGED clientVars => McpRest'
    BY DEF clientVars, McpRest
  <2> QED
    BY <1>1, <2>1, McpRestStep
<1> QED
  BY <1>1, <1>2, <1>3, <1>4, <1>5, <1>6, <1>7

(* Every variable of every part keeps to the values it is declared with.   *)
THEOREM PartsAreTyped == Spec => []TypeOK
<1>1. AllInv => TypeOK
  <2> SUFFICES ASSUME AllInv PROVE TypeOK
    OBVIOUS
  <2>1. /\ Chat!TypeOK /\ Bridge!TypeOK /\ Tool!TypeOK
        /\ Store!TypeOK /\ Client!TypeOK /\ Kit!TypeOK
    BY ChatTypeOK, BridgeTypeOK, ShellTypeOK, AccountsTypeOK, McpTypeOK, KitTypeOK
       DEF AllInv, BridgeInv, ShellInv, AccountInv
  <2>2. part \in Parts
    BY DEF AllInv
  <2> QED
    BY <2>1, <2>2 DEF TypeOK, Parts
<1> QED
  BY <1>1, AllInit, AllNext, PTL DEF Spec
=============================================================================
