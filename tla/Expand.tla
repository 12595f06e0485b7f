--------------------------------- MODULE Expand ---------------------------------
(***************************************************************************)
(* defaultsExpand: a string of a configuration becomes its value.  What    *)
(* $NAME stands for is expanded in turn, and so is the text of a command   *)
(* $(...), which is run and replaced by what it prints.  All of it goes    *)
(* into one buffer, that of the caller; the recursion is a stack here.     *)
(***************************************************************************)
EXTENDS Integers, Sequences, FiniteSets

CONSTANTS
  Contexts,     \* the nodes in which strings are expanded
  Chars,        \* characters; an escaped dollar is one
  Names,        \* what may follow a dollar,
  Table,        \* and those of them that vardefs defines
  Value,        \* Value[name][node]: what the name stands for, <<>> if nothing
  Commands,     \* commands that strings contain
  Text,         \* Text[command]: the command as it is written
  Prints,       \* Prints[command]: what it prints
  Small         \* MAX_CYAML_FORMAT_STR: the size of most buffers

Token == Chars \cup Names \cup Commands

String == Seq(Token)

ASSUME ExpandAssumption ==
  /\ Chars \cap Names = {} /\ Chars \cap Commands = {} /\ Names \cap Commands = {}
  /\ IsFiniteSet(Names) /\ Table \subseteq Names
  /\ \A n \in Names : \A c \in Contexts : Value[n][c] \in String
  /\ \A c \in Commands : Text[c] \in String /\ Prints[c] \in Seq(Chars)
  /\ Small \in Nat \ {0}

VARIABLES
  frames,     \* strings under expansion, each in the one before it
  buffer,     \* outputS
  line,       \* the command under expansion
  answer,     \* "run", then "ok" or "fail"
  overrun     \* a terminating zero was written behind its buffer

expandVars == <<frames, buffer, line, answer, overrun>>

(* The rest of a string, whether its commands are run, and where it goes.  *)
Frame == [rest : String, withcmd : BOOLEAN, into : {"buffer", "line"}]

Top == frames[Len(frames)]

First == Head(Top.rest)

(* The strings once the next token of the innermost is dealt with.         *)
Shortened(stack) == [stack EXCEPT ![Len(stack)].rest = Tail(@)]

ExpandStart(string, withcmd, begun) ==
  /\ frames' = <<[rest |-> string, withcmd |-> withcmd, into |-> "buffer"]>>
  /\ buffer' = begun
  /\ line' = <<>>
  /\ answer' = "run"

Refuse ==
  /\ answer' = "fail"
  /\ frames' = <<>>

Running == answer = "run" /\ frames # <<>>

(* Mutant: the last place of the buffer is taken for a free one.           *)
PutChar_Beyond(size) ==
  /\ Running /\ Top.rest # <<>> /\ First \in Chars
  /\ IF Top.into = "buffer"
       THEN buffer' = Append(buffer, First) /\ UNCHANGED line /\ Len(buffer) <= size
       ELSE line' = Append(line, First) /\ UNCHANGED buffer
  /\ frames' = Shortened(frames)
  /\ UNCHANGED <<answer, overrun>>

(* A character goes to the buffer, of the given size, or to the command.   *)
PutChar(size) ==
  /\ Running /\ Top.rest # <<>> /\ First \in Chars
  /\ \/ /\ Top.into = "buffer" /\ Len(buffer) < size
        /\ buffer' = Append(buffer, First)
        /\ frames' = Shortened(frames)
        /\ UNCHANGED <<line, answer>>
     \/ /\ Top.into = "line" /\ Len(line) < Small
        /\ line' = Append(line, First)
        /\ frames' = Shortened(frames)
        /\ UNCHANGED <<buffer, answer>>
     \/ /\ Len(IF Top.into = "buffer" THEN buffer ELSE line)
             = IF Top.into = "buffer" THEN size ELSE Small
        /\ Refuse
        /\ UNCHANGED <<buffer, line>>
  /\ UNCHANGED overrun

Meant(name, node) == Value[name][node]

(* Mutant: what a name stands for may run commands if the string may.      *)
Inner_Inherits(string) == [rest |-> string, withcmd |-> Top.withcmd, into |-> Top.into]

(* The commands of a value are not run.                                    *)
Inner(string) == [rest |-> string, withcmd |-> FALSE, into |-> Top.into]

(* getDefault: a value of the table goes through a buffer of its own, one  *)
(* of the environment does not.                                            *)
GetDefault(node) ==
  /\ Running /\ Top.rest # <<>> /\ First \in Names
  /\ IF First \in Table /\ Len(Meant(First, node)) >= Small
       THEN Refuse
       ELSE frames' = Append(Shortened(frames), Inner(Meant(First, node))) /\ UNCHANGED answer
  /\ UNCHANGED <<buffer, line, overrun>>

(* A command that is not to be run is an unknown name: nothing.            *)
SkipCommand ==
  /\ Running /\ Top.rest # <<>> /\ First \in Commands /\ ~ Top.withcmd
  /\ frames' = Shortened(frames)
  /\ UNCHANGED <<buffer, line, answer, overrun>>

ReadCommand ==
  /\ Running /\ Top.rest # <<>> /\ First \in Commands /\ Top.withcmd
  /\ frames' = Append(frames, [rest |-> Text[First], withcmd |-> FALSE, into |-> "line"])
  /\ line' = <<>>
  /\ UNCHANGED <<buffer, answer, overrun>>

(* ExecCmd: what the command has printed must be something, and leave one  *)
(* place in the buffer.                                                    *)
Printed(command, size) ==
  /\ Prints[command] # <<>>
  /\ Len(Prints[command]) < size

(* Is the innermost string a whole command?                                *)
CommandRead ==
  /\ Running /\ Top.rest = <<>> /\ Top.into = "line"
  /\ frames[Len(frames) - 1].into = "buffer"

RunCommand(size) ==
  /\ CommandRead
  /\ overrun' = (overrun \/ Len(line) = Small)
  /\ LET below == SubSeq(frames, 1, Len(frames) - 1)
         command == Head(below[Len(below)].rest)
     IN \/ /\ Printed(command, size - Len(buffer))
           /\ buffer' = buffer \o Prints[command]
           /\ frames' = Shortened(below)
           /\ UNCHANGED answer
        \/ ~ Printed(command, size - Len(buffer)) /\ Refuse /\ UNCHANGED buffer
  /\ UNCHANGED line

(* The fork or the file for the output fails.                              *)
CommandFails ==
  /\ CommandRead
  /\ Refuse
  /\ UNCHANGED <<buffer, line, overrun>>

ExpandReturns ==
  /\ Running /\ Top.rest = <<>> /\ ~ CommandRead
  /\ frames' = SubSeq(frames, 1, Len(frames) - 1)
  /\ answer' = IF Len(frames) = 1 THEN "ok" ELSE "run"
  /\ UNCHANGED <<buffer, line, overrun>>

ExpandStep(node, size) ==
  \/ PutChar(size) \/ GetDefault(node) \/ SkipCommand \/ ReadCommand
  \/ RunCommand(size) \/ ExpandReturns

-----------------------------------------------------------------------------
(* Properties.                                                             *)

(* The variables keep their types, and a command its buffer.               *)
ExpandTypeOK ==
  /\ frames \in Seq(Frame)
  /\ buffer \in Seq(Chars)
  /\ line \in Seq(Chars) /\ Len(line) <= Small
  /\ answer \in {"run", "ok", "fail"}
  /\ overrun \in BOOLEAN

(* The tokens of a string.                                                 *)
Held(string) == {string[m] : m \in 1..Len(string)}

(* What a token means, and a string, given what names do.                  *)
TokenMeaning(named, withcmd, token) ==
  IF token \in Chars THEN <<token>>
  ELSE IF token \in Commands THEN (IF withcmd THEN Prints[token] ELSE <<>>)
  ELSE named[token]

Meaning(named, withcmd) ==
  LET meaning[string \in String] ==
        IF string = <<>> THEN <<>>
        ELSE TokenMeaning(named, withcmd, Head(string)) \o meaning[Tail(string)]
  IN meaning

(* What names mean in a node, looked into n times.                         *)
LookedInto(node) ==
  LET looked[n \in Nat] ==
        [name \in Names |->
           IF n = 0 THEN <<>> ELSE Meaning(looked[n - 1], FALSE)[Meant(name, node)]]
  IN looked

(* No name is defined by itself: each by names of a lower rank.            *)
NoLoop(node) ==
  \E rank \in [Names -> 1..Cardinality(Names)] :
    \A name \in Names : \A n \in Names \cap Held(Meant(name, node)) : rank[n] < rank[name]

(* Names looked into so often mean all they mean if there is no loop.      *)
NameMeaning(node) == LookedInto(node)[Cardinality(Names)]

Means(string, node, withcmd) == Meaning(NameMeaning(node), withcmd)[string]

(* The names that need a value of the table that does not fit its buffer,  *)
(* looked into n times.                                                    *)
UnfitInto(node) ==
  LET unfit[n \in Nat] ==
        {name \in Names :
           \/ name \in Table /\ Len(Meant(name, node)) >= Small
           \/ n > 0 /\ Held(Meant(name, node)) \cap unfit[n - 1] # {}}
  IN unfit

Unfit(node) == UnfitInto(node)[Cardinality(Names)]

TooLong(string, node) == Held(string) \cap Unfit(node) # {}
=============================================================================
