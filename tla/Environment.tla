------------------------------ MODULE Environment ------------------------------
(***************************************************************************)
(* The environment that redwrap gives to the program: a variable for each  *)
(* one that mixVariables hands over, by set_one_envvar, and in the end     *)
(* PATH and LD_LIBRARY_PATH, which mixPaths makes of what each             *)
(* configuration of the family says, from the leaf to the root, the        *)
(* administrator's first in each node.                                     *)
(***************************************************************************)
EXTENDS Expand

CONSTANTS
  Nodes,        \* the number of nodes, from the leaf (0) to the root
  Colon,        \* the character between the elements of a path
  VarNames,     \* names of variables, those of Searched among them
  Searched,     \* PATH and LD_LIBRARY_PATH, in the order they are merged
  Inherited,    \* their values in the environment of redwrap, <<>> if none
  Large,        \* the size of mixPaths' buffer
  Output,       \* the size of the buffer of set_one_envvar
  Missing       \* the path of a configuration that has none

Where == (0..(Nodes - 1)) \X {0, 1}

(* What is to be executed is a command.                                    *)
Variable ==
  {v \in [name : VarNames, mode : {"Static", "Execfd", "Default", "Remove", "Inherit"},
          value : String, node : Contexts] :
     v.mode = "Execfd" => v.value # <<>> /\ Head(v.value) \in Commands}

(* No variable is merged twice.                                            *)
Variables == {s \in Seq(Variable) : \A m, n \in 1..Len(s) : s[m].name = s[n].name => m = n}

SearchedNames == {Searched[n] : n \in 1..Len(Searched)}

Wish ==
  [variables : Variables, paths : [SearchedNames -> [Where -> String \cup {Missing}]]]

ASSUME EnvironmentAssumption ==
  /\ Nodes \in Nat \ {0}
  /\ Contexts = 0..(Nodes - 1)
  /\ Colon \in Chars
  /\ Searched \in Seq(VarNames)
  /\ \A v \in VarNames : Inherited[v] \in Seq(Chars)
  /\ Large \in Nat \ {0} /\ Output \in Nat \ {0}
  /\ Missing \notin String

VARIABLES
  wish,       \* the merged variables, and the paths, of the family
  part,       \* "variables", then "paths", then "set" or "refused"
  index,      \* the variable to be set next, then the path
  place,      \* the configuration to be read next
  expanding,  \* a string is being expanded
  setting,    \* what the arguments of bwrap make of each variable
  null        \* one of these arguments is NULL: bwrap reads no further

ownVars == <<wish, part, index, place, expanding, setting, null>>

envVars == <<expandVars, ownVars>>

(* Left as it was, removed, or set to a value, which in one case is what   *)
(* happens to lie in a buffer.                                             *)
Setting == [how : {"kept", "removed", "set", "garbage"}, value : String]

Kept == [how |-> "kept", value |-> <<>>]

SetTo(string) == [how |-> "set", value |-> string]

Garbage == [how |-> "garbage", value |-> <<>>]

EnvironmentStart ==
  /\ frames = <<>> /\ buffer = <<>> /\ line = <<>> /\ answer = "ok" /\ overrun = FALSE
  /\ part = "variables"
  /\ index = 1 /\ place = <<0, 1>>
  /\ expanding = FALSE
  /\ setting = [v \in VarNames |-> Kept]
  /\ null = FALSE

Current == wish.variables[index]

AtVariable == part = "variables" /\ index <= Len(wish.variables) /\ ~ expanding

(* A value is added to the arguments, behind a NULL in vain.               *)
Give(name, value) ==
  setting' = IF null THEN setting ELSE [setting EXCEPT ![name] = value]

Advance == index' = index + 1 /\ UNCHANGED <<wish, part, place, expanding, null, expandVars>>

(* set_one_envvar, the modes that expand nothing.                          *)
SetStatic ==
  /\ AtVariable /\ Current.mode = "Static"
  /\ Give(Current.name, SetTo(Current.value))
  /\ Advance

SetRemove ==
  /\ AtVariable /\ Current.mode = "Remove"
  /\ Give(Current.name, [how |-> "removed", value |-> <<>>])
  /\ Advance

SetInherit ==
  /\ AtVariable /\ Current.mode = "Inherit"
  /\ Give(Current.name, SetTo(Inherited[Current.name]))
  /\ Advance

(* That the command has failed is not looked at, the buffer is copied.     *)
SetExecfd ==
  /\ AtVariable /\ Current.mode = "Execfd"
  /\ LET command == Head(Current.value) IN
       IF Printed(command, Output)
         THEN Give(Current.name, SetTo(Prints[command]))
         ELSE Give(Current.name, Garbage)
  /\ Advance

ExecfdFails ==
  /\ AtVariable /\ Current.mode = "Execfd"
  /\ Give(Current.name, Garbage)
  /\ Advance

StartDefault ==
  /\ AtVariable /\ Current.mode = "Default"
  /\ ExpandStart(Current.value, TRUE, <<>>)
  /\ expanding' = TRUE
  /\ UNCHANGED <<wish, part, index, place, setting, null, overrun>>

(* RedNodeStringExpand gives NULL when the expansion has failed.           *)
SetDefault ==
  /\ part = "variables" /\ expanding /\ answer # "run"
  /\ \/ /\ answer = "ok"
        /\ Give(Current.name, SetTo(buffer))
        /\ UNCHANGED null
     \/ /\ answer = "fail"
        /\ null' = TRUE
        /\ UNCHANGED setting
  /\ index' = index + 1
  /\ expanding' = FALSE
  /\ UNCHANGED <<wish, part, place, expandVars>>

VariablesSet ==
  /\ part = "variables" /\ ~ expanding /\ index > Len(wish.variables)
  /\ part' = "paths"
  /\ index' = 1
  /\ buffer' = <<>>
  /\ UNCHANGED <<wish, place, expanding, setting, null, frames, line, answer, overrun>>

-----------------------------------------------------------------------------
(* Where the last colon is; 0 if there is none.                            *)
LastColon(path) ==
  CHOOSE n \in 0..Len(path) :
    /\ n = 0 \/ path[n] = Colon
    /\ \A m \in (n + 1)..Len(path) : path[m] # Colon

(* The elements of a path: what lies between colons, if anything does.     *)
Elements[path \in Seq(Chars)] ==
  IF path = <<>> THEN <<>>
  ELSE Elements[SubSeq(path, 1, LastColon(path) - 1)]
         \o (IF LastColon(path) = Len(path) THEN <<>>
             ELSE <<SubSeq(path, LastColon(path) + 1, Len(path))>>)

(* Elements joined by colons, those that come again left out.              *)
Joined[elements \in Seq(Seq(Chars))] ==
  IF elements = <<>> THEN <<>>
  ELSE LET last == Len(elements)
           before == Joined[SubSeq(elements, 1, last - 1)]
       IN IF \E m \in 1..(last - 1) : elements[m] = elements[last] THEN before
          ELSE IF before = <<>> THEN elements[last]
          ELSE before \o <<Colon>> \o elements[last]

Clean(path) == Joined[Elements[path]]

PathHere == wish.paths[Searched[index]][place]

AtPlace == part = "paths" /\ index <= Len(Searched) /\ place[1] < Nodes

(* Mutant: the administrator's configuration comes last in each node.      *)
PlaceAfter_Reversed ==
  IF place[2] = 0 THEN <<place[1], 1>> ELSE <<place[1] + 1, 0>>

PlaceAfter ==
  IF place[2] = 1 THEN <<place[1], 0>> ELSE <<place[1] + 1, 1>>

SkipPlace ==
  /\ AtPlace /\ ~ expanding /\ PathHere = Missing
  /\ place' = PlaceAfter
  /\ UNCHANGED <<wish, part, index, expanding, setting, null, expandVars>>

(* RedConfAppendExpandedPath: behind a colon, into the same buffer.        *)
StartPath ==
  /\ AtPlace /\ ~ expanding /\ PathHere # Missing
  /\ \/ /\ Len(buffer) < Large
        /\ ExpandStart(PathHere, FALSE, IF buffer = <<>> THEN <<>> ELSE Append(buffer, Colon))
        /\ expanding' = TRUE
        /\ UNCHANGED part
     \/ /\ Len(buffer) >= Large
        /\ part' = "refused"
        /\ UNCHANGED <<frames, buffer, line, answer, expanding>>
  /\ UNCHANGED <<wish, index, place, setting, null, overrun>>

(* Elements that are there already are taken out, and a zero ends it all.  *)
AppendPath ==
  /\ part = "paths" /\ expanding /\ answer = "ok"
  /\ buffer' = Clean(buffer)
  /\ overrun' = (overrun \/ Len(Clean(buffer)) = Large)
  /\ expanding' = FALSE
  /\ place' = PlaceAfter
  /\ UNCHANGED <<wish, part, index, setting, null, frames, line, answer>>

PathFails ==
  /\ part = "paths" /\ expanding /\ answer = "fail"
  /\ part' = "refused"
  /\ UNCHANGED <<wish, index, place, expanding, setting, null, expandVars>>

(* The callback, if there is a path; then LD_LIBRARY_PATH.                 *)
SetPath ==
  /\ part = "paths" /\ index <= Len(Searched) /\ place[1] = Nodes
  /\ IF buffer # <<>> THEN Give(Searched[index], SetTo(buffer)) ELSE UNCHANGED setting
  /\ buffer' = <<>>
  /\ place' = <<0, 1>>
  /\ index' = index + 1
  /\ UNCHANGED <<wish, part, expanding, null, frames, line, answer, overrun>>

PathsSet ==
  /\ part = "paths" /\ index > Len(Searched)
  /\ part' = "set"
  /\ UNCHANGED <<wish, index, place, expanding, setting, null, expandVars>>

Context == IF part = "variables" THEN Current.node ELSE place[1]

Size == IF part = "variables" THEN Small ELSE Large

ExpandOnward ==
  /\ expanding
  /\ ExpandStep(Context, Size)
  /\ UNCHANGED ownVars

(* set_exports_and_vars, the variables                                     *)
VariableStep ==
  \/ SetStatic \/ SetRemove \/ SetInherit \/ SetExecfd \/ StartDefault \/ SetDefault
  \/ VariablesSet
  \/ part = "variables" /\ ExpandOnward

(* A command cannot be started.                                            *)
VariableFailure ==
  \/ ExecfdFails
  \/ part = "variables" /\ expanding /\ CommandFails /\ UNCHANGED ownVars

(* set_special_confvar                                                     *)
PathStep ==
  \/ SkipPlace \/ StartPath \/ AppendPath \/ PathFails \/ SetPath \/ PathsSet
  \/ part = "paths" /\ ExpandOnward

-----------------------------------------------------------------------------
(* Properties.                                                             *)

(* The variables keep their types, and no buffer is filled beyond its end. *)
EnvironmentTypeOK ==
  /\ ExpandTypeOK
  /\ Len(buffer) <= Size
  /\ wish \in Wish
  /\ part \in {"variables", "paths", "set", "refused"}
  /\ index \in Nat
  /\ place \in (0..Nodes) \X {0, 1}
  /\ expanding \in BOOLEAN
  /\ setting \in [VarNames -> Setting]
  /\ null \in BOOLEAN

(* The path of this name says something in some configuration.             *)
PathElements(name, p) ==
  IF wish.paths[name][p] = Missing THEN <<>>
  ELSE Elements[Means(wish.paths[name][p], p[1], FALSE)]

OwnPath(name) ==
  name \in SearchedNames /\ \E p \in Where : PathElements(name, p) # <<>>

(* A variable is as it was asked for: what it says is expanded as it means *)
(* in the node that said it.                                               *)
AsAsked(v) ==
  CASE v.mode = "Default" -> setting[v.name] = SetTo(Means(v.value, v.node, TRUE))
    [] v.mode = "Static" -> setting[v.name] = SetTo(v.value)
    [] v.mode = "Remove" -> setting[v.name].how = "removed"
    [] v.mode = "Inherit" -> setting[v.name] = SetTo(Inherited[v.name])
    [] v.mode = "Execfd" -> setting[v.name] \in {SetTo(Prints[Head(v.value)]), Garbage}

(* Each variable of the families is as it was asked for, whole: nothing is *)
(* cut off or left out because it did not fit, and no other variable is in *)
(* its way but the two paths, where the configurations have some.          *)
VariablesWhole ==
  part = "set" /\ ~ null /\ ~ overrun =>
    \A n \in 1..Len(wish.variables) :
      ~ OwnPath(wish.variables[n].name) => AsAsked(wish.variables[n])

(* x of p is listed before y of q: the node is nearer to the leaf, or the  *)
(* configuration is the administrator's, or x comes first in it.           *)
Ahead(p, m, q, n) ==
  \/ p[1] < q[1]
  \/ p[1] = q[1] /\ p[2] > q[2]
  \/ p = q /\ m < n

(* x is said there first: nowhere ahead of it.                             *)
FirstSaid(name, x, p, m) ==
  /\ m \in 1..Len(PathElements(name, p)) /\ PathElements(name, p)[m] = x
  /\ \A q \in Where : \A n \in 1..Len(PathElements(name, q)) :
       PathElements(name, q)[n] = x => ~ Ahead(q, n, p, m)

(* x is said for the first time before y is.                               *)
Precedes(name, x, y) ==
  \E p, q \in Where :
    \E m \in 1..Len(PathElements(name, p)), n \in 1..Len(PathElements(name, q)) :
      FirstSaid(name, x, p, m) /\ FirstSaid(name, y, q, n) /\ Ahead(p, m, q, n)

(* These are all the elements of the path of this name, none twice, in the *)
(* order in which they are said first.                                     *)
Lists(items, name) ==
  /\ Held(items) = UNION {Held(PathElements(name, p)) : p \in Where}
  /\ \A m, n \in 1..Len(items) : m < n => Precedes(name, items[m], items[n])

(* The rule of the merge of paths: items of a child before those of its    *)
(* parents, items of the administrator before normal ones, none twice, and *)
(* none lost.                                                              *)
PathsInOrder ==
  part = "set" /\ ~ null /\ ~ overrun =>
    \A name \in SearchedNames : OwnPath(name) => Lists(Elements[setting[name].value], name)

(* A variable that cannot be expanded has a reason: it is too long, or it  *)
(* has a command that prints nothing or is too long.                       *)
BadVariable(v) ==
  /\ v.mode = "Default"
  /\ \/ Len(Means(v.value, v.node, TRUE)) >= Small
     \/ TooLong(v.value, v.node)
     \/ \E command \in Commands \cap Held(v.value) :
          \/ Prints[command] = <<>>
          \/ TooLong(Text[command], v.node)
          \/ Len(Means(Text[command], v.node, FALSE)) > Small

(* So has a path: a value it needs is too long, or what the configurations *)
(* say of it in all the nodes is, elements that come again included.       *)
PathLength(name, p) ==
  IF wish.paths[name][p] = Missing THEN 0
  ELSE Len(Means(wish.paths[name][p], p[1], FALSE)) + 1

LengthBefore(name) ==
  LET before[depth \in 0..Nodes] ==
        IF depth = 0 THEN 0
        ELSE before[depth - 1] + PathLength(name, <<depth - 1, 1>>) + PathLength(name, <<depth - 1, 0>>)
  IN before

BadPath(name) ==
  \/ \E p \in Where : wish.paths[name][p] # Missing /\ TooLong(wish.paths[name][p], p[1])
  \/ LengthBefore(name)[Nodes] > Large + 1
=============================================================================
