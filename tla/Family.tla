--------------------------------- MODULE Family ---------------------------------
(***************************************************************************)
(* The configurations a merge works on: a leaf node and its ancestors,     *)
(* each with an administrator's configuration and a normal one, each a     *)
(* list of definitions.  One list is looked at here: the environment       *)
(* variables, the capabilities or the exports.                             *)
(***************************************************************************)
EXTENDS Integers, Sequences

CONSTANTS
  Height,     \* number of nodes, from the leaf (depth 0) to the root
  Kind,       \* "variable", "capability" or "export"
  Keys,       \* names, up to case; expanded mount points, in the order of strcmp
  Modes,      \* modes of variables and exports
  Vals,       \* values; for a capability, what `add' is: 0 or 1
  Null,       \* the value of a definition that has none
  Privates,   \* the modes of RED_EXPORT_PRIVATES
  Configs     \* the lists of definitions that configurations may hold

Def == [key : Keys, mode : Modes, val : Vals]

ASSUME FamilyAssumption ==
  /\ Height \in Nat \ {0}
  /\ Kind \in {"variable", "capability", "export"}
  /\ Keys \subseteq Int
  /\ Kind = "capability" => Vals \subseteq Int
  /\ Configs \subseteq Seq(Def)

VARIABLE conf   \* conf[depth][admin], empty when the node has no such configuration

Rank == {0, 1}  \* `admin' in the code: 1 for the administrator's configuration

Depth == 0..(Height - 1)

Families == [Depth -> [Rank -> Configs]]

(* Place <<d, a, i>> holds a definition, and one that the leaf may inherit. *)
Visible(d, a, i) ==
  /\ i \in 1..Len(conf[d][a])
  /\ ~ (Kind = "export" /\ d > 0 /\ conf[d][a][i].mode \in Privates)

(* The order of the walk: leaf first, administrator first.                 *)
Earlier(d, a, i, e, b, j) ==
  \/ d < e
  \/ d = e /\ a > b
  \/ d = e /\ a = b /\ i < j

(* What prevails: the administrators, whatever their depth; then what is   *)
(* nearer to the leaf; then what comes first.                              *)
Over(d, a, i, e, b, j) ==
  \/ a > b
  \/ a = b /\ Earlier(d, a, i, e, b, j)

(* def is what the family says of its key.                                 *)
Prevails(def) ==
  \E d \in Depth, a \in Rank : \E i \in 1..Len(conf[d][a]) :
    /\ Visible(d, a, i)
    /\ conf[d][a][i] = def
    /\ \A e \in Depth, b \in Rank : \A j \in 1..Len(conf[e][b]) :
         Visible(e, b, j) /\ conf[e][b][j].key = def.key
           => <<e, b, j>> = <<d, a, i>> \/ Over(d, a, i, e, b, j)

(* Something in the family is about key k.                                 *)
Mentioned(k) ==
  \E d \in Depth, a \in Rank : \E i \in 1..Len(conf[d][a]) :
    Visible(d, a, i) /\ conf[d][a][i].key = k
=============================================================================
