------------------------------- MODULE MergeTable -------------------------------
(***************************************************************************)
(* The table that documents the merge of capabilities and, in the same     *)
(* rows, that of sharings; and what it makes of a whole family when it is  *)
(* applied, as it is written, from the root down: the effect of a parent   *)
(* is the PARENT column of its child.                                      *)
(*                                                                         *)
(* A column holds what the configurations of a family say of one key, at   *)
(* column[depth][admin]: 1 grants, enables or joins, 0 drops or disables.  *)
(***************************************************************************)
EXTENDS Integers

Cell(val, admin) == [val |-> val, admin |-> admin]

Unset == Cell(-1, 0)
Error == Cell(-2, 0)

(* The column EFFECT, from the columns PARENT, NORMAL and ADMIN.           *)
Effect(parent, normal, admin) ==
  CASE parent = Error -> Error
    [] parent # Error /\ parent.admin = 1 ->
         (CASE admin = Unset                 -> parent
            [] admin.val = 1 /\ parent.val = 0 -> Error
            [] OTHER                         -> admin)
    [] parent # Error /\ parent.admin = 0 ->
         (CASE admin # Unset                  -> admin
            [] admin = Unset /\ normal = Unset -> parent
            [] admin = Unset /\ normal.val = 1 /\ parent.val = 0 -> Error
            [] OTHER                          -> normal)

(* The effect of the n nodes nearest to the root, and of the family.       *)
EffectFrom(column, height) ==
  LET effect[n \in 0..height] ==
        IF n = 0 THEN Unset
        ELSE Effect(effect[n - 1], column[height - n][0], column[height - n][1])
  IN effect

EffectOf(column, height) == EffectFrom(column, height)[height]

Speaks(column, depth, admin) == column[depth][admin] # Unset

Grants(column, depth, admin) == column[depth][admin].val = 1

Drops(column, depth, admin) == column[depth][admin].val = 0

(* The node at depth c grants what its ancestor at depth d drops, in       *)
(* configurations of the same rank, and no administrator from c on speaks  *)
(* of it if they are normal ones.  The walk from the leaf meets c first.   *)
Conflict(column, height, c, d, a) ==
  /\ c < d /\ Grants(column, c, a) /\ Drops(column, d, a)
  /\ a = 0 => \A e \in c..(height - 1) : ~ Speaks(column, e, 1)

(* Each conflict has been settled before the walk meets it: a nearer       *)
(* administrator has spoken, or a nearer node drops the key by itself.     *)
SettledNearer(column, height) ==
  \A c, d \in 0..(height - 1), a \in {0, 1} :
    Conflict(column, height, c, d, a) =>
      \E b \in 0..(c - 1) : Speaks(column, b, 1) \/ Drops(column, b, a)

(* A normal node grants what a normal ancestor drops, no administrator has *)
(* spoken up to there, and one farther to the root has settled the matter. *)
SettledFarther(column, height) ==
  \E c, d, f \in 0..(height - 1) :
    /\ c < d /\ d < f
    /\ Grants(column, c, 0) /\ Drops(column, d, 0) /\ Speaks(column, f, 1)
    /\ \A b \in 0..d : ~ Speaks(column, b, 1)
=============================================================================
