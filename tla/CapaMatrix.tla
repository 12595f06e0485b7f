------------------------------- MODULE CapaMatrix -------------------------------
(***************************************************************************)
(* The merge of capabilities compared with the table that documents it.    *)
(***************************************************************************)
EXTENDS MixWalk, MergeTable

(* The walk over capabilities: none of them is private.                    *)
CapaNext == NextConfig \/ NewKey \/ SeenKey \/ Send \/ Return

CapaSpec == Init /\ [][CapaNext]_vars

(* What a configuration says of key k: its first definition.               *)
Said(d, admin, k) ==
  LET about == {i \in 1..Len(conf[d][admin]) : conf[d][admin][i].key = k}
  IN IF about = {} THEN Unset
     ELSE Cell(conf[d][admin][CHOOSE i \in about : \A j \in about : i <= j].val, admin)

Column(k) == [d \in Depth |-> [a \in Rank |-> Said(d, a, k)]]

TableSays(k) == EffectOf(Column(k), Height)

(* No configuration says two things of a key: the table has no row for it. *)
OneVoice ==
  \A d \in Depth, a \in Rank : \A i, j \in 1..Len(conf[d][a]) :
    conf[d][a][i].key = conf[d][a][j].key => conf[d][a][i].val = conf[d][a][j].val

(* When both the merge and the table accept a family, they agree on the    *)
(* value of every capability, and on those that have none.                 *)
AgreesWithMatrix ==
  rc = "ok" => \A k \in Keys : TableSays(k) # Error =>
    LET values == {sent[n].val : n \in {m \in 1..Len(sent) : sent[m].key = k}}
    IN values = IF TableSays(k) = Unset THEN {} ELSE {TableSays(k).val}

(* The merge refused the definition under the cursor (and no callback did). *)
Refused == rc = "fail" /\ at.index <= Len(Here)

(* Walking up where the table goes down, the merge refuses what the table  *)
(* marks ERROR, but for conflicts that a nearer node has settled; and it   *)
(* refuses nothing else, but for a conflict of normal nodes that it meets  *)
(* before the administrator who has settled it.  Both take three nodes: of *)
(* two, the merge and the table refuse the same.                           *)
RefusesAsMatrix ==
  OneVoice =>
    /\ rc \in {"send", "ok"} => \A k \in Keys :
         TableSays(k) = Error => SettledNearer(Column(k), Height)
    /\ Refused => \E k \in Keys :
         TableSays(k) = Error \/ SettledFarther(Column(k), Height)
=============================================================================
