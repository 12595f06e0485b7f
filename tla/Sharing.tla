-------------------------------- MODULE Sharing --------------------------------
(***************************************************************************)
(* mixShares: the merge of the sharings of a family of nodes, that is, of  *)
(* what each configuration says of each namespace: share that of the host, *)
(* have one of its own, or join the one of a file.  The walk goes from the *)
(* leaf to the root, the administrator's configuration first in each node. *)
(***************************************************************************)
EXTENDS MergeTable

CONSTANTS
  Height,     \* number of nodes, from the leaf (depth 0) to the root
  Items,      \* "all", "time" and other namespaces
  Paths       \* files of namespaces to join

ASSUME SharingAssumption ==
  /\ Height \in Nat \ {0}
  /\ {"all", "time"} \subseteq Items
  /\ Paths \cap {"unset", "enabled", "disabled"} = {}

VARIABLES
  conf,       \* conf[depth][admin]: the settings; a missing file sets nothing
  at,         \* the configuration to be merged next
  share,      \* what is merged so far
  rc          \* "walk", then "ok" or "fail"

sharingVars == <<conf, at, share, rc>>

Depth == 0..(Height - 1)

Rank == {0, 1}  \* `admin' in the code

Settings == {"unset", "enabled", "disabled"} \cup Paths

(* The type of a setting; only the types are compared.                     *)
Type(value) == IF value \in Paths THEN "join" ELSE value

Families == [Depth -> [Rank -> [Items -> Settings]]]

Share == [value : Settings, admin : Rank]

Nothing == [value |-> "unset", admin |-> 0]

(* A configuration settles what no other has, and what no administrator's  *)
(* has when it is one.                                                     *)
Settles(old, value, admin) ==
  /\ value # "unset"
  /\ \/ old.value = "unset"
     \/ admin = 1 /\ old.admin = 0

(* Mutant: a normal setting is compared even below an administrator's.     *)
Refuses_Normal(old, value, admin) ==
  /\ ~ Settles(old, value, admin)
  /\ value = "disabled" /\ old.value # "disabled"

(* Mutant: the comparison is the wrong way round.                          *)
Refuses_Swapped(old, value, admin) ==
  /\ value # "unset" /\ ~ Settles(old, value, admin)
  /\ ~ (admin = 0 /\ old.admin = 1)
  /\ Type(value) # "disabled" /\ Type(old.value) = "disabled"

(* What the nearer node shares is forbidden by this one, of equal rank.    *)
Refuses(old, value, admin) ==
  /\ value # "unset" /\ ~ Settles(old, value, admin)
  /\ ~ (admin = 0 /\ old.admin = 1)
  /\ Type(value) = "disabled" /\ Type(old.value) # "disabled"

MixShare(old, value, admin) ==
  IF Settles(old, value, admin) THEN [value |-> value, admin |-> admin] ELSE old

SharingStart ==
  /\ at = [depth |-> 0, admin |-> 1]
  /\ share = [i \in Items |-> Nothing]
  /\ rc = "walk"

SharingInit == conf \in Families /\ SharingStart

(* Mutant: the root is not seen to be the last.                            *)
Onward_Beyond ==
  /\ at' = IF at.admin = 1 THEN [at EXCEPT !.admin = 0]
           ELSE [depth |-> at.depth + 1, admin |-> 1]
  /\ UNCHANGED rc

(* On to the normal configuration, to the parent, or to the callback.      *)
Onward ==
  \/ /\ at.admin = 1
     /\ at' = [at EXCEPT !.admin = 0]
     /\ UNCHANGED rc
  \/ /\ at.admin = 0 /\ at.depth + 1 < Height
     /\ at' = [depth |-> at.depth + 1, admin |-> 1]
     /\ UNCHANGED rc
  \/ /\ at.admin = 0 /\ at.depth + 1 = Height
     /\ rc' = "ok"
     /\ UNCHANGED at

(* One configuration.  An item that is refused ends the merge, and what    *)
(* was merged is not looked at any more.                                   *)
MixSharings ==
  /\ rc = "walk"
  /\ LET Refused(i) == Refuses(share[i], conf[at.depth][at.admin][i], at.admin)
     IN \/ /\ \A i \in Items : ~ Refused(i)
           /\ share' = [i \in Items |->
                          MixShare(share[i], conf[at.depth][at.admin][i], at.admin)]
           /\ Onward
        \/ /\ \E i \in Items : Refused(i)
           /\ rc' = "fail"
           /\ UNCHANGED <<share, at>>
  /\ UNCHANGED conf

SharingSpec == SharingInit /\ [][MixSharings]_sharingVars

(* What the callback receives: all namespaces but that of time follow      *)
(* share_all when nothing is said of them.                                 *)
Merged(i) ==
  IF share[i].value = "unset" /\ i # "time" THEN share["all"].value ELSE share[i].value

-----------------------------------------------------------------------------
(* Properties.                                                             *)

(* The variables keep their types.                                         *)
SharingTypeOK ==
  /\ conf \in Families
  /\ at \in [depth : Depth, admin : Rank]
  /\ share \in [Items -> Share]
  /\ rc \in {"walk", "ok", "fail"}

Says(d, a, i) == conf[d][a][i] # "unset"

Forbids(d, a, i) == conf[d][a][i] = "disabled"

(* The places the walk has passed.                                         *)
Passed(d, a) ==
  \/ rc = "ok"
  \/ d < at.depth
  \/ d = at.depth /\ a > at.admin

(* Among the places passed, what is merged of i is as its rank and value   *)
(* say: set, an administrator's if one has spoken, said by the nearest of  *)
(* them, and forbidden exactly if it is forbidden at its rank.             *)
ItemPassed(i) ==
  /\ share[i].value = "unset" <=> \A d \in Depth, a \in Rank : Passed(d, a) => ~ Says(d, a, i)
  /\ share[i].admin = 1 <=> \E d \in Depth : Passed(d, 1) /\ Says(d, 1, i)
  /\ share[i].value # "unset" =>
       \E d \in Depth :
         /\ Passed(d, share[i].admin) /\ conf[d][share[i].admin][i] = share[i].value
         /\ \A e \in 0..(d - 1) : ~ Says(e, share[i].admin, i)
  /\ share[i].value = "disabled" <=>
       \E d \in Depth : Passed(d, share[i].admin) /\ Forbids(d, share[i].admin, i)

(* The invariant that carries ForbiddenStaysForbidden and SharesAsTable.   *)
SharingInv == rc # "fail" => \A i \in Items : ItemPassed(i)

(* Rules 1 to 3 of the merge of sharings, over a whole family: in the end  *)
(* a namespace is forbidden exactly if an administrator forbids it or, no  *)
(* administrator having said anything, a normal configuration does; and    *)
(* it is unset exactly if nobody has said anything.  Where the nearer node *)
(* comes first or last makes no difference.                                *)
Forbidden(i) ==
  \/ \E d \in Depth : Forbids(d, 1, i)
  \/ /\ \A d \in Depth : ~ Says(d, 1, i)
     /\ \E d \in Depth : Forbids(d, 0, i)

ForbiddenStaysForbidden ==
  rc = "ok" => \A i \in Items :
    /\ share[i].value = "disabled" <=> Forbidden(i)
    /\ share[i].value = "unset" <=> \A d \in Depth, a \in Rank : ~ Says(d, a, i)

(* The columns of the table for namespace i.                               *)
Column(i) ==
  [d \in Depth |-> [a \in Rank |->
     IF ~ Says(d, a, i) THEN Unset ELSE Cell(IF Forbids(d, a, i) THEN 0 ELSE 1, a)]]

TableSays(i) == EffectOf(Column(i), Height)

(* What is merged of i, as the table puts it.                              *)
MergedCell(i) ==
  IF share[i].value = "unset" THEN Unset
  ELSE Cell(IF share[i].value = "disabled" THEN 0 ELSE 1, share[i].admin)

(* Walking up where the table goes down, the merge of sharings gives every *)
(* namespace what the table gives it, in value and in rank; accepts what   *)
(* the table marks ERROR only where a nearer node has settled the conflict; *)
(* and refuses nothing else, but for a conflict of normal nodes that it    *)
(* meets before the administrator who has settled it.  Of families in      *)
(* which two nodes speak, the merge and the table refuse the same.         *)
SharesAsTable ==
  /\ rc = "ok" => \A i \in Items :
       IF TableSays(i) = Error THEN SettledNearer(Column(i), Height)
       ELSE MergedCell(i) = TableSays(i)
  /\ rc = "fail" => \E i \in Items :
       TableSays(i) = Error \/ SettledFarther(Column(i), Height)
=============================================================================
