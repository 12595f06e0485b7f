---------------------------- MODULE Launch_proofs ----------------------------
(***************************************************************************)
(* Proofs about the launch of a container, for families of any height, any *)
(* set of namespaces, any tags and any strings: the merges of sharings and *)
(* tags, the namespaces and the identity in which the program runs, the    *)
(* variables it is given, and the failures of the launch.                  *)
(***************************************************************************)
EXTENDS Launch, Environment_proofs

USE DEF Depth, Rank

-----------------------------------------------------------------------------
(* The merge of sharings.                                                  *)

(* Only the setting "disabled" has the type of what forbids.               *)
LEMMA DisabledType ==
  ASSUME NEW v \in Settings
  PROVE  Type(v) = "disabled" <=> v = "disabled"
BY SharingAssumption DEF Settings, Type

(* What is merged of an item is a setting and a rank.                      *)
LEMMA MixShareType ==
  ASSUME NEW old \in Share, NEW v \in Settings, NEW a \in Rank
  PROVE  MixShare(old, v, a) \in Share
BY DEF MixShare, Share

(* The variables keep their types in every step of the walk: the cursor    *)
(* never goes beyond the root.                                             *)
THEOREM SharingTypeCorrect == SharingSpec => []SharingTypeOK
<1>1. SharingInit => SharingTypeOK
  BY SharingAssumption DEF SharingInit, SharingStart, SharingTypeOK, Share, Nothing, Settings
<1>2. SharingTypeOK /\ [MixSharings]_sharingVars => SharingTypeOK'
  <2> SUFFICES ASSUME SharingTypeOK, [MixSharings]_sharingVars
               PROVE  SharingTypeOK'
    OBVIOUS
  <2>1. CASE UNCHANGED sharingVars
    BY <2>1 DEF SharingTypeOK, sharingVars
  <2>2. CASE MixSharings
    <3>1. conf' \in Families
      BY <2>2 DEF MixSharings, SharingTypeOK
    <3>2. share' \in [Items -> Share]
      <4>1. \A i \in Items : MixShare(share[i], conf[at.depth][at.admin][i], at.admin) \in Share
        BY MixShareType DEF SharingTypeOK, Families
      <4>2. QED
        BY <2>2, <4>1 DEF MixSharings, SharingTypeOK
    <3>3. at' \in [depth : Depth, admin : Rank] /\ rc' \in {"walk", "ok", "fail"}
      BY <2>2, SharingAssumption DEF MixSharings, SharingTypeOK, Onward
    <3>4. QED
      BY <3>1, <3>2, <3>3 DEF SharingTypeOK
  <2>3. QED
    BY <2>1, <2>2
<1>3. QED
  BY <1>1, <1>2, PTL DEF SharingSpec

(* A step that refuses nothing passes the configuration under the cursor,  *)
(* and no other.                                                           *)
LEMMA PassedStep ==
  ASSUME SharingTypeOK, rc = "walk", Onward, NEW d \in Depth, NEW a \in Rank
  PROVE  Passed(d, a)' <=> Passed(d, a) \/ (d = at.depth /\ a = at.admin)
<1>1. CASE at.admin = 1
  BY <1>1, SharingAssumption DEF Passed, Onward, SharingTypeOK
<1>2. CASE at.admin = 0 /\ at.depth + 1 < Height
  BY <1>2, SharingAssumption DEF Passed, Onward, SharingTypeOK
<1>3. CASE at.admin = 0 /\ at.depth + 1 = Height
  BY <1>3, SharingAssumption DEF Passed, Onward, SharingTypeOK
<1>4. QED
  BY <1>1, <1>2, <1>3 DEF Onward

(* The cursor is at a place that is not passed yet.                        *)
LEMMA NotYetPassed ==
  ASSUME SharingTypeOK, rc = "walk"
  PROVE  ~ Passed(at.depth, at.admin)
BY DEF Passed, SharingTypeOK

(* What an item was set by stays what it was set by, if the item is left   *)
(* as it was.                                                              *)
LEMMA NearestKept ==
  ASSUME NEW i \in Items, ItemPassed(i), share[i] \in Share, share'[i] = share[i], conf' = conf,
         \A d \in Depth, a \in Rank : Passed(d, a) => Passed(d, a)'
  PROVE  (share[i].value # "unset" =>
            \E d \in Depth :
              /\ Passed(d, share[i].admin) /\ conf[d][share[i].admin][i] = share[i].value
              /\ \A e \in 0..(d - 1) : ~ Says(e, share[i].admin, i))'
<1>1. CASE share[i].value = "unset"
  BY <1>1
<1>2. CASE share[i].value # "unset"
  <2>1. PICK a \in Rank : a = share[i].admin
    BY DEF Share
  <2>2. PICK d \in Depth : /\ Passed(d, a) /\ conf[d][a][i] = share[i].value
                           /\ \A e \in 0..(d - 1) : ~ Says(e, a, i)
    BY <1>2, <2>1 DEF ItemPassed
  <2>3. Passed(d, a)' /\ \A e \in 0..(d - 1) : ~ Says(e, a, i)'
    BY <2>2 DEF Says
  <2>4. a = share'[i].admin /\ conf'[d][a][i] = share'[i].value
    BY <2>1, <2>2
  <2>5. QED
    BY <2>3, <2>4
<1>3. QED
  BY <1>1, <1>2

(* One item, through a step that does not refuse it.                       *)
LEMMA ItemStep ==
  ASSUME SharingTypeOK, rc = "walk", Onward, conf' = conf,
         NEW i \in Items, ItemPassed(i),
         ~ Refuses(share[i], conf[at.depth][at.admin][i], at.admin),
         share'[i] = MixShare(share[i], conf[at.depth][at.admin][i], at.admin)
  PROVE  ItemPassed(i)'
<1> DEFINE D == at.depth
           A == at.admin
           v == conf[D][A][i]
           old == share[i]
<1>1. D \in Depth /\ A \in Rank /\ v \in Settings /\ old \in Share
  BY DEF SharingTypeOK, Families
<1>2. \A d \in Depth, a \in Rank : Passed(d, a)' <=> Passed(d, a) \/ (d = D /\ a = A)
  BY PassedStep
<1>3. \A d \in Depth, a \in Rank :
        /\ Says(d, a, i)' = Says(d, a, i)
        /\ Forbids(d, a, i)' = Forbids(d, a, i)
  BY DEF Says, Forbids
<1>4. CASE v = "unset"
  <2>1. share'[i] = old
    BY <1>4 DEF MixShare, Settles
  <2>2. ~ Says(D, A, i) /\ ~ Forbids(D, A, i)
    BY <1>4 DEF Says, Forbids
  <2>3. (share[i].value = "unset" <=> \A d \in Depth, a \in Rank : Passed(d, a) => ~ Says(d, a, i))'
    BY <1>1, <1>2, <1>3, <2>1, <2>2 DEF ItemPassed
  <2>4. (share[i].admin = 1 <=> \E d \in Depth : Passed(d, 1) /\ Says(d, 1, i))'
    BY <1>1, <1>2, <1>3, <2>1, <2>2 DEF ItemPassed
  <2>5. (share[i].value = "disabled" <=>
           \E d \in Depth : Passed(d, share[i].admin) /\ Forbids(d, share[i].admin, i))'
    BY <1>1, <1>2, <1>3, <2>1, <2>2 DEF ItemPassed, Share
  <2>6. (share[i].value # "unset" =>
           \E d \in Depth :
             /\ Passed(d, share[i].admin) /\ conf[d][share[i].admin][i] = share[i].value
             /\ \A e \in 0..(d - 1) : ~ Says(e, share[i].admin, i))'
    BY <1>1, <1>2, <2>1, NearestKept
  <2>7. QED
    BY <2>3, <2>4, <2>5, <2>6 DEF ItemPassed
<1>5. CASE Settles(old, v, A)
  <2>1. share'[i] = [value |-> v, admin |-> A]
    BY <1>5 DEF MixShare
  <2>2. v # "unset" /\ (old.value = "unset" \/ (A = 1 /\ old.admin = 0))
    BY <1>5 DEF Settles
  <2>3. Says(D, A, i) /\ (Forbids(D, A, i) <=> v = "disabled")
    BY <2>2 DEF Says, Forbids
  <2>4. \A d \in Depth : Passed(d, A) => ~ Says(d, A, i)
    BY <1>1, <2>2 DEF ItemPassed, Share
  <2>5. \A d \in Depth : Forbids(d, A, i) => Says(d, A, i)
    BY DEF Says, Forbids
  <2>6. A = 0 => \A d \in Depth : Passed(d, 1) => ~ Says(d, 1, i)
    BY <1>1, <2>2 DEF ItemPassed, Share
  <2>7. (share[i].value = "unset" <=> \A d \in Depth, a \in Rank : Passed(d, a) => ~ Says(d, a, i))'
    BY <1>1, <1>2, <1>3, <2>1, <2>2, <2>3
  <2>8. (share[i].admin = 1 <=> \E d \in Depth : Passed(d, 1) /\ Says(d, 1, i))'
    BY <1>1, <1>2, <1>3, <2>1, <2>3, <2>6
  <2>9. (share[i].value = "disabled" <=>
           \E d \in Depth : Passed(d, share[i].admin) /\ Forbids(d, share[i].admin, i))'
    BY <1>1, <1>2, <1>3, <2>1, <2>3, <2>4, <2>5
  <2>10. (\E d \in Depth :
            /\ Passed(d, share[i].admin) /\ conf[d][share[i].admin][i] = share[i].value
            /\ \A e \in 0..(d - 1) : ~ Says(e, share[i].admin, i))'
    <3>1. PICK d \in Depth, a \in Rank : d = D /\ a = A
      BY <1>1
    <3>2. \A e \in 0..(d - 1) : e \in Depth /\ Passed(e, a)
      BY <3>1, SharingAssumption DEF Passed
    <3>3. \A e \in 0..(d - 1) : ~ Says(e, a, i)
      BY <2>4, <3>1, <3>2
    <3>4. Passed(d, a)'
      BY <1>2, <3>1
    <3>5. \A e \in 0..(d - 1) : ~ Says(e, a, i)'
      BY <1>3, <3>1, <3>2, <3>3
    <3>6. share'[i].admin = a /\ conf'[d][a][i] = share'[i].value
      BY <2>1, <3>1
    <3>7. QED
      BY <3>4, <3>5, <3>6
  <2>11. QED
    BY <2>7, <2>8, <2>9, <2>10 DEF ItemPassed
<1>6. CASE v # "unset" /\ ~ Settles(old, v, A)
  <2>1. share'[i] = old
    BY <1>6 DEF MixShare
  <2>2. old.value # "unset" /\ (A = 1 => old.admin = 1)
    BY <1>1, <1>6 DEF Settles, Share
  <2>3. A = old.admin /\ v = "disabled" => old.value = "disabled"
    BY <1>1, <1>6, DisabledType DEF Refuses, Share
  <2>4. Forbids(D, A, i) <=> v = "disabled"
    BY DEF Forbids
  <2>5. (share[i].value = "unset" <=> \A d \in Depth, a \in Rank : Passed(d, a) => ~ Says(d, a, i))'
    BY <1>1, <1>2, <1>3, <2>1, <2>2 DEF ItemPassed
  <2>6. (share[i].admin = 1 <=> \E d \in Depth : Passed(d, 1) /\ Says(d, 1, i))'
    BY <1>1, <1>2, <1>3, <2>1, <2>2 DEF ItemPassed
  <2>7. (share[i].value = "disabled" <=>
           \E d \in Depth : Passed(d, share[i].admin) /\ Forbids(d, share[i].admin, i))'
    BY <1>1, <1>2, <1>3, <2>1, <2>3, <2>4 DEF ItemPassed, Share
  <2>8. (share[i].value # "unset" =>
           \E d \in Depth :
             /\ Passed(d, share[i].admin) /\ conf[d][share[i].admin][i] = share[i].value
             /\ \A e \in 0..(d - 1) : ~ Says(e, share[i].admin, i))'
    BY <1>1, <1>2, <2>1, NearestKept
  <2>9. QED
    BY <2>5, <2>6, <2>7, <2>8 DEF ItemPassed
<1>7. QED
  BY <1>4, <1>5, <1>6 DEF Settles

(* The invariant of the walk: what is merged of a namespace is, in rank    *)
(* and in value, what the configurations passed say together.              *)
THEOREM SharingInvCorrect == SharingSpec => []SharingInv
<1>1. SharingInit => SharingInv
  BY SharingAssumption DEF SharingInit, SharingStart, SharingInv, ItemPassed, Passed, Nothing
<1>2. SharingTypeOK /\ SharingInv /\ [MixSharings]_sharingVars => SharingInv'
  <2> SUFFICES ASSUME SharingTypeOK, SharingInv, [MixSharings]_sharingVars, rc' # "fail",
                      NEW i \in Items
               PROVE  ItemPassed(i)'
    BY DEF SharingInv
  <2>1. CASE UNCHANGED sharingVars
    BY <2>1 DEF SharingInv, ItemPassed, Passed, Says, Forbids, sharingVars
  <2>2. CASE MixSharings
    <3>1. /\ rc = "walk" /\ Onward /\ conf' = conf
          /\ ~ Refuses(share[i], conf[at.depth][at.admin][i], at.admin)
          /\ share'[i] = MixShare(share[i], conf[at.depth][at.admin][i], at.admin)
      BY <2>2 DEF MixSharings
    <3>2. ItemPassed(i)
      BY <3>1 DEF SharingInv
    <3>3. QED
      BY <3>1, <3>2, ItemStep
  <2>3. QED
    BY <2>1, <2>2
<1>3. QED
  BY <1>1, <1>2, SharingTypeCorrect, PTL DEF SharingSpec

(* Whatever the family, a namespace is forbidden in the end exactly if an  *)
(* administrator forbids it, or a normal configuration does and no         *)
(* administrator has spoken.                                               *)
THEOREM ForbiddenCorrect == SharingSpec => []ForbiddenStaysForbidden
<1>1. SharingTypeOK /\ SharingInv => ForbiddenStaysForbidden
  <2> SUFFICES ASSUME SharingTypeOK, SharingInv, rc = "ok", NEW i \in Items
               PROVE  /\ share[i].value = "disabled" <=> Forbidden(i)
                      /\ share[i].value = "unset" <=> \A d \in Depth, a \in Rank : ~ Says(d, a, i)
    BY DEF ForbiddenStaysForbidden
  <2>1. \A d \in Depth, a \in Rank : Passed(d, a)
    BY DEF Passed
  <2>2. ItemPassed(i) /\ share[i].admin \in {0, 1}
    BY DEF SharingInv, SharingTypeOK, Share
  <2>3. \A d \in Depth, a \in Rank : Forbids(d, a, i) => Says(d, a, i)
    BY DEF Forbids, Says
  <2>4. CASE share[i].admin = 1
    BY <2>1, <2>2, <2>3, <2>4 DEF ItemPassed, Forbidden
  <2>5. CASE share[i].admin = 0
    BY <2>1, <2>2, <2>3, <2>5 DEF ItemPassed, Forbidden
  <2>6. QED
    BY <2>2, <2>4, <2>5
<1>2. QED
  BY <1>1, SharingTypeCorrect, SharingInvCorrect, PTL

(* An item that is refused contradicts, at its own rank, the nearer node   *)
(* that settled it.                                                        *)
LEMMA RefusalMeans ==
  ASSUME SharingTypeOK, rc = "walk", NEW i \in Items, ItemPassed(i),
         Refuses(share[i], conf[at.depth][at.admin][i], at.admin)
  PROVE  \E d \in Depth :
           /\ d < at.depth
           /\ Says(d, at.admin, i) /\ ~ Forbids(d, at.admin, i) /\ Forbids(at.depth, at.admin, i)
           /\ at.admin = 0 => \A f \in 0..at.depth : ~ Says(f, 1, i)
<1> DEFINE D == at.depth
           A == at.admin
           v == conf[D][A][i]
           old == share[i]
<1>1. D \in Depth /\ A \in Rank /\ v \in Settings /\ old \in Share /\ old.value \in Settings
  BY DEF SharingTypeOK, Families, Share
<1>2. v = "disabled" /\ old.value # "disabled"
  BY <1>1, DisabledType DEF Refuses
<1>3. A = old.admin /\ old.value # "unset"
  BY <1>1 DEF Refuses, Settles, Share
<1>4. PICK d \in Depth : Passed(d, A) /\ conf[d][A][i] = old.value
  BY <1>3 DEF ItemPassed
<1>5. d < D
  BY <1>1, <1>4 DEF Passed
<1>6. A = 0 => \A f \in 0..D : ~ Says(f, 1, i)
  BY <1>1, <1>3, SharingAssumption DEF ItemPassed, Passed
<1>7. QED
  BY <1>2, <1>3, <1>4, <1>5, <1>6 DEF Says, Forbids

(* What a cell of the table says is what the configuration says.           *)
LEMMA ColumnSays ==
  ASSUME conf \in Families, NEW i \in Items
  PROVE  /\ IsColumn(Column(i), Height) /\ Height \in Nat
         /\ \A d \in Depth, a \in Rank :
              /\ Speaks(Column(i), d, a) <=> Says(d, a, i)
              /\ Grants(Column(i), d, a) <=> Says(d, a, i) /\ ~ Forbids(d, a, i)
              /\ Drops(Column(i), d, a) <=> Forbids(d, a, i)
<1>1. \A d \in Depth, a \in Rank :
        Column(i)[d][a] = IF ~ Says(d, a, i) THEN Unset ELSE Cell(IF Forbids(d, a, i) THEN 0 ELSE 1, a)
  BY DEF Column
<1>2. \A d \in Depth, a \in Rank : Forbids(d, a, i) => Says(d, a, i)
  BY DEF Forbids, Says
<1>3. Height \in Nat
  BY SharingAssumption
<1>4. \A d \in Depth, a \in Rank : Column(i)[d][a] \in {Unset, Cell(0, a), Cell(1, a)}
  BY <1>1
<1>5. QED
  BY <1>1, <1>2, <1>3, <1>4, Cells DEF IsColumn, Speaks, Grants, Drops

(* A merge that ends well has merged, of each namespace, what the place    *)
(* says that prevails.                                                     *)
LEMMA MergedIsLead ==
  ASSUME SharingTypeOK, SharingInv, rc = "ok", NEW i \in Items
  PROVE  /\ (\A d \in Depth, a \in Rank : ~ Says(d, a, i)) => MergedCell(i) = Unset
         /\ \A d \in Depth, a \in Rank :
              Leads(Column(i), Height, 0, d, a) =>
                /\ MergedCell(i) = Column(i)[d][a]
                /\ Grants(Column(i), d, a) => \A e \in Depth : ~ Forbids(e, a, i)
<1>1. /\ ItemPassed(i) /\ share[i].admin \in {0, 1} /\ conf \in Families
      /\ \A d \in Depth, a \in Rank : Passed(d, a)
  BY DEF SharingInv, SharingTypeOK, Share, Passed
<1>2. (\A d \in Depth, a \in Rank : ~ Says(d, a, i)) => MergedCell(i) = Unset
  BY <1>1 DEF ItemPassed, MergedCell
<1>3. ASSUME NEW d \in Depth, NEW a \in Rank, Leads(Column(i), Height, 0, d, a)
      PROVE  /\ MergedCell(i) = Column(i)[d][a]
             /\ Grants(Column(i), d, a) => \A e \in Depth : ~ Forbids(e, a, i)
  <2>1. /\ Says(d, a, i)
        /\ \A e \in Depth, b \in Rank : Says(e, b, i) => b < a \/ (b = a /\ d <= e)
    BY <1>1, <1>3, ColumnSays DEF Leads
  <2>2. share[i].value # "unset"
    BY <1>1, <2>1 DEF ItemPassed
  <2>3. share[i].admin = a
    <3>1. share[i].admin = 1 <=> \E e \in Depth : Says(e, 1, i)
      BY <1>1 DEF ItemPassed
    <3>2. QED
      BY <1>1, <2>1, <3>1
  <2>4. PICK e \in Depth : /\ conf[e][a][i] = share[i].value
                           /\ \A f \in 0..(e - 1) : ~ Says(f, a, i)
    BY <1>1, <2>2, <2>3 DEF ItemPassed
  <2>5. e = d
    <3>1. d <= e
      BY <2>1, <2>2, <2>4 DEF Says
    <3>2. ~ (d < e)
      BY <2>1, <2>4, SharingAssumption
    <3>3. QED
      BY <3>1, <3>2, SharingAssumption
  <2>6. MergedCell(i) = Column(i)[d][a]
    BY <2>1, <2>2, <2>3, <2>4, <2>5 DEF MergedCell, Column, Forbids
  <2>7. Grants(Column(i), d, a) => ~ Forbids(d, a, i)
    BY <1>1, ColumnSays
  <2>8. share[i].value = "disabled" <=> \E f \in Depth : Forbids(f, a, i)
    BY <1>1, <2>3 DEF ItemPassed
  <2>9. QED
    BY <2>4, <2>5, <2>6, <2>7, <2>8 DEF Forbids
<1>4. QED
  BY <1>2, <1>3

(* So the conflicts of a family that is accepted are settled by nearer     *)
(* nodes.                                                                  *)
LEMMA AcceptedIsSettled ==
  ASSUME SharingTypeOK, SharingInv, rc = "ok", NEW i \in Items
  PROVE  SettledNearer(Column(i), Height)
<1> DEFINE column == Column(i)
<1>1. /\ conf \in Families /\ IsColumn(column, Height) /\ Height \in Nat
      /\ \A d \in Depth, a \in Rank :
           /\ Speaks(column, d, a) <=> Grants(column, d, a) \/ Drops(column, d, a)
           /\ Drops(column, d, a) <=> Forbids(d, a, i)
  <2>1. conf \in Families
    BY DEF SharingTypeOK
  <2>2. \A d \in Depth, a \in Rank : Forbids(d, a, i) => Says(d, a, i)
    BY DEF Forbids, Says
  <2>3. QED
    BY <2>1, <2>2, ColumnSays
<1> SUFFICES ASSUME NEW c \in Depth, NEW d \in Depth, NEW a \in Rank,
                    Conflict(column, Height, c, d, a),
                    \A b \in 0..(c - 1) : ~ Speaks(column, b, 1) /\ ~ Drops(column, b, a)
             PROVE  FALSE
  BY DEF SettledNearer
<1> HIDE DEF column
<1>2. c < d /\ Grants(column, c, a) /\ Drops(column, d, a)
  BY DEF Conflict
<1>3. a = 0 => \A e \in Depth : ~ Speaks(column, e, 1)
  <2>1. a = 0 => \A e \in c..(Height - 1) : ~ Speaks(column, e, 1)
    BY DEF Conflict
  <2>2. \A e \in Depth : e \in 0..(c - 1) \/ e \in c..(Height - 1)
    BY <1>1
  <2>3. QED
    BY <2>1, <2>2
<1>4. PICK g \in Depth : /\ Speaks(column, g, a) /\ Grants(column, g, a)
                         /\ \A e \in Depth : Speaks(column, e, a) => g <= e
  <2> DEFINE Speakers == {e \in Depth : Speaks(column, e, a)}
  <2>1. Speakers \in SUBSET Nat /\ c \in Speakers
    BY <1>1, <1>2
  <2>2. PICK g \in Speakers : \A e \in Speakers : g <= e
    <3> HIDE DEF Speakers
    <3>1. QED
      BY <2>1, Least
  <2>3. g <= c /\ g \in Depth /\ Speaks(column, g, a) /\ \A e \in Depth : Speaks(column, e, a) => g <= e
    BY <2>1, <2>2
  <2>4. Grants(column, g, a)
    <3>1. g = c \/ g \in 0..(c - 1)
      BY <1>1, <2>3
    <3>2. QED
      BY <1>1, <1>2, <2>3, <3>1
  <2>5. QED
    BY <2>3, <2>4
<1>5. Leads(column, Height, 0, g, a)
  <2>1. \A e \in Depth, b \in Rank : Speaks(column, e, b) => b < a \/ (b = a /\ g <= e)
    BY <1>3, <1>4
  <2>2. QED
    BY <1>4, <2>1 DEF Leads
<1>6. \A e \in Depth : ~ Forbids(e, a, i)
  BY <1>4, <1>5, MergedIsLead DEF column
<1>7. QED
  BY <1>1, <1>2, <1>6

(* A refusal is one of the table, or a conflict of normal nodes that an    *)
(* administrator farther up has settled.                                   *)
LEMMA RefusedIsConflict ==
  ASSUME conf \in Families, NEW i \in Items, NEW a \in Rank, NEW c \in Depth, NEW d \in Depth,
         c < d, Says(c, a, i), ~ Forbids(c, a, i), Forbids(d, a, i),
         a = 0 => \A b \in 0..d : ~ Says(b, 1, i)
  PROVE  TableSays(i) = Error \/ SettledFarther(Column(i), Height)
<1> DEFINE column == Column(i)
<1>1. IsColumn(column, Height) /\ Height \in Nat
  BY ColumnSays
<1>2. Grants(column, c, a) /\ Drops(column, d, a)
  BY ColumnSays
<1>3. a = 0 => \A b \in 0..d : ~ Speaks(column, b, 1)
  <2>1. \A b \in 0..d : b \in Depth
    BY SharingAssumption
  <2>2. QED
    BY <2>1, ColumnSays
<1> HIDE DEF column
<1>4. CASE a = 0 /\ \E f \in Depth : d < f /\ Speaks(column, f, 1)
  <2>1. SettledFarther(column, Height)
    BY <1>2, <1>3, <1>4 DEF SettledFarther
  <2>2. QED
    BY <2>1 DEF column
<1>5. CASE ~ (a = 0 /\ \E f \in Depth : d < f /\ Speaks(column, f, 1))
  <2>1. \A e \in c..(Height - 1) : e \in 0..d \/ (e \in Depth /\ d < e)
    BY SharingAssumption
  <2>2. a = 0 => \A e \in c..(Height - 1) : ~ Speaks(column, e, 1)
    BY <1>3, <1>5, <2>1
  <2>3. Conflict(column, Height, c, d, a)
    BY <1>2, <2>2 DEF Conflict
  <2>4. EffectOf(column, Height) = Error
    BY <1>1, <2>3, TableMeans
  <2>5. QED
    BY <2>4 DEF TableSays, column
<1>6. QED
  BY <1>4, <1>5

(* Families of any height, any namespaces: the merge of sharings is the    *)
(* documented table, but for the conflicts that another node settles.      *)
THEOREM SharesAsTableCorrect == SharingSpec => []SharesAsTable
<1>1. SharingTypeOK /\ SharingInv /\ rc = "ok" => SharesAsTable
  <2> SUFFICES ASSUME SharingTypeOK, SharingInv, rc = "ok", NEW i \in Items, TableSays(i) # Error
               PROVE  MergedCell(i) = TableSays(i)
    BY AcceptedIsSettled DEF SharesAsTable
  <2>1. IsColumn(Column(i), Height) /\ Height \in Nat
    BY ColumnSays DEF SharingTypeOK
  <2>2. \/ TableSays(i) = Unset /\ \A e \in Depth, b \in Rank : ~ Speaks(Column(i), e, b)
        \/ \E d \in Depth, a \in Rank :
             Leads(Column(i), Height, 0, d, a) /\ TableSays(i) = Column(i)[d][a]
    BY <2>1, TableMeans DEF TableSays
  <2>3. \A e \in Depth, b \in Rank : Speaks(Column(i), e, b) <=> Says(e, b, i)
    BY ColumnSays DEF SharingTypeOK
  <2>4. QED
    BY <2>2, <2>3, MergedIsLead
<1>2. SharingInit => SharesAsTable
  BY DEF SharingInit, SharingStart, SharesAsTable
<1>3. SharingTypeOK /\ SharingInv /\ SharesAsTable /\ [MixSharings]_sharingVars /\ rc' = "fail"
        => SharesAsTable'
  <2> SUFFICES ASSUME SharingTypeOK, SharingInv, SharesAsTable, [MixSharings]_sharingVars, rc' = "fail"
               PROVE  \E i \in Items : TableSays(i)' = Error \/ SettledFarther(Column(i)', Height)
    BY DEF SharesAsTable
  <2>1. conf' = conf
    BY DEF MixSharings, sharingVars
  <2>2. \A i : Column(i)' = Column(i) /\ TableSays(i)' = TableSays(i)
    BY <2>1 DEF Column, TableSays, Says, Forbids
  <2>3. CASE UNCHANGED sharingVars
    <3>1. rc = "fail"
      BY <2>3 DEF sharingVars
    <3>2. QED
      BY <2>2, <3>1 DEF SharesAsTable
  <2>4. CASE MixSharings
    <3>1. rc = "walk"
      BY <2>4 DEF MixSharings
    <3>2. PICK i \in Items : Refuses(share[i], conf[at.depth][at.admin][i], at.admin)
      BY <2>4, <3>1 DEF MixSharings, Onward
    <3>3. ItemPassed(i) /\ conf \in Families /\ at.depth \in Depth /\ at.admin \in Rank
      BY <3>1 DEF SharingInv, SharingTypeOK
    <3>4. PICK c \in Depth :
            /\ c < at.depth
            /\ Says(c, at.admin, i) /\ ~ Forbids(c, at.admin, i) /\ Forbids(at.depth, at.admin, i)
            /\ at.admin = 0 => \A f \in 0..at.depth : ~ Says(f, 1, i)
      BY <3>1, <3>2, <3>3, RefusalMeans
    <3>5. TableSays(i) = Error \/ SettledFarther(Column(i), Height)
      BY <3>3, <3>4, RefusedIsConflict
    <3>6. QED
      BY <2>2, <3>5
  <2>5. QED
    BY <2>3, <2>4
<1>5. SharingTypeOK' => rc' \in {"walk", "ok", "fail"}
  BY DEF SharingTypeOK
<1>6. rc' = "walk" => SharesAsTable'
  BY DEF SharesAsTable
<1>7. SharingTypeOK' /\ SharingInv' /\ rc' = "ok" => SharesAsTable'
  <2>1. SharingTypeOK /\ SharingInv /\ rc = "ok" => SharesAsTable
    BY <1>1
  <2>2. (SharingTypeOK /\ SharingInv /\ rc = "ok" => SharesAsTable)'
    BY <2>1, PTL
  <2>3. QED
    BY <2>2
<1>8. SharingTypeOK /\ SharingTypeOK' /\ SharingInv /\ SharingInv' /\ SharesAsTable
        /\ [MixSharings]_sharingVars => SharesAsTable'
  BY <1>3, <1>5, <1>6, <1>7
<1>9. QED
  BY <1>2, <1>8, SharingTypeCorrect, SharingInvCorrect, PTL DEF SharingSpec

-----------------------------------------------------------------------------
(* The merges of tags, mixConfTags and mixEarlyConf: what a step of the    *)
(* former preserves, and where the two agree.                              *)

(* What is written at a place and its expansion are values.                *)
LEMMA WrittenType ==
  ASSUME TagsTypeOK, NEW t \in TagNames, NEW p \in SetAt(t)
  PROVE  Written(t, p) \in Raw /\ Expansion(t, p) \in Values /\ Expansion(t, p) # None
<1>1. p[1] \in Depth /\ p[2] \in Rank
  BY DEF SetAt, Places
<1>2. strs[p[1]][p[2]][t] \in {"plain", "dollar"}
  BY <1>1 DEF SetAt, TagsTypeOK, TagFamilies, Texts
<1>3. Written(t, p) \in Raw /\ Expansion(t, p) \in Values
  BY <1>1, <1>2 DEF Written, Expansion, Raw, Values
<1>4. QED
  BY <1>3, TagsAssumption, SharingAssumption DEF Values

(* Tags are merged within their types: the two loops end.                  *)
LEMMA TagsTypeStep ==
  ASSUME TagsTypeOK, MixBasicConftag
  PROVE  TagsTypeOK'
<1>1. tagAt.depth \in Depth /\ <<tagAt.depth, tagAt.admin>> \in Places
  BY SharingAssumption DEF MixBasicConftag, TagsMerged, TagsTypeOK, Places
<1>2. tag' \in [TagNames -> Values \cup {None}]
  <2> DEFINE here == <<tagAt.depth, tagAt.admin>>
             Wanted == {n \in 1..Len(Tags) : here \in SetAt(Tags[n]) /\ tag[Tags[n]] = None}
  <2>1. PICK cut : tag' = [t \in TagNames |->
                            IF \E n \in Wanted : Tags[n] = t /\ n < cut THEN Expansion(t, here) ELSE tag[t]]
    BY Zenon DEF MixBasicConftag
  <2>2. ASSUME NEW t \in TagNames
        PROVE  tag'[t] \in Values \cup {None}
    <3>1. CASE \E n \in Wanted : Tags[n] = t /\ n < cut
      <4>1. here \in SetAt(t)
        BY <3>1
      <4>2. QED
        BY <2>1, <3>1, <4>1, WrittenType
    <3>2. CASE ~ \E n \in Wanted : Tags[n] = t /\ n < cut
      BY <2>1, <3>2 DEF TagsTypeOK
    <3>3. QED
      BY <3>1, <3>2
  <2>3. QED
    BY <2>1, <2>2
<1>3. tagAt' \in [admin : Rank, depth : 0..Height]
  BY <1>1, SharingAssumption DEF MixBasicConftag, TagOnward, TagsTypeOK
<1>4. spoilt' \in BOOLEAN
  BY DEF MixBasicConftag, TagsTypeOK
<1>5. strs' \in TagFamilies
  BY DEF MixBasicConftag, TagsTypeOK
<1>6. QED
  BY <1>2, <1>3, <1>4, <1>5 DEF TagsTypeOK

(* What mixEarlyConf merges of a tag: what is written at the place, of     *)
(* those that set it, that the others do not come before.                  *)
LEMMA EarlyIsFirst ==
  ASSUME NEW t
  PROVE  IF SetAt(t) = {} THEN EarlyText(t) = None
         ELSE \E p \in Places : SetFirst(t, p) /\ EarlyText(t) = Written(t, p)
<1>1. CASE SetAt(t) = {}
  BY <1>1 DEF EarlyText
<1>2. CASE SetAt(t) # {}
  <2> DEFINE At(a) == {d \in Depth : <<d, a>> \in SetAt(t)}
  <2>1. \A p \in SetAt(t) : p[1] \in Depth /\ p[2] \in Rank /\ p = <<p[1], p[2]>>
    BY DEF SetAt, Places
  <2>2. At(0) \in SUBSET Nat /\ At(1) \in SUBSET Nat
    BY SharingAssumption
  <2>3. \E p \in SetAt(t) : \A q \in SetAt(t) \ {p} : EarlyBefore(p, q)
    <3>1. CASE At(1) # {}
      <4>1. PICK d \in At(1) : \A e \in At(1) : d <= e
        BY <2>2, <3>1, Least
      <4>2. \A q \in SetAt(t) \ {<<d, 1>>} : EarlyBefore(<<d, 1>>, q)
        BY <2>1, <2>2, <4>1, SharingAssumption DEF EarlyBefore
      <4>3. QED
        BY <4>1, <4>2
    <3>2. CASE At(1) = {}
      <4>1. At(0) # {}
        BY <1>2, <2>1, <3>2
      <4>2. PICK d \in At(0) : \A e \in At(0) : d <= e
        BY <2>2, <4>1, Least
      <4>3. \A q \in SetAt(t) \ {<<d, 0>>} : EarlyBefore(<<d, 0>>, q)
        BY <2>1, <2>2, <3>2, <4>2, SharingAssumption DEF EarlyBefore
      <4>4. QED
        BY <4>2, <4>3
    <3>3. QED
      BY <3>1, <3>2
  <2> DEFINE first == CHOOSE p \in SetAt(t) : \A q \in SetAt(t) \ {p} : EarlyBefore(p, q)
  <2>4. first \in SetAt(t) /\ \A q \in SetAt(t) \ {first} : EarlyBefore(first, q)
    BY <2>3, Zenon
  <2>5. EarlyText(t) = Written(t, first)
    BY <1>2 DEF EarlyText
  <2> HIDE DEF first
  <2>6. QED
    BY <1>2, <2>4, <2>5 DEF SetFirst, SetAt
<1>3. QED
  BY <1>1, <1>2

(* EarlyBefore is a strict order on places, in which any two are ordered.  *)
LEMMA BeforeIsOrder ==
  /\ \A p, q \in Places : p = q \/ EarlyBefore(p, q) \/ EarlyBefore(q, p)
  /\ \A p, q \in Places : ~ (EarlyBefore(p, q) /\ EarlyBefore(q, p))
<1> SUFFICES ASSUME NEW p \in Places, NEW q \in Places
             PROVE  /\ p = q \/ EarlyBefore(p, q) \/ EarlyBefore(q, p)
                    /\ ~ (EarlyBefore(p, q) /\ EarlyBefore(q, p))
  OBVIOUS
<1>1. p = <<p[1], p[2]>> /\ p[1] \in Nat /\ p[2] \in {0, 1}
  BY SharingAssumption DEF Places
<1>2. q = <<q[1], q[2]>> /\ q[1] \in Nat /\ q[2] \in {0, 1}
  BY SharingAssumption DEF Places
<1>3. QED
  BY <1>1, <1>2 DEF EarlyBefore

(* No two places are the first.                                            *)
LEMMA FirstIsOne ==
  ASSUME NEW t, NEW p \in Places, NEW q \in Places, SetFirst(t, p), SetFirst(t, q)
  PROVE  p = q
BY BeforeIsOrder DEF SetFirst

(* The loops start at the first place.                                     *)
LEMMA TagsInvStart == TagsStart => TagsInv
BY SharingAssumption DEF TagsStart, TagsInv, TagPassed, EarlyBefore, SetAt, Places, TagsMerged

(* TagsInv through the merge of one configuration.                         *)
LEMMA TagsInvStep ==
  ASSUME TagsTypeOK, TagsInv, MixBasicConftag
  PROVE  TagsInv'
<1> DEFINE here == <<tagAt.depth, tagAt.admin>>
<1>1. here \in Places /\ tagAt.depth \in Depth /\ tagAt.admin \in Rank
  BY SharingAssumption DEF MixBasicConftag, TagsMerged, TagsTypeOK, Places
<1>2. \A p \in Places : TagPassed(p)' <=> TagPassed(p) \/ p = here
  <2> SUFFICES ASSUME NEW p \in Places
               PROVE  TagPassed(p)' <=> TagPassed(p) \/ p = here
    OBVIOUS
  <2>1. p = <<p[1], p[2]>> /\ p[1] \in Depth /\ p[2] \in Rank
    BY DEF Places
  <2>2. CASE tagAt.depth + 1 = Height /\ tagAt.admin = 1
    BY <1>1, <2>1, <2>2, SharingAssumption DEF MixBasicConftag, TagOnward, TagPassed, EarlyBefore
  <2>3. CASE ~ (tagAt.depth + 1 = Height /\ tagAt.admin = 1)
    <3>1. tagAt' = [tagAt EXCEPT !.depth = @ + 1]
      BY <2>3, Zenon DEF MixBasicConftag, TagOnward
    <3>2. tagAt'.depth = tagAt.depth + 1 /\ tagAt'.admin = tagAt.admin
      BY <3>1 DEF TagsTypeOK
    <3>3. QED
      BY <1>1, <2>1, <3>2, SharingAssumption DEF TagPassed, EarlyBefore
  <2>4. QED
    BY <2>2, <2>3
<1>3. (TagsMerged => tagAt.admin = 0)'
  BY <1>1, SharingAssumption DEF MixBasicConftag, TagOnward, TagsMerged, TagsTypeOK
<1>4. ASSUME NEW t \in TagNames, t \in Expanded => ~ spoilt'
      PROVE  (IF tag[t] = None THEN \A p \in SetAt(t) : ~ TagPassed(p)
              ELSE \E p \in Places : SetFirst(t, p) /\ tag[t] = Expansion(t, p))'
  <2> DEFINE Wanted == {n \in 1..Len(Tags) :
                          /\ here \in SetAt(Tags[n])
                          /\ tag[Tags[n]] = None}
  <2>1. PICK cut \in {n \in Wanted : Tags[n] \in Expanded} \cup {Len(Tags) + 1} :
          /\ tag' = [u \in TagNames |->
                       IF \E n \in Wanted : Tags[n] = u /\ n < cut THEN Expansion(u, here) ELSE tag[u]]
          /\ spoilt' = (spoilt \/ cut <= Len(Tags))
    BY Zenon DEF MixBasicConftag
  <2>2. Len(Tags) \in Nat
    BY TagsAssumption
  <2>3. t \in Expanded => ~ spoilt
    BY <1>4, <2>1
  <2>4. SetAt(t)' = SetAt(t) /\ SetAt(t) \subseteq Places
    BY DEF SetAt, MixBasicConftag
  <2>5. IF tag[t] = None THEN \A p \in SetAt(t) : ~ TagPassed(p)
        ELSE \E p \in Places : SetFirst(t, p) /\ tag[t] = Expansion(t, p)
    BY <2>3 DEF TagsInv
  <2>6. \A p \in Places : (Expansion(t, p)' = Expansion(t, p)) /\ (SetFirst(t, p)' <=> SetFirst(t, p))
    BY <2>4 DEF MixBasicConftag, Expansion, Written, SetFirst, EarlyBefore
  <2>7. CASE here \in SetAt(t) /\ tag[t] = None
    <3>1. PICK n \in 1..Len(Tags) : Tags[n] = t
      BY DEF TagNames
    <3>2. n \in Wanted
      BY <2>7, <3>1
    <3>3. n < cut
      <4>1. CASE cut = Len(Tags) + 1
        BY <2>2, <4>1
      <4>2. CASE cut \in Wanted /\ Tags[cut] \in Expanded
        <5>1. cut \in 1..Len(Tags) /\ cut <= Len(Tags)
          BY <2>2, <4>2
        <5>2. t \notin Expanded
          BY <1>4, <2>1, <5>1
        <5>3. QED
          BY <2>2, <3>1, <4>2, <5>1, <5>2, TagsAssumption
      <4>3. QED
        BY <4>1, <4>2
    <3>4. tag'[t] = Expansion(t, here) /\ tag'[t] # None
      BY <2>1, <2>7, <3>1, <3>2, <3>3, WrittenType
    <3>5. \A q \in SetAt(t) \ {here} : EarlyBefore(here, q)
      BY <1>1, <2>4, <2>5, <2>7, BeforeIsOrder DEF TagPassed
    <3>6. QED
      <4>1. SetFirst(t, here)
        BY <2>7, <3>5 DEF SetFirst
      <4>2. PICK p \in Places : p = here
        BY <1>1
      <4>3. SetFirst(t, p)' /\ tag'[t] = Expansion(t, p)'
        BY <2>6, <3>4, <4>1, <4>2
      <4>4. QED
        BY <3>4, <4>3
  <2>8. CASE ~ (here \in SetAt(t) /\ tag[t] = None)
    <3>1. \A n \in Wanted : Tags[n] = t => here \in SetAt(t) /\ tag[t] = None
      OBVIOUS
    <3>2. tag'[t] = tag[t]
      BY <2>1, <2>8, <3>1
    <3>3. CASE tag[t] = None
      BY <1>2, <2>4, <2>5, <2>8, <3>2, <3>3
    <3>4. CASE tag[t] # None
      BY <2>5, <2>6, <3>2, <3>4
    <3>5. QED
      BY <3>3, <3>4
  <2>9. QED
    BY <2>7, <2>8
<1>5. QED
  BY <1>3, <1>4 DEF TagsInv

(* The first place that sets a tag prevails over the others.               *)
LEMMA FirstPrevails ==
  ASSUME NEW t, NEW p, SetFirst(t, p)
  PROVE  Prevailing(t, p)
<1>1. p \in Places /\ p \in SetAt(t)
  BY DEF SetFirst, SetAt
<1>2. ASSUME NEW q \in SetAt(t)
      PROVE  q[2] < p[2] \/ (q[2] = p[2] /\ q[1] >= p[1])
  <2>1. q = p \/ EarlyBefore(p, q)
    BY <1>2 DEF SetFirst
  <2>2. p[1] \in Nat /\ q[1] \in Nat /\ p[2] \in Rank /\ q[2] \in Rank
    BY <1>1, SharingAssumption DEF Places, SetAt
  <2>3. QED
    BY <2>1, <2>2 DEF EarlyBefore
<1>3. QED
  BY <1>1, <1>2 DEF Prevailing

(* In the end all places are passed, and what is merged is what the first  *)
(* place says that says something.                                         *)
LEMMA TagsInvEnd ==
  ASSUME TagsInv, TagsMerged, NEW t \in TagNames, t \in Expanded => ~ spoilt
  PROVE  IF tag[t] = None THEN SetAt(t) = {}
         ELSE \E p \in Places : SetFirst(t, p) /\ tag[t] = Expansion(t, p)
<1>1. \A p \in Places : TagPassed(p)
  BY SharingAssumption DEF TagPassed, EarlyBefore, Places, TagsMerged, TagsInv
<1>2. QED
  BY <1>1 DEF TagsInv, SetAt

LEMMA TagsInvImplies == TagsInv => AdministratorsFirst
BY TagsInvEnd, FirstPrevails DEF AdministratorsFirst

-----------------------------------------------------------------------------
(* The launch.                                                             *)

(* A launch merges the sharings as Sharing does, and does nothing else to  *)
(* them.                                                                   *)
THEOREM LaunchShares == Spec => SharingSpec
<1>1. Init => SharingInit
  BY LaunchAssumption DEF Init, SharingInit
<1>2. [Next]_vars => [MixSharings]_sharingVars
  <2>1. UNCHANGED vars => UNCHANGED sharingVars
    BY DEF vars
  <2>2. MergeShares => MixSharings
    BY DEF MergeShares
  <2>3. Next /\ ~ MergeShares => UNCHANGED sharingVars
    BY DEF Next, Prepare, MergeTags, SetConftag, Clone, WriteMap, EnterTime, JoinNext,
           SetSmack, SetGid, SetUid, Exec, ProgramEnds, SetVariables, SetPaths
  <2>4. QED
    BY <2>1, <2>2, <2>3
<1>3. QED
  BY <1>1, <1>2, PTL DEF Spec, SharingSpec

(* The identity taken is one that there is.                                *)
LEMMA EarlyType ==
  ASSUME TypeOK, NEW t \in EarlyTags
  PROVE  Early(t) \in Ids \cup {None}
<1>1. t \in TagNames /\ TagsTypeOK
  BY LaunchAssumption DEF TypeOK
<1>2. EarlyText(t) \in Raw \cup {None}
  <2>1. \A p \in Places : SetFirst(t, p) => Written(t, p) \in Raw
    BY <1>1, WrittenType DEF SetFirst
  <2>2. QED
    BY <2>1, EarlyIsFirst
<1>3. QED
  BY <1>2 DEF Early, Ids

(* Credentials of a process.                                               *)
Creds == [uid : Ids, gid : Ids, smack : Ids \cup {None}, able : BOOLEAN]

(* What fails outside is a Boolean, which no step makes anything else.     *)
LEMMA OutsideType ==
  ASSUME outside \in BOOLEAN, Next
  PROVE  outside' \in BOOLEAN
BY Zenon DEF Next, Prepare, MergeTags, MergeShares, SetConftag, Clone, WriteMap, EnterTime,
   JoinNext, SetSmack, SetGid, SetUid, Exec, ProgramEnds, Join, AbortOutside, ChildFailsOutside,
   SetVariables, SetPaths

(* The identity of the process is changed one field after the other.       *)
LEMMA CredType ==
  ASSUME TypeOK, Next
  PROVE  cred' \in Creds
<1> USE DEF ChildFailsOutside
<1>0. cred \in Creds /\ caller \in {Root, Caller}
  BY DEF TypeOK, Creds
<1>1. CASE UNCHANGED cred
  BY <1>0, <1>1
<1>2. CASE Clone
  BY <1>0, <1>2 DEF Clone, Creds
<1>3. ASSUME NEW i, NEW label, Join(i, label)
      PROVE  cred' \in Creds
  BY <1>0, <1>3 DEF Join, Creds
<1>4. CASE EnterTime
  BY <1>0, <1>3, <1>4 DEF EnterTime
<1>5. CASE JoinNext
  BY <1>0, <1>3, <1>5 DEF JoinNext
<1>6. CASE SetSmack
  BY <1>0, <1>6, EarlyType DEF SetSmack, Creds, EarlyTags
<1>7. Uid \in Ids /\ Gid \in Ids
  BY <1>0, EarlyType DEF Uid, Gid, Ids, EarlyTags
<1>8. CASE SetGid
  BY <1>0, <1>7, <1>8 DEF SetGid, Creds
<1>9. CASE SetUid
  BY <1>0, <1>7, <1>9 DEF SetUid, Creds
<1>10. CASE WriteMap
  BY <1>0, <1>10 DEF WriteMap
<1>11. CASE Exec
  BY <1>0, <1>11 DEF Exec
<1>12. QED
  BY <1>1, <1>2, <1>4, <1>5, <1>6, <1>8, <1>9, <1>10, <1>11
     DEF Next, Prepare, MergeTags, MergeShares, SetConftag, ProgramEnds, SetVariables, SetPaths

(* Each namespace is the host's, the process's own, or joined.             *)
LEMMA NamespacesType ==
  ASSUME ns \in [Spaces -> {"host", "own", "joined"}], Next \/ EnterTime
  PROVE  ns' \in [Spaces -> {"host", "own", "joined"}]
BY DEF Next, Prepare, MergeTags, MergeShares, SetConftag, Clone, WriteMap, EnterTime,
   JoinNext, SetSmack, SetGid, SetUid, Exec, ProgramEnds, Join, ChildFailsOutside,
   SetVariables, SetPaths

(* The launcher and its child go from one of their labels to another, and  *)
(* what is returned is one of five results.                                *)
LEMMA LabelType ==
  ASSUME TypeOK, Next
  PROVE  /\ pc' \in {"scan", "vars", "tags", "shares", "conftag", "paths", "clone", "map",
                     "time", "join", "gid", "uid", "exec", "program", "ended", "over"}
         /\ result' \in {None, 0, 1, FailureStatus, ViaMain}
  BY DEF Next, Prepare, MergeTags, MergeShares, SetConftag, Clone, WriteMap, EnterTime,
     JoinNext, SetSmack, SetGid, SetUid, Exec, ProgramEnds, Join, ChildFailsOutside, ChildExits,
     ChildReturns, Abort, AbortOutside, Goto, TypeOK, SetVariables, SetPaths

(* The variables keep their types in every launch.                         *)
THEOREM LaunchTypeCorrect == Spec => []TypeOK
<1>1. Init => TypeOK
  <2> SUFFICES ASSUME Init PROVE TypeOK
    OBVIOUS
  <2>1. conf \in Families /\ strs \in TagFamilies
    BY LaunchAssumption DEF Init
  <2>2. SharingTypeOK
    BY <2>1, SharingAssumption DEF Init, SharingStart, SharingTypeOK, Share, Nothing, Settings
  <2>3. tag \in [TagNames -> Values \cup {None}] /\ tagAt \in [admin : Rank, depth : 0..Height]
    BY SharingAssumption DEF Init, TagsStart
  <2>4. spoilt \in BOOLEAN /\ outside \in BOOLEAN
    BY DEF Init, TagsStart
  <2>5. cred \in Creds
    BY DEF Init, Ids, Creds
  <2>6. 0 \in 0..Len(Joins)
    BY LaunchAssumption
  <2>7. ns \in [Spaces -> {"host", "own", "joined"}]
    BY DEF Init
  <2>8. pc = "scan" /\ joining = 0 /\ argv = {} /\ unshares = 0 /\ result = None
        /\ caller \in {Root, Caller}
    BY DEF Init
  <2>10. forced \subseteq EarlyTags
    BY LaunchAssumption DEF Init
  <2>9. QED
    BY <2>1, <2>2, <2>3, <2>4, <2>5, <2>6, <2>7, <2>8, <2>10 DEF TypeOK, TagsTypeOK, Creds
<1>2. TypeOK /\ SharingTypeOK' /\ [Next]_vars => TypeOK'
  <2> SUFFICES ASSUME TypeOK, SharingTypeOK', [Next]_vars PROVE TypeOK'
    OBVIOUS
  <2>1. CASE UNCHANGED vars
    BY <2>1 DEF TypeOK, TagsTypeOK, vars, tagVars, launchVars
  <2>2. CASE Next
    <3>1. TagsTypeOK'
      <4>1. CASE MergeTags
        BY <4>1, TagsTypeStep DEF MergeTags, TypeOK
      <4>2. CASE UNCHANGED tagVars
        BY <4>2 DEF TypeOK, TagsTypeOK, tagVars
      <4>3. QED
        BY <2>2, <4>1, <4>2 DEF Next, Prepare, MergeShares, SetConftag, Clone, WriteMap,
           EnterTime, JoinNext, SetSmack, SetGid, SetUid, Exec, ProgramEnds, SetVariables, SetPaths
    <3>2. outside' \in BOOLEAN
      BY <2>2, OutsideType DEF TypeOK
    <3>3. cred' \in Creds
      BY <2>2, CredType
    <3>4. ns' \in [Spaces -> {"host", "own", "joined"}]
      BY <2>2, NamespacesType DEF TypeOK
    <3>5. joining' \in 0..Len(Joins)
      BY <2>2, LaunchAssumption DEF TypeOK, Next, Prepare, MergeTags, MergeShares, SetConftag,
         Clone, WriteMap, EnterTime, JoinNext, SetSmack, SetGid, SetUid, Exec, ProgramEnds, SetVariables,
         SetPaths
    <3>6. argv' \subseteq Spaces \ {"time"}
      BY <2>2 DEF TypeOK, Next, Prepare, MergeTags, MergeShares, SetConftag, SetShares,
         Clone, WriteMap, EnterTime, JoinNext, SetSmack, SetGid, SetUid, Exec, ProgramEnds, SetVariables,
         SetPaths
    <3>7. unshares' \in Nat /\ caller' \in {Root, Caller} /\ forced' \subseteq EarlyTags
      BY <2>2 DEF TypeOK, Next, Prepare, MergeTags, MergeShares, SetConftag, Clone,
         WriteMap, EnterTime, JoinNext, SetSmack, SetGid, SetUid, Exec, ProgramEnds, SetVariables,
         SetPaths
    <3>8. QED
      BY <2>2, <3>1, <3>2, <3>3, <3>4, <3>5, <3>6, <3>7, LabelType DEF TypeOK, Creds
  <2>3. QED
    BY <2>1, <2>2
<1>3. Spec => []SharingTypeOK
  BY LaunchShares, SharingTypeCorrect, PTL
<1>4. QED
  BY <1>1, <1>2, <1>3, PTL DEF Spec

(* A step that leaves the sharings alone leaves alone what is made of them. *)
LEMMA SharingsKept ==
  ASSUME UNCHANGED sharingVars
  PROVE  /\ rc' = rc
         /\ \A i : Merged(i)' = Merged(i)
         /\ UnsharesTime' = UnsharesTime
         /\ ClonesUser' = ClonesUser
         /\ Asked' = Asked
<1>1. rc' = rc /\ \A i : Merged(i)' = Merged(i)
  BY DEF sharingVars, Merged
<1>2. QED
  BY <1>1 DEF UnsharesTime, ClonesUser, Asked

(* LaunchInv through the steps of the launcher.                            *)
LEMMA LauncherStep ==
  ASSUME TypeOK, LaunchInv,
         \/ SetVariables \/ SetPaths
         \/ (Prepare \/ MergeTags \/ MergeShares \/ SetConftag) /\ UNCHANGED envVars
  PROVE  LaunchInv'
<1> USE DEF Goto, AbortOutside, Abort
<1>1. /\ Prepares /\ unshares' = unshares /\ ns' = ns /\ cred' = cred /\ caller' = caller
  BY DEF Prepare, MergeTags, MergeShares, SetConftag, SetVariables, SetPaths, Prepares
<1>2. unshares = 0 /\ ns = [i \in Spaces |-> "host"] /\ (cred.able <=> caller = Root)
  BY <1>1 DEF LaunchInv
<1>3. pc' \in {"vars", "tags", "shares", "conftag", "paths", "clone", "over"}
  BY DEF Prepare, MergeTags, MergeShares, SetConftag, SetVariables, SetPaths
<1>4. pc' = "conftag" => rc' = "ok"
  BY DEF Prepare, MergeTags, MergeShares, SetConftag, SetVariables, SetPaths
<1>5. pc' = "paths" => rc' = "ok" /\ argv' = Asked'
  <2>1. pc' = "paths" => (SetConftag /\ SetShares) \/ SetPaths
    BY DEF Prepare, MergeTags, MergeShares, SetConftag, SetVariables
  <2>2. SetConftag => pc = "conftag" /\ UNCHANGED sharingVars
    BY DEF SetConftag
  <2>3. SetPaths => pc = "paths" /\ UNCHANGED sharingVars /\ argv' = argv
    BY DEF SetPaths
  <2>4. QED
    BY <2>1, <2>2, <2>3, SharingsKept DEF SetShares, Asked, LaunchInv
<1>6. pc' = "clone" => rc' = "ok" /\ argv' = Asked' /\ part' = "set"
  <2>1. pc' = "clone" => SetPaths /\ part' = "set"
    BY DEF Prepare, MergeTags, MergeShares, SetConftag, SetVariables, SetPaths
  <2>2. SetPaths => pc = "paths" /\ UNCHANGED sharingVars /\ argv' = argv
    BY DEF SetPaths
  <2>3. QED
    BY <2>1, <2>2, SharingsKept DEF LaunchInv
<1>7. QED
  BY <1>1, <1>2, <1>3, <1>4, <1>5, <1>6 DEF LaunchInv, Prepares, Child

(* LaunchInv through the clone.                                            *)
LEMMA CloneStep ==
  ASSUME TypeOK, LaunchInv, Clone, part' = part, null' = null
  PROVE  LaunchInv'
<1>1. pc = "clone" /\ UNCHANGED sharingVars /\ argv' = argv /\ caller' = caller
  BY DEF Clone
<1>2. /\ part = "set" /\ rc = "ok" /\ argv = Asked /\ unshares = 0 /\ ns = [i \in Spaces |-> "host"]
      /\ cred.able <=> caller = Root
  BY <1>1 DEF LaunchInv, Prepares
<1>3. CASE pc' = "over"
  BY <1>3 DEF LaunchInv, Prepares, Child
<1>4. CASE pc' = "map"
  <2>1. "user" \in Spaces /\ "time" \in Spaces
    BY LaunchAssumption, SharingAssumption DEF Spaces
  <2>2. unshares' = (IF ClonesUser THEN 1 ELSE 0)
    BY <1>2, <1>4 DEF Clone, AbortOutside, Abort, Goto
  <2>3. ns' = IF ClonesUser THEN [ns EXCEPT !["user"] = "own"] ELSE ns
    BY <1>4 DEF Clone, AbortOutside, Abort, Goto
  <2>4. cred'.able <=> caller = Root \/ ClonesUser
    BY <1>2, <1>4 DEF Clone, AbortOutside, Abort, Goto, TypeOK
  <2>5. /\ ns'["time"] = "host" /\ (ns'["user"] = "own" <=> ClonesUser)
        /\ \A i \in Spaces \ {"time", "user"} : ns'[i] # "own"
        /\ \A i \in Spaces : ns'[i] # "joined"
    BY <1>2, <2>1, <2>3
  <2>6. QED
    BY <1>1, <1>2, <1>4, <2>2, <2>4, <2>5, SharingsKept DEF LaunchInv, Prepares, Child, TimeKept
<1>5. QED
  BY <1>3, <1>4 DEF Clone, AbortOutside, Abort, Goto

(* LaunchInv through the steps of the child that change no namespace.      *)
LEMMA IdentityStep ==
  ASSUME TypeOK, LaunchInv, WriteMap \/ SetSmack \/ SetGid \/ SetUid,
         part' = part, null' = null
  PROVE  LaunchInv'
<1>1. /\ Child /\ UNCHANGED sharingVars /\ argv' = argv /\ caller' = caller
      /\ unshares' = unshares /\ ns' = ns
  BY DEF WriteMap, SetSmack, SetGid, SetUid, ChildExits, ChildReturns, ChildFailsOutside, Child
<1>2. CASE pc' = "over"
  BY <1>2 DEF LaunchInv, Prepares, Child
<1>3. CASE pc' # "over"
  <2>1. \/ pc = "map" /\ pc' = "time" /\ cred' = cred
        \/ pc \in {"join", "gid", "uid"} /\ pc' \in {"gid", "uid", "exec"} /\ outside' = outside
    BY <1>3 DEF WriteMap, SetSmack, SetGid, SetUid, ChildExits, ChildReturns, ChildFailsOutside, Goto
  <2>2. QED
    BY <1>1, <2>1, SharingsKept DEF LaunchInv, Prepares, Child, TimeKept, TimeLeft
<1>4. QED
  BY <1>2, <1>3

(* LaunchInv through the joins.                                            *)
LEMMA JoinStep ==
  ASSUME TypeOK, LaunchInv, EnterTime \/ JoinNext,
         part' = part, null' = null
  PROVE  LaunchInv'
<1>1. /\ pc = "time" \/ pc = "join"
      /\ UNCHANGED sharingVars /\ argv' = argv /\ caller' = caller /\ unshares' = unshares
  BY DEF EnterTime, JoinNext
<1>2. CASE pc' = "over"
  BY <1>2 DEF LaunchInv, Prepares, Child
<1>3. "user" \in Spaces /\ "time" \in Spaces
  BY LaunchAssumption, SharingAssumption DEF Spaces
<1>4. ASSUME NEW i \in Spaces, Join(i, "join"), pc' # "over"
      PROVE  pc' = "join" /\ ns' = [ns EXCEPT ![i] = "joined"] /\ outside' = outside
  BY <1>4 DEF Join, ChildExits, ChildReturns, ChildFailsOutside, Goto
<1>5. CASE EnterTime /\ pc' # "over"
  <2>1. pc = "time" /\ ns["time"] = "host" /\ (cred.able <=> caller = Root \/ ClonesUser)
    BY <1>5 DEF EnterTime, LaunchInv
  <2>2. pc' = "join"
    BY <1>3, <1>4, <1>5 DEF EnterTime, Goto
  <2>3. ns' \in [Spaces -> {"host", "own", "joined"}]
    BY <1>5, NamespacesType DEF TypeOK
  <2>4. \A i \in Spaces \ {"time"} : ns'[i] = ns[i]
    BY <1>3, <1>4, <1>5 DEF EnterTime, TypeOK
  <2>5. /\ ns'["time"] = "own" => Type(Merged("time")) = "disabled"
        /\ ns'["time"] = "joined" => Type(Merged("time")) = "join"
    BY <1>3, <1>4, <1>5, <2>1 DEF EnterTime, TypeOK
  <2>6. Type(Merged("time")) = "disabled" /\ ~ outside' /\ (caller = Root \/ ClonesUser)
          => ns'["time"] = "own"
    BY <1>3, <1>5, <2>1 DEF EnterTime, TypeOK, UnsharesTime
  <2>7. QED
    BY <1>1, <1>3, <2>1, <2>2, <2>3, <2>4, <2>5, <2>6, SharingsKept
       DEF LaunchInv, Prepares, Child, TimeKept, TimeLeft
<1>6. CASE JoinNext /\ pc' # "over"
  <2>1. NextJoin \in Spaces \ {"time"}
    BY <1>6, LaunchAssumption DEF JoinNext, TypeOK, NextJoin, Spaces
  <2>2. pc = "join" /\ pc' = "join" /\ outside' = outside
    BY <1>4, <1>6, <2>1 DEF JoinNext
  <2>3. \/ ns' = ns
        \/ Type(Merged(NextJoin)) = "join" /\ ns' = [ns EXCEPT ![NextJoin] = "joined"]
    BY <1>4, <1>6, <2>1 DEF JoinNext
  <2>4. ns["user"] = "own" => ns'["user"] = "own"
    BY <1>3, <2>1, <2>2, <2>3 DEF LaunchInv, Child, ClonesUser, Isolates, TypeOK
  <2>5. \A i \in Spaces : ns'[i] = ns[i] \/ (i # "time" /\ Type(Merged(i)) = "join" /\ ns'[i] = "joined")
    BY <2>1, <2>3 DEF TypeOK
  <2>6. QED
    BY <1>1, <1>3, <2>2, <2>4, <2>5, SharingsKept DEF LaunchInv, Prepares, Child, TimeKept, TimeLeft
<1>7. QED
  BY <1>2, <1>5, <1>6

(* LaunchInv through what bwrap does and the end of the program.           *)
LEMMA ProgramStep ==
  ASSUME TypeOK, LaunchInv, Exec \/ ProgramEnds, part' = part, null' = null
  PROVE  LaunchInv'
<1>1. UNCHANGED sharingVars /\ caller' = caller
  BY DEF Exec, ProgramEnds
<1>2. CASE pc' = "over"
  BY <1>2 DEF LaunchInv, Prepares, Child
<1>3. CASE ProgramEnds
  BY <1>1, <1>3, SharingsKept DEF ProgramEnds, Goto, LaunchInv, Prepares, Child, TimeKept, TimeLeft
<1>4. CASE Exec /\ pc' # "over"
  <2>1. /\ pc = "exec" /\ pc' = "program" /\ outside' = outside
        /\ ~ null
        /\ ns' = [i \in Spaces |-> IF i \in argv THEN "own" ELSE ns[i]]
        /\ unshares' = IF "user" \in argv THEN unshares + 1 ELSE unshares
    BY <1>4 DEF Exec, Goto, ChildFailsOutside, ChildExits, ChildReturns
  <2>2. /\ rc = "ok" /\ argv = Asked /\ part = "set"
        /\ unshares = IF ClonesUser THEN 1 ELSE 0
        /\ ns["user"] = "own" <=> ClonesUser
        /\ \A i \in Spaces \ {"time", "user"} : ns[i] # "own"
        /\ \A i \in Spaces : ns[i] = "joined" => Type(Merged(i)) = "join"
        /\ TimeKept /\ TimeLeft
    BY <2>1 DEF LaunchInv, Child
  <2>3. "user" \in Spaces \ {"time"} /\ "time" \in Spaces
    BY LaunchAssumption, SharingAssumption DEF Spaces
  <2>4. "user" \in argv <=> Isolates(Merged("user")) /\ ~ UnsharesTime
    BY <2>2, <2>3 DEF Asked
  <2>5. unshares' = IF Isolates(Merged("user")) THEN 1 ELSE 0
    BY <2>1, <2>2, <2>4 DEF ClonesUser
  <2>6. \A i \in Spaces \ {"time"} :
          /\ ns'[i] = "own" <=> Isolates(Merged(i))
          /\ ns'[i] = "joined" => Type(Merged(i)) = "join"
    BY <2>1, <2>2, <2>4 DEF Asked, ClonesUser
  <2>7. ns'["time"] = ns["time"]
    BY <2>1, <2>2, <2>3 DEF Asked
  <2>8. QED
    BY <1>1, <2>1, <2>2, <2>5, <2>6, <2>7, SharingsKept
       DEF LaunchInv, Prepares, Child, TimeKept, TimeLeft
<1>5. QED
  BY <1>2, <1>3, <1>4

(* The namespaces are made as LaunchInv says at every point of the chain.  *)
THEOREM LaunchInvCorrect == Spec => []LaunchInv
<1>1. Init => LaunchInv
  <2> SUFFICES ASSUME Init PROVE LaunchInv
    OBVIOUS
  <2>1. cred.able <=> caller = Root
    BY Zenon DEF Init
  <2>2. pc = "scan" /\ unshares = 0 /\ ns = [i \in Spaces |-> "host"]
    BY DEF Init
  <2>3. QED
    BY <2>1, <2>2 DEF LaunchInv, Prepares, Child
<1>2. TypeOK /\ LaunchInv /\ [Next]_vars => LaunchInv'
  <2>1. TypeOK /\ LaunchInv /\ Next => LaunchInv'
    <3>1. UNCHANGED envVars => part' = part /\ null' = null
      BY DEF envVars, ownVars
    <3>2. QED
      BY <3>1, LauncherStep, CloneStep, IdentityStep, JoinStep, ProgramStep DEF Next
  <2>2. LaunchInv /\ UNCHANGED vars => LaunchInv'
    <3>1. UNCHANGED vars =>
            /\ UNCHANGED sharingVars /\ UNCHANGED launchVars
            /\ part' = part /\ null' = null
      BY DEF vars, envVars, ownVars
    <3>2. QED
      BY <3>1, SharingsKept DEF LaunchInv, Prepares, Child, TimeKept, TimeLeft, launchVars
  <2>3. QED
    BY <2>1, <2>2
<1>3. QED
  BY <1>1, <1>2, LaunchTypeCorrect, PTL DEF Spec

(* What is merged of a namespace, in the terms of the configurations: it   *)
(* is isolated exactly if it should be, and joins a file only if one of    *)
(* the settings that count names it.                                       *)
LEMMA MergedMeaning ==
  ASSUME SharingTypeOK, SharingInv, ForbiddenStaysForbidden, rc = "ok", NEW i \in Items
  PROVE  /\ i # "time" => (Isolates(Merged(i)) <=> Isolated(i))
         /\ i = "time" => (Type(Merged(i)) = "disabled" <=> Isolated(i))
         /\ Type(Merged(i)) = "join" =>
              \/ Named(i)
              \/ i # "time" /\ Silent(i) /\ Named("all")
<1>1. "all" \in Items /\ "time" \in Items
  BY SharingAssumption
<1>2. ASSUME NEW v \in Settings
      PROVE  /\ Isolates(v) <=> v \in {"unset", "disabled"}
             /\ Type(v) = "disabled" <=> v = "disabled"
             /\ Type(v) = "join" => v \in Paths
  BY <1>2, SharingAssumption DEF Isolates, Type, Settings
<1>3. ASSUME NEW j \in Items
      PROVE  /\ share[j].value \in Settings
             /\ share[j].value = "disabled" <=> Forbidden(j)
             /\ share[j].value = "unset" <=> Silent(j)
             /\ share[j].value \in Paths => Named(j)
  <2>1. ItemPassed(j) /\ share[j].value \in Settings /\ share[j].admin \in Rank
    BY DEF SharingInv, SharingTypeOK, Share
  <2>2. share[j].value \in Paths => share[j].value # "unset"
    BY SharingAssumption
  <2>3. share[j].value \in Paths => Named(j)
    BY <2>1, <2>2 DEF ItemPassed, Named
  <2>4. QED
    BY <2>1, <2>3 DEF ForbiddenStaysForbidden, Silent
<1>4. CASE i = "time"
  <2>1. Isolated(i) <=> Forbidden(i)
    BY <1>4 DEF Isolated
  <2>2. Merged(i) = share[i].value
    BY <1>4 DEF Merged
  <2>3. QED
    BY <1>2, <1>3, <1>4, <2>1, <2>2
<1>5. CASE i # "time"
  <2>1. Forbidden(i) => ~ Silent(i)
    BY <1>3
  <2>2. Merged(i) = IF Silent(i) THEN share["all"].value ELSE share[i].value
    BY <1>3, <1>5 DEF Merged
  <2>3. QED
    BY <1>1, <1>2, <1>3, <1>5, <2>1, <2>2 DEF Isolated
<1>6. QED
  BY <1>4, <1>5

(* Whatever the family, its namespaces and its tags, the program runs in   *)
(* the namespaces that the configurations order, and below no more than    *)
(* one new user namespace.                                                 *)
THEOREM RunsIsolatedCorrect == Spec => []RunsIsolated
<1>1. TypeOK /\ SharingInv /\ ForbiddenStaysForbidden /\ LaunchInv => RunsIsolated
  <2> SUFFICES ASSUME TypeOK, SharingInv, ForbiddenStaysForbidden, LaunchInv,
                      pc \in {"program", "ended"}
               PROVE  /\ \A i \in Spaces \ {"time"} :
                           /\ ns[i] = "own" <=> Isolated(i)
                           /\ ns[i] = "joined" => Named(i) \/ (Silent(i) /\ Named("all"))
                      /\ unshares = IF Isolated("user") THEN 1 ELSE 0
                      /\ ns["time"] = "own" => Isolated("time")
                      /\ ns["time"] = "joined" => Named("time")
                      /\ Isolated("time") /\ ~ outside /\ (caller = Root \/ Isolated("user"))
                           => ns["time"] = "own"
    BY DEF RunsIsolated
  <2>1. rc = "ok" /\ SharingTypeOK
    BY DEF LaunchInv, TypeOK
  <2>2. /\ unshares = IF Isolates(Merged("user")) THEN 1 ELSE 0
        /\ \A i \in Spaces \ {"time"} :
             /\ ns[i] = "own" <=> Isolates(Merged(i))
             /\ ns[i] = "joined" => Type(Merged(i)) = "join"
        /\ TimeKept /\ TimeLeft
    BY DEF LaunchInv
  <2>3. \A i \in Items :
          /\ i # "time" => (Isolates(Merged(i)) <=> Isolated(i))
          /\ i = "time" => (Type(Merged(i)) = "disabled" <=> Isolated(i))
          /\ Type(Merged(i)) = "join" => Named(i) \/ (i # "time" /\ Silent(i) /\ Named("all"))
    BY <2>1, MergedMeaning
  <2>4. "user" \in Items /\ "time" \in Items /\ Spaces \subseteq Items
    BY LaunchAssumption, SharingAssumption DEF Spaces
  <2>5. Isolated("time") /\ (caller = Root \/ Isolated("user")) => caller = Root \/ ClonesUser
    BY <2>3, <2>4 DEF ClonesUser, UnsharesTime
  <2>6. QED
    BY <2>2, <2>3, <2>4, <2>5 DEF TimeKept, TimeLeft
<1>2. Spec => []SharingInv /\ []ForbiddenStaysForbidden
  BY LaunchShares, SharingInvCorrect, ForbiddenCorrect, PTL
<1>3. QED
  BY <1>1, <1>2, LaunchTypeCorrect, LaunchInvCorrect, PTL

(* A launch merges the tags as the two loops do, and does nothing else to  *)
(* them: what they have passed so far is as TagsInv says.                  *)
THEOREM TagsInvCorrect == Spec => []TagsInv
<1>1. Init => TagsInv
  BY TagsInvStart DEF Init
<1>2. TypeOK /\ TagsInv /\ [Next]_vars => TagsInv'
  <2> SUFFICES ASSUME TypeOK, TagsInv, [Next]_vars PROVE TagsInv'
    OBVIOUS
  <2>1. CASE MergeTags
    BY <2>1, TagsInvStep DEF MergeTags, TypeOK
  <2>2. CASE UNCHANGED tagVars
    BY <2>2 DEF tagVars, TagsInv, TagsMerged, TagPassed, SetFirst, EarlyBefore, SetAt, Expansion, Written
  <2>3. MergeTags \/ UNCHANGED tagVars
    BY DEF vars, Next, Prepare, MergeShares, SetConftag, Clone, WriteMap, EnterTime,
       JoinNext, SetSmack, SetGid, SetUid, Exec, ProgramEnds, SetVariables, SetPaths
  <2>4. QED
    BY <2>1, <2>2, <2>3
<1>3. QED
  BY <1>1, <1>2, LaunchTypeCorrect, PTL DEF Spec

(* In families of any height, a tag is the nearest administrator's, or     *)
(* else the nearest normal configuration's, and as the loops of mixConfTags *)
(* have merged it.                                                         *)
THEOREM TagsCorrect == Spec => []AdministratorsFirst
BY TagsInvImplies, TagsInvCorrect, PTL

(* What is ordered does not change while it is carried out.                *)
LEMMA OrdersKept ==
  ASSUME [Next]_vars
  PROVE  /\ caller' = caller /\ forced' = forced /\ strs' = strs
         /\ Uid' = Uid /\ Gid' = Gid /\ \A t : Early(t)' = Early(t)
         /\ \A t : SetAt(t)' = SetAt(t) /\ \A p : Written(t, p)' = Written(t, p)
<1>1. caller' = caller /\ forced' = forced
  BY DEF vars, launchVars, Next, Prepare, MergeTags, MergeShares, SetConftag, Clone, WriteMap,
     EnterTime, JoinNext, SetSmack, SetGid, SetUid, Exec, ProgramEnds, SetVariables, SetPaths
<1>2. strs' = strs
  BY DEF vars, tagVars, Next, Prepare, MergeTags, MixBasicConftag, MergeShares, SetConftag, Clone,
     WriteMap, EnterTime, JoinNext, SetSmack, SetGid, SetUid, Exec, ProgramEnds, SetVariables,
     SetPaths
<1>3. \A t : SetAt(t)' = SetAt(t) /\ \A p : Written(t, p)' = Written(t, p)
  BY <1>2 DEF SetAt, Written
<1>4. \A t : EarlyText(t)' = EarlyText(t)
  BY <1>2 DEF EarlyText, SetAt, Written, EarlyBefore
<1>5. \A t : Early(t)' = Early(t)
  BY <1>1, <1>4 DEF Early
<1>6. QED
  BY <1>1, <1>2, <1>3, <1>5 DEF Uid, Gid

(* IdentityInv through the steps that take no identity.                    *)
LEMMA IdentityKept ==
  ASSUME TypeOK, IdentityInv, [Next]_vars, ~ SetSmack, ~ SetGid, ~ SetUid
  PROVE  IdentityInv'
<1>1. /\ cred'.uid = cred.uid /\ cred'.gid = cred.gid /\ cred'.smack = cred.smack
  <2>1. CASE UNCHANGED cred
    BY <2>1
  <2>2. ASSUME NEW i, NEW label, Join(i, label)
        PROVE  cred'.uid = cred.uid /\ cred'.gid = cred.gid /\ cred'.smack = cred.smack
    BY <2>2 DEF Join, ChildFailsOutside, TypeOK
  <2>3. CASE EnterTime
    BY <2>2, <2>3 DEF EnterTime
  <2>4. CASE JoinNext
    BY <2>2, <2>4 DEF JoinNext
  <2>5. CASE Clone
    BY <2>5 DEF Clone, TypeOK
  <2>6. CASE WriteMap \/ Exec
    BY <2>6 DEF WriteMap, Exec, ChildFailsOutside
  <2>7. QED
    BY <2>1, <2>3, <2>4, <2>5, <2>6
       DEF vars, launchVars, Next, Prepare, MergeTags, MergeShares, SetConftag, ProgramEnds,
       SetVariables, SetPaths
<1>2. \/ pc' = "over"
      \/ Prepares /\ (Prepares' \/ pc' = "map")
      \/ pc \in {"map", "time", "join"} /\ pc' \in {"time", "join"}
      \/ pc \in {"exec", "program"} /\ pc' \in {"program", "ended"}
      \/ pc' = pc
  <2>1. CASE UNCHANGED vars
    BY <2>1 DEF vars, launchVars
  <2>2. CASE Prepare \/ MergeTags \/ MergeShares \/ SetConftag \/ SetVariables \/ SetPaths \/ Clone
    BY <2>2 DEF Prepare, MergeTags, MergeShares, SetConftag, SetVariables, SetPaths, Clone,
       AbortOutside, Abort, Goto, Prepares
  <2>3. CASE WriteMap \/ EnterTime \/ JoinNext
    BY <2>3 DEF WriteMap, EnterTime, JoinNext, Join, ChildFailsOutside, ChildExits, ChildReturns, Goto
  <2>4. CASE Exec \/ ProgramEnds
    BY <2>4 DEF Exec, ProgramEnds, ChildFailsOutside, ChildExits, ChildReturns, Goto
  <2>5. QED
    BY <2>1, <2>2, <2>3, <2>4 DEF Next
<1>3. pc' # "over" /\ pc' # "scan" => ~ Nobody(Uid') /\ ~ Nobody(Gid')
  <2>1. CASE pc # "over" /\ pc # "scan"
    BY <2>1, OrdersKept DEF IdentityInv
  <2>2. CASE pc = "over"
    BY <1>2, <2>2 DEF Prepares
  <2>3. CASE pc = "scan" /\ ~ UNCHANGED vars
    <3>1. Prepare
      BY <2>3 DEF Next, SetVariables, SetPaths, MergeTags, MergeShares, SetConftag, Clone, WriteMap,
         EnterTime, JoinNext, Exec, ProgramEnds
    <3>2. QED
      BY <3>1, OrdersKept DEF Prepare, AbortOutside, Abort, Goto
  <2>4. CASE pc = "scan" /\ UNCHANGED vars
    BY <2>4 DEF vars, launchVars
  <2>5. QED
    BY <2>1, <2>2, <2>3, <2>4
<1>4. QED
  BY <1>1, <1>2, <1>3, OrdersKept DEF IdentityInv, Prepares, Nobody

(* IdentityInv through the steps that take one.                            *)
LEMMA IdentityTaken ==
  ASSUME TypeOK, IdentityInv, [Next]_vars, SetSmack \/ SetGid \/ SetUid
  PROVE  IdentityInv'
<1> USE OrdersKept DEF IdentityInv, Prepares, Nobody
<1>1. CASE pc' = "over"
  BY <1>1
<1>2. CASE SetSmack /\ pc' # "over"
  <2>1. pc = "join" /\ pc' = "gid"
    BY <1>2 DEF SetSmack, ChildFailsOutside, ChildExits, Goto
  <2>2. cred'.smack = Early("smack") /\ cred'.uid = cred.uid /\ cred'.gid = cred.gid
    BY <1>2, <2>1 DEF SetSmack, ChildFailsOutside, ChildExits, Goto, TypeOK
  <2>3. QED
    BY <2>1, <2>2
<1>3. CASE SetGid /\ pc' # "over"
  <2>1. pc = "gid" /\ pc' = "uid"
    BY <1>3 DEF SetGid, ChildFailsOutside, ChildReturns, Goto
  <2>2. cred' = [cred EXCEPT !.gid = Gid]
    BY <1>3, <2>1 DEF SetGid, ChildFailsOutside, ChildReturns, Goto
  <2>3. QED
    BY <2>1, <2>2 DEF TypeOK
<1>4. CASE SetUid /\ pc' # "over"
  <2>1. pc = "uid" /\ pc' = "exec"
    BY <1>4 DEF SetUid, ChildFailsOutside, ChildReturns, Goto
  <2>2. cred'.uid = Uid /\ cred'.gid = cred.gid /\ cred'.smack = cred.smack
    BY <1>4, <2>1 DEF SetUid, ChildFailsOutside, ChildReturns, Goto, TypeOK
  <2>3. QED
    BY <2>1, <2>2
<1>5. QED
  BY <1>1, <1>2, <1>3, <1>4

(* What is taken of a tag is what the launch orders of it.                 *)
LEMMA EarlyIsOrdered ==
  ASSUME TypeOK, NEW t \in EarlyTags, NEW own
  PROVE  Orders(t, IF Early(t) = None THEN own ELSE Early(t), own)
<1>1. CASE t \in forced
  BY <1>1, LaunchAssumption DEF Early, Orders, Given
<1>2. CASE t \notin forced /\ SetAt(t) = {}
  BY <1>2, EarlyIsFirst DEF Early, Orders
<1>3. CASE t \notin forced /\ SetAt(t) # {}
  <2>1. PICK p \in Places : SetFirst(t, p) /\ EarlyText(t) = Written(t, p)
    BY <1>3, EarlyIsFirst
  <2>2. Prevailing(t, p)
    BY <2>1, FirstPrevails
  <2>3. EarlyText(t) # None
    <3>1. t \in TagNames /\ TagsTypeOK /\ p \in SetAt(t)
      BY <2>1, LaunchAssumption DEF TypeOK, SetFirst
    <3>2. Written(t, p) \in Raw
      BY <3>1, WrittenType
    <3>3. QED
      BY <2>1, <3>2, TagsAssumption, SharingAssumption DEF Raw
  <2>4. QED
    BY <1>3, <2>1, <2>2, <2>3 DEF Early, Orders
<1>4. QED
  BY <1>1, <1>2, <1>3

(* What has been taken of the identity so far is as IdentityInv says.       *)
THEOREM LaunchIdentityCorrect == Spec => []IdentityInv
<1>1. Init => IdentityInv
  BY DEF Init, IdentityInv, Prepares
<1>2. TypeOK /\ IdentityInv /\ [Next]_vars => IdentityInv'
  BY IdentityKept, IdentityTaken
<1>3. QED
  BY <1>1, <1>2, LaunchTypeCorrect, PTL DEF Spec

(* The program runs as the user, in the group and under the label that the *)
(* command line and the configurations order, in families of any height.   *)
THEOREM RunsAsAskedCorrect == Spec => []RunsAsAsked
<1>1. TypeOK /\ IdentityInv => RunsAsAsked
  BY EarlyIsOrdered DEF IdentityInv, RunsAsAsked, Uid, Gid, EarlyTags
<1>2. QED
  BY <1>1, LaunchTypeCorrect, LaunchIdentityCorrect, PTL

(* All tags are merged before the sharings are.                            *)
TagsEnd == pc \in {"scan", "vars", "tags", "over"} \/ TagsMerged

LEMMA TagsEndStep ==
  ASSUME TagsEnd, [Next]_vars
  PROVE  TagsEnd'
<1> USE DEF Goto
<1>1. CASE MergeTags
  BY <1>1 DEF MergeTags, TagsEnd, TagsMerged
<1>2. CASE UNCHANGED tagVars
  <2>1. TagsMerged' <=> TagsMerged
    BY <1>2 DEF tagVars, TagsMerged
  <2>2. pc \in {"scan", "vars", "tags", "over"} => pc' \in {"scan", "vars", "tags", "over"} \/ MergeTags
    BY DEF vars, launchVars, Next, Prepare, MergeShares, SetConftag, Clone, WriteMap, EnterTime,
       JoinNext, SetSmack, SetGid, SetUid, Exec, ProgramEnds, SetVariables, SetPaths, Abort,
       AbortOutside
  <2>3. QED
    BY <1>1, <2>1, <2>2 DEF TagsEnd
<1>3. MergeTags \/ UNCHANGED tagVars
  BY DEF vars, Next, Prepare, MergeShares, SetConftag, Clone, WriteMap, EnterTime,
     JoinNext, SetSmack, SetGid, SetUid, Exec, ProgramEnds, SetVariables, SetPaths
<1>4. QED
  BY <1>1, <1>2, <1>3

(* What mixEarlyConf makes of a tag and what mixConfTags makes of it are   *)
(* the same text, expanded by the latter if it must be.                    *)
LEMMA EarlyIsShown ==
  ASSUME TypeOK, TagsInv, TagsMerged, ~ spoilt, NEW t \in EarlyTags
  PROVE  \/ EarlyText(t) = None /\ tag[t] = None
         \/ EarlyText(t) \in Raw /\ tag[t] # None /\ tag[t] = EarlyText(t)
         \/ \E p \in Places : /\ EarlyText(t) = Written(t, p) /\ EarlyText(t) \in Raw
                             /\ EarlyText(t)[3] = "dollar" /\ tag[t] = <<p[1], p[2], "expanded">>
<1>1. t \in TagNames /\ TagsTypeOK
  BY LaunchAssumption DEF TypeOK
<1>2. IF tag[t] = None THEN SetAt(t) = {}
      ELSE \E p \in Places : SetFirst(t, p) /\ tag[t] = Expansion(t, p)
  BY <1>1, TagsInvEnd
<1>3. CASE SetAt(t) = {}
  BY <1>2, <1>3, EarlyIsFirst DEF SetFirst
<1>4. CASE SetAt(t) # {}
  <2>1. PICK p \in Places : SetFirst(t, p) /\ EarlyText(t) = Written(t, p)
    BY <1>4, EarlyIsFirst
  <2>2. PICK q \in Places : SetFirst(t, q) /\ tag[t] = Expansion(t, q)
    BY <1>2, <1>4
  <2>3. p = q
    BY <2>1, <2>2, FirstIsOne
  <2>4. Written(t, p) \in Raw /\ Expansion(t, p) # None
    BY <1>1, <2>1, WrittenType DEF SetFirst
  <2>5. QED
    BY <2>1, <2>2, <2>3, <2>4 DEF Expansion, Written
<1>5. QED
  BY <1>3, <1>4

(* Whatever the family and its texts: the program runs as the user and in  *)
(* the group that redconf shows, although one merge expands them and the   *)
(* other does not.                                                         *)
THEOREM RunsAsShownCorrect == Spec => []RunsAsShown
<1>1. Init => TagsEnd
  BY DEF Init, TagsEnd
<1>2. TagsEnd /\ [Next]_vars => TagsEnd'
  BY TagsEndStep
<1>3. TypeOK /\ TagsInv /\ TagsEnd /\ IdentityInv => RunsAsShown
  <2> SUFFICES ASSUME TypeOK, TagsInv, TagsEnd, IdentityInv, pc \in {"program", "ended"}, ~ spoilt
               PROVE  /\ "set-user" \notin forced => AsShown("set-user", cred.uid, caller)
                      /\ "set-group" \notin forced => AsShown("set-group", cred.gid, caller)
                      /\ "smack" \notin forced =>
                           AsShown("smack", cred.smack, None) \/ ShownExpanded("smack", cred.smack)
    BY DEF RunsAsShown
  <2>1. TagsMerged
    BY DEF TagsEnd
  <2>2. /\ cred.uid = Uid /\ ~ Nobody(Uid) /\ cred.gid = Gid /\ ~ Nobody(Gid)
        /\ cred.smack = Early("smack")
    BY DEF IdentityInv
  <2>3. \A t \in EarlyTags \ forced : Early(t) = EarlyText(t)
    BY DEF Early
  <2>4. ASSUME NEW t \in EarlyTags \ forced, NEW own,
               ~ Nobody(IF Early(t) = None THEN own ELSE Early(t))
        PROVE  AsShown(t, IF Early(t) = None THEN own ELSE Early(t), own)
    <3>1. EarlyText(t) \in Raw => EarlyText(t) # None
      BY TagsAssumption, SharingAssumption DEF Raw
    <3>2. QED
      BY <2>1, <2>3, <2>4, <3>1, EarlyIsShown DEF AsShown, Nobody
  <2>5. "set-user" \notin forced => AsShown("set-user", cred.uid, caller)
    BY <2>2, <2>4 DEF Uid, EarlyTags
  <2>6. "set-group" \notin forced => AsShown("set-group", cred.gid, caller)
    BY <2>2, <2>4 DEF Gid, EarlyTags
  <2>7. "smack" \notin forced =>
          AsShown("smack", cred.smack, None) \/ ShownExpanded("smack", cred.smack)
    BY <2>1, <2>2, <2>3, EarlyIsShown DEF AsShown, ShownExpanded, EarlyTags
  <2>8. QED
    BY <2>5, <2>6, <2>7
<1>4. QED
  BY <1>1, <1>2, <1>3, LaunchTypeCorrect, TagsInvCorrect, LaunchIdentityCorrect, PTL DEF Spec

(* How each way to end a launch shows in what redwrapExecBwrap returns.    *)
Outcome ==
  /\ pc = "over" => result \in {1, FailureStatus, ViaMain}
  /\ pc = "ended" => result \in {0, FailureStatus}

(* Outcome through a step: only ends of a launch give it a result.         *)
LEMMA OutcomeStep ==
  ASSUME TypeOK, Outcome, [Next]_vars
  PROVE  Outcome'
<1> USE DEF Outcome, Goto
<1>1. CASE UNCHANGED vars
  BY <1>1 DEF vars, launchVars
<1>2. CASE Prepare \/ MergeTags \/ MergeShares \/ SetConftag \/ SetVariables \/ SetPaths \/ Clone
  BY <1>2 DEF Prepare, MergeTags, MergeShares, SetConftag, SetVariables, SetPaths, Clone,
     AbortOutside, Abort
<1>3. CASE WriteMap \/ EnterTime \/ JoinNext
  BY <1>3 DEF WriteMap, EnterTime, JoinNext, Join, ChildFailsOutside, ChildExits, ChildReturns
<1>4. CASE SetSmack \/ SetGid \/ SetUid
  BY <1>4 DEF SetSmack, SetGid, SetUid, ChildFailsOutside, ChildExits, ChildReturns
<1>5. CASE Exec \/ ProgramEnds
  BY <1>5 DEF Exec, ProgramEnds, ChildFailsOutside, ChildExits, ChildReturns
<1>6. QED
  BY <1>1, <1>2, <1>3, <1>4, <1>5 DEF Next

(* The caller of redwrap-dnf is told whether a program has run and         *)
(* succeeded, whichever step of a launch has failed.                       *)
THEOREM DnfTellsCorrect == Spec => []DnfTells
<1>1. Init => Outcome
  BY DEF Init, Outcome
<1>2. TypeOK /\ Outcome /\ [Next]_vars => Outcome'
  BY OutcomeStep
<1>3. Outcome => DnfTells
  BY DEF Outcome, DnfTells, DnfTold, DnfReturns, FailureStatus, ViaMain
<1>4. QED
  BY <1>1, <1>2, <1>3, LaunchTypeCorrect, PTL DEF Spec

(* What keeps a launch within reach: that of users is the last namespace   *)
(* to be joined, and until then the child has its capabilities exactly if  *)
(* its caller is root or it is in a user namespace of its own.             *)
ReachInv ==
  /\ pc \in {"map", "time"} => ns["user"] # "joined"
  /\ pc = "join" /\ joining < Len(Joins) => ns["user"] # "joined"
  /\ pc \in {"join", "gid", "uid"} =>
       (cred.able <=> caller = Root \/ ClonesUser \/ ns["user"] = "joined")

(* The first half of FailsForAReason: which step may fail at which launch. *)
FailsWithinReach ==
  pc = "over" /\ ~ outside => rc = "fail" \/ OrdersNobody \/ BeyondReach \/ null \/ part = "refused"

(* A step that leaves merges and orders alone leaves alone what is beyond  *)
(* reach.                                                                  *)
LEMMA ReachKept ==
  ASSUME UNCHANGED <<sharingVars, tagVars, caller, forced>>, [Next]_vars
  PROVE  BeyondReach' = BeyondReach
<1>1. MapsRoot' = MapsRoot
  BY DEF tagVars, MapsRoot
<1>2. conf' = conf
  BY DEF sharingVars
<1>3. Isolated("user")' = Isolated("user")
  BY <1>2 DEF Isolated, Forbidden, Forbids, Says, Silent
<1>4. Joining' = Joining /\ UnsharesTime' = UnsharesTime
  BY SharingsKept DEF Joining
<1>5. Demands' = Demands
  BY <1>4, OrdersKept DEF Demands
<1>6. QED
  BY <1>1, <1>3, <1>4, <1>5, OrdersKept DEF BeyondReach, OwnUser

(* ReachInv through a step of the child or the clone before it.            *)
LEMMA ReachInvStep ==
  ASSUME TypeOK, LaunchInv, ReachInv, [Next]_vars
  PROVE  ReachInv'
<1> USE DEF Goto
<1>1. "user" \in Spaces /\ "time" \in Spaces
  BY LaunchAssumption, SharingAssumption DEF Spaces
<1>2. CASE UNCHANGED vars
  <2>1. UNCHANGED sharingVars /\ UNCHANGED launchVars
    BY <1>2 DEF vars
  <2>2. QED
    BY <2>1, SharingsKept DEF ReachInv, launchVars
<1>3. CASE Prepare \/ MergeTags \/ MergeShares \/ SetConftag \/ SetVariables \/ SetPaths
  <2>1. pc' \notin {"map", "time", "join", "gid", "uid"}
    BY <1>3 DEF Prepare, MergeTags, MergeShares, SetConftag, SetVariables, SetPaths,
       AbortOutside, Abort
  <2>2. QED
    BY <2>1 DEF ReachInv
<1>4. CASE Clone
  <2>1. pc = "clone" /\ pc' \in {"map", "over"}
    BY <1>4 DEF Clone, AbortOutside, Abort
  <2>2. ns["user"] = "host"
    BY <1>1, <2>1 DEF LaunchInv, Prepares
  <2>3. ns'["user"] # "joined"
    BY <1>1, <1>4, <2>2 DEF Clone, TypeOK
  <2>4. QED
    BY <2>1, <2>3 DEF ReachInv
<1>5. CASE WriteMap
  <2>1. pc = "map" /\ pc' \in {"time", "over"} /\ ns' = ns
    BY <1>5 DEF WriteMap, ChildFailsOutside, ChildReturns
  <2>2. QED
    BY <2>1 DEF ReachInv
<1>6. CASE EnterTime
  <2>1. pc = "time" /\ pc' \in {"join", "over"} /\ UNCHANGED sharingVars /\ caller' = caller
    BY <1>6 DEF EnterTime, Join, ChildFailsOutside, ChildExits
  <2>2. ns'["user"] = ns["user"]
    BY <1>1, <1>6 DEF EnterTime, Join, ChildFailsOutside, TypeOK
  <2>3. cred' = cred
    BY <1>6 DEF EnterTime, Join, ChildFailsOutside
  <2>4. cred.able <=> caller = Root \/ ClonesUser
    BY <2>1 DEF LaunchInv
  <2>5. ns["user"] # "joined"
    BY <2>1 DEF ReachInv
  <2>6. QED
    BY <2>1, <2>2, <2>3, <2>4, <2>5, SharingsKept DEF ReachInv
<1>7. CASE JoinNext
  <2>1. /\ pc = "join" /\ pc' \in {"join", "over"} /\ joining < Len(Joins) /\ joining' = joining + 1
        /\ UNCHANGED sharingVars /\ caller' = caller
    BY <1>7 DEF JoinNext, Join, ChildFailsOutside, ChildExits
  <2>2. ns["user"] # "joined" /\ (cred.able <=> caller = Root \/ ClonesUser)
    BY <2>1 DEF ReachInv
  <2>3. CASE pc' = "over"
    BY <2>3 DEF ReachInv
  <2>4. CASE ns' = ns /\ cred' = cred
    BY <2>1, <2>2, <2>4, SharingsKept DEF ReachInv
  <2>5. ASSUME Join(NextJoin, "join"), pc' = "join", ~ (ns' = ns /\ cred' = cred)
        PROVE  ReachInv'
    <3>1. /\ ns' = [ns EXCEPT ![NextJoin] = "joined"]
          /\ cred' = IF NextJoin = "user" THEN [cred EXCEPT !.able = TRUE] ELSE cred
      BY <2>5 DEF Join, ChildFailsOutside, ChildExits
    <3>2. CASE NextJoin = "user"
      <4>1. joining \in Nat /\ joining + 1 \in 1..Len(Joins) /\ Len(Joins) \in Nat
        BY <2>1, LaunchAssumption DEF TypeOK
      <4>2. joining' = Len(Joins)
        BY <2>1, <3>2, <4>1, LaunchAssumption DEF NextJoin
      <4>3. ns'["user"] = "joined"
        BY <1>1, <3>1, <3>2 DEF TypeOK
      <4>4. cred'.able
        BY <3>1, <3>2 DEF TypeOK
      <4>5. QED
        BY <2>5, <4>1, <4>2, <4>3, <4>4 DEF ReachInv
    <3>3. CASE NextJoin # "user"
      <4>1. ns'["user"] = ns["user"] /\ cred' = cred
        BY <1>1, <3>1, <3>3 DEF TypeOK
      <4>2. QED
        BY <2>1, <2>2, <2>5, <4>1, SharingsKept DEF ReachInv
    <3>4. QED
      BY <3>2, <3>3
  <2>6. QED
    BY <1>7, <2>1, <2>3, <2>4, <2>5 DEF JoinNext
<1>8. CASE SetSmack \/ SetGid
  <2>1. /\ pc \in {"join", "gid"} /\ pc' \in {"gid", "uid", "over"} /\ ns' = ns
        /\ UNCHANGED sharingVars /\ caller' = caller
    BY <1>8 DEF SetSmack, SetGid, ChildFailsOutside, ChildExits, ChildReturns
  <2>2. cred'.able = cred.able
    BY <1>8 DEF SetSmack, SetGid, ChildFailsOutside, TypeOK
  <2>3. QED
    BY <2>1, <2>2, SharingsKept DEF ReachInv
<1>9. CASE SetUid \/ Exec \/ ProgramEnds
  <2>1. pc' \in {"exec", "program", "ended", "over"}
    BY <1>9 DEF SetUid, Exec, ProgramEnds, ChildFailsOutside, ChildExits, ChildReturns
  <2>2. QED
    BY <2>1 DEF ReachInv
<1>10. QED
  BY <1>2, <1>3, <1>4, <1>5, <1>6, <1>7, <1>8, <1>9 DEF Next

(* A child in which a step fails that nothing outside has made fail asks   *)
(* for something out of reach.                                             *)
LEMMA ChildWithinReach ==
  ASSUME TypeOK, LaunchInv, IdentityInv, ReachInv, SharingInv, ForbiddenStaysForbidden,
         WriteMap \/ EnterTime \/ JoinNext \/ SetSmack \/ SetGid \/ SetUid,
         pc' = "over", ~ outside'
  PROVE  BeyondReach
<1> USE DEF Goto
<1>1. "user" \in Spaces /\ "time" \in Spaces /\ "user" \in Items
  BY LaunchAssumption, SharingAssumption DEF Spaces
<1>2. pc \in {"map", "time", "join", "gid", "uid"} /\ Child
  BY DEF WriteMap, EnterTime, JoinNext, SetSmack, SetGid, SetUid, Child
<1>3. rc = "ok" /\ SharingTypeOK
  BY <1>2 DEF LaunchInv, TypeOK
<1>4. Isolates(Merged("user")) <=> Isolated("user")
  BY <1>1, <1>3, MergedMeaning
<1>5. ClonesUser <=> OwnUser
  BY <1>4 DEF ClonesUser, OwnUser
<1>6. ns["user"] = "own" <=> OwnUser
  BY <1>2, <1>5 DEF LaunchInv
<1>7. ns["user"] = "joined" => "user" \in Joining
  BY <1>1, <1>2 DEF LaunchInv, Joining
<1>8. ns["user"] \in {"host", "own", "joined"}
  BY <1>1 DEF TypeOK
<1>9. ~ cred.able => caller # Root /\ ns["user"] # "joined"
  BY <1>2, <1>6 DEF LaunchInv, ReachInv
<1>10. CASE WriteMap
  <2>1. ClonesUser /\ ~ CanMap
    BY <1>2, <1>10 DEF WriteMap, ChildFailsOutside, ChildReturns
  <2>2. Demands
    BY <2>1 DEF CanMap, Demands
  <2>3. QED
    BY <1>5, <2>1, <2>2 DEF BeyondReach
<1>11. CASE EnterTime \/ JoinNext
  <2>1. PICK i \in Spaces : /\ Type(Merged(i)) = "join" /\ Join(i, "join")
                            /\ ns["user"] # "joined"
    <3>1. CASE EnterTime
      BY <1>1, <3>1 DEF EnterTime, ReachInv
    <3>2. CASE JoinNext
      <4>1. NextJoin \in Spaces
        BY <3>2, LaunchAssumption DEF JoinNext, TypeOK, NextJoin, Spaces
      <4>2. QED
        BY <3>2, <4>1 DEF JoinNext, ReachInv
    <3>3. QED
      BY <1>11, <3>1, <3>2
  <2>2. ~ CanJoin(i)
    BY <2>1 DEF Join, ChildFailsOutside
  <2>3. Demands
    BY <2>1 DEF Demands, Joining
  <2>4. caller # Root \/ OwnUser
    BY <1>6, <1>8, <1>9, <2>1, <2>2 DEF CanJoin
  <2>5. QED
    BY <2>3, <2>4 DEF BeyondReach
<1>12. CASE SetSmack
  <2>1. Early("smack") # None /\ ~ (cred.able /\ ns["user"] = "host")
    BY <1>12 DEF SetSmack, ChildFailsOutside
  <2>2. QED
    BY <1>6, <1>7, <1>8, <1>9, <2>1 DEF BeyondReach, Demands
<1>13. ASSUME NEW id, id # caller => Demands, ~ CanBe(id, caller)
       PROVE  BeyondReach
  <2>1. CASE ~ cred.able /\ id # caller
    BY <1>9, <1>13, <2>1 DEF BeyondReach
  <2>2. CASE ~ Mapped(id)
    <3>1. OwnUser /\ MapsRoot /\ id # Root
      BY <1>6, <2>2 DEF Mapped
    <3>2. QED
      BY <1>13, <3>1 DEF BeyondReach
  <2>3. QED
    BY <1>13, <2>1, <2>2 DEF CanBe
<1>14. CASE SetGid
  <2>1. ~ CanBe(Gid, cred.gid) /\ pc = "gid"
    BY <1>14 DEF SetGid, ChildFailsOutside
  <2>2. cred.gid = caller
    BY <2>1 DEF IdentityInv
  <2>3. QED
    BY <1>13, <2>1, <2>2 DEF Demands
<1>15. CASE SetUid
  <2>1. ~ CanBe(Uid, cred.uid) /\ pc = "uid"
    BY <1>15 DEF SetUid, ChildFailsOutside
  <2>2. cred.uid = caller
    BY <2>1 DEF IdentityInv
  <2>3. QED
    BY <1>13, <2>1, <2>2 DEF Demands
<1>16. QED
  BY <1>10, <1>11, <1>12, <1>14, <1>15

(* A user or a group that nobody can be is ordered by a configuration.     *)
LEMMA NobodyIsOrdered ==
  ASSUME TypeOK, Nobody(Uid) \/ Nobody(Gid)
  PROVE  OrdersNobody
<1>1. \A id \in {Root, Caller, Given} : id \notin Raw
  BY DEF Root, Caller, Given, Raw
<1>2. ASSUME NEW t \in {"set-user", "set-group"}, Nobody(IF Early(t) = None THEN caller ELSE Early(t))
      PROVE  OrdersNobody
  <2>1. Early(t) # None /\ Early(t) \in Raw /\ Early(t)[3] = "dollar"
    BY <1>1, <1>2 DEF Nobody, TypeOK
  <2>2. t \notin forced /\ Early(t) = EarlyText(t)
    BY <1>1, <2>1 DEF Early
  <2>3. PICK p \in Places : SetFirst(t, p) /\ EarlyText(t) = Written(t, p)
    BY <2>1, <2>2, EarlyIsFirst
  <2>4. strs[p[1]][p[2]][t] = "dollar"
    BY <2>1, <2>2, <2>3 DEF Written
  <2>5. QED
    BY <2>2, <2>3, <2>4, FirstPrevails DEF OrdersNobody
<1>3. QED
  BY <1>2 DEF Uid, Gid

(* FailsWithinReach through a step.                                        *)
LEMMA WithinReachStep ==
  ASSUME TypeOK, LaunchInv, IdentityInv, ReachInv, SharingInv, ForbiddenStaysForbidden,
         FailsWithinReach, [Next]_vars
  PROVE  FailsWithinReach'
<1> SUFFICES ASSUME pc' = "over", ~ outside'
             PROVE  rc' = "fail" \/ OrdersNobody' \/ BeyondReach' \/ null' \/ part' = "refused"
  BY DEF FailsWithinReach
<1> USE DEF Goto
<1>0. OrdersNobody' <=> OrdersNobody
  BY OrdersKept DEF OrdersNobody, Prevailing
<1>1. CASE UNCHANGED vars
  <2>1. /\ UNCHANGED <<sharingVars, tagVars, caller, forced>> /\ rc' = rc
        /\ pc' = pc /\ outside' = outside /\ null' = null /\ part' = part
    BY <1>1 DEF vars, sharingVars, launchVars, envVars, ownVars
  <2>2. QED
    BY <1>0, <2>1, ReachKept DEF FailsWithinReach
<1>2. CASE MergeTags \/ SetConftag \/ SetVariables \/ Clone \/ ProgramEnds
  BY <1>2 DEF MergeTags, SetConftag, SetVariables, Clone, ProgramEnds, AbortOutside, Abort
<1>3. CASE MergeShares
  BY <1>3 DEF MergeShares, Abort
<1>4. CASE SetPaths
  BY <1>4 DEF SetPaths, AbortOutside, Abort
<1>5. CASE Exec /\ UNCHANGED envVars
  BY <1>5 DEF Exec, ChildFailsOutside, ChildExits, ChildReturns, envVars, ownVars
<1>6. CASE WriteMap \/ EnterTime \/ JoinNext \/ SetSmack \/ SetGid \/ SetUid
  <2>1. UNCHANGED <<sharingVars, tagVars, caller, forced>>
    BY <1>6 DEF WriteMap, EnterTime, JoinNext, SetSmack, SetGid, SetUid
  <2>2. QED
    BY <1>6, <2>1, ChildWithinReach, ReachKept
<1>7. CASE Prepare
  <2>1. Nobody(Uid) \/ Nobody(Gid)
    BY <1>7 DEF Prepare, AbortOutside
  <2>2. QED
    BY <1>0, <2>1, NobodyIsOrdered
<1>8. QED
  BY <1>1, <1>2, <1>3, <1>4, <1>5, <1>6, <1>7 DEF Next

(* Whatever is launched, by whomever: a launch that fails although nothing *)
(* outside the program does has sharings that contradict each other, asks  *)
(* for nobody, asks for something out of reach, or has a variable or a path that could not  *)
(* be expanded.                                                            *)
THEOREM FailsWithinReachCorrect == Spec => []FailsWithinReach
<1>1. Init => FailsWithinReach /\ ReachInv
  BY DEF Init, FailsWithinReach, ReachInv
<1>2. TypeOK /\ LaunchInv /\ ReachInv /\ [Next]_vars => ReachInv'
  BY ReachInvStep
<1>3. TypeOK /\ LaunchInv /\ IdentityInv /\ ReachInv /\ SharingInv /\ ForbiddenStaysForbidden
        /\ FailsWithinReach /\ [Next]_vars => FailsWithinReach'
  BY WithinReachStep
<1>4. Spec => []SharingInv /\ []ForbiddenStaysForbidden
  BY LaunchShares, SharingInvCorrect, ForbiddenCorrect, PTL
<1>5. QED
  BY <1>1, <1>2, <1>3, <1>4, LaunchTypeCorrect, LaunchInvCorrect, LaunchIdentityCorrect,
     PTL DEF Spec

-----------------------------------------------------------------------------
(* The variables.                                                          *)

(* What a launch does to its environment.                                  *)
LEMMA EnvironmentSteps ==
  ASSUME [Next]_vars
  PROVE  \/ UNCHANGED envVars
         \/ part = "variables" /\ pc = "vars" /\ (VariableStep \/ VariableFailure)
         \/ pc = "paths" /\ PathStep
<1>1. VariableStep \/ VariableFailure => part = "variables"
  BY DEF VariableStep, VariableFailure, AtVariable, SetStatic, SetRemove, SetInherit, SetExecfd,
         ExecfdFails, StartDefault, SetDefault, VariablesSet
<1>2. UNCHANGED vars => UNCHANGED envVars
  BY DEF vars
<1>3. SetVariables => UNCHANGED envVars \/ (pc = "vars" /\ (VariableStep \/ VariableFailure))
  BY DEF SetVariables
<1>4. SetPaths => UNCHANGED envVars \/ (pc = "paths" /\ PathStep)
  BY DEF SetPaths
<1>5. QED
  BY <1>1, <1>2, <1>3, <1>4 DEF Next

(* A launch starts with nothing in its buffers.                            *)
LEMMA EnvironmentStarts ==
  ASSUME Init
  PROVE  EnvTypes
<1>1. wish \in Wish /\ EnvironmentStart
  BY LaunchAssumption DEF Init
<1>2. setting = [v \in VarNames |-> Kept] /\ Kept \in Setting
  BY <1>1, CharsString DEF EnvironmentStart
<1>3. frames = <<>> /\ buffer = <<>> /\ line = <<>> /\ answer = "ok" /\ overrun = FALSE
      /\ part = "variables" /\ index = 1 /\ place = <<0, 1>> /\ expanding = FALSE
      /\ null = FALSE
  BY <1>1 DEF EnvironmentStart
<1>4. \A S : <<>> \in Seq(S) /\ Len(<<>>) = 0
  BY EmptySeq
<1>5. frames \in Seq(Frame) /\ Len(frames) = 0 /\ buffer \in Seq(Chars) /\ Len(buffer) = 0
      /\ line \in Seq(Chars) /\ Len(line) = 0
  BY <1>3, <1>4
<1>6. ExpandTypeOK
  <2>1. Len(line) <= Small
    BY <1>5, ExpandAssumption
  <2>2. answer \in {"run", "ok", "fail"} /\ overrun \in BOOLEAN
    BY <1>3
  <2>3. QED
    BY <1>5, <2>1, <2>2 DEF ExpandTypeOK
<1>7. Stacked(frames)
  BY <1>5 DEF Stacked
<1>8. Len(buffer) <= Size
  BY <1>5, ExpandAssumption, EnvironmentAssumption DEF Size
<1>9. place \in (0..Nodes) \X {0, 1}
  BY <1>3, EnvironmentAssumption
<1>10. setting \in [VarNames -> Setting]
  BY <1>2
<1>11. EnvironmentTypeOK
  BY <1>1, <1>3, <1>6, <1>8, <1>9, <1>10 DEF EnvironmentTypeOK
<1>12. Expands
  BY <1>3, <1>7 DEF Expands
<1>13. QED
  BY <1>11, <1>12 DEF EnvTypes

(* A step of a launch leaves the environment as it is, or is one of these. *)
LEMMA EnvTypesStep ==
  ASSUME EnvTypes, [Next]_vars
  PROVE  EnvTypes'
<1>1. CASE UNCHANGED envVars
  <2>1. /\ frames' = frames /\ buffer' = buffer /\ line' = line /\ answer' = answer
        /\ overrun' = overrun /\ wish' = wish /\ part' = part /\ index' = index
        /\ place' = place /\ expanding' = expanding /\ setting' = setting /\ null' = null
    BY <1>1 DEF envVars, expandVars, ownVars
  <2>2. ExpandTypeOK' /\ Size' = Size /\ Stacked(frames)'
    BY <2>1 DEF EnvTypes, EnvironmentTypeOK, Expands, ExpandTypeOK, Size, Stacked
  <2>3. EnvironmentTypeOK'
    BY <2>1, <2>2 DEF EnvTypes, EnvironmentTypeOK
  <2>4. AtPlace' = AtPlace /\ Current' = Current /\ PathHere' = PathHere
    BY <2>1 DEF AtPlace, Current, PathHere
  <2>5. Expands'
    BY <2>1, <2>2, <2>4 DEF EnvTypes, Expands
  <2>6. QED
    BY <2>3, <2>5 DEF EnvTypes
<1>2. QED
  BY <1>1, EnvironmentSteps, VariableTypeStep, PathTypeStep

(* The environment of every launch keeps its types: whatever the strings   *)
(* of the families are, defaultsExpand never fills a buffer beyond its     *)
(* size, nor the one of a command, and bwrap is given a value, a removal   *)
(* or nothing for each variable.                                           *)
THEOREM EnvironmentTypeCorrect == Spec => []EnvironmentTypeOK
<1>1. EnvTypes => EnvironmentTypeOK
  BY DEF EnvTypes
<1>2. QED
  BY <1>1, EnvironmentStarts, EnvTypesStep, PTL DEF Spec

(* A launch starts with them, and its steps keep them.                     *)
LEMMA WholeStep ==
  ASSUME EnvTypes, \A node \in Contexts : NoLoop(node), Wholes, Saying, [Next]_vars
  PROVE  Wholes' /\ Saying'
<1>1. PathStep => part = "paths"
  BY DEF PathStep, SkipPlace, StartPath, AppendPath, PathFails, SetPath, PathsSet, AtPlace
<1>2. CASE UNCHANGED envVars
  <2>1. /\ frames' = frames /\ buffer' = buffer /\ line' = line /\ answer' = answer
        /\ wish' = wish /\ part' = part /\ index' = index
        /\ place' = place /\ expanding' = expanding /\ setting' = setting /\ null' = null
    BY <1>2 DEF envVars, expandVars, ownVars
  <2>2. \A v : AsAsked(v)' = AsAsked(v)
    BY <2>1 DEF AsAsked
  <2>3. /\ \A name : OwnPath(name)' = OwnPath(name)
        /\ \A name, p : LengthTo(name, p)' = LengthTo(name, p)
    BY <2>1, SaidKept
  <2>4. Wholes'
    BY <2>1, <2>2, <2>3 DEF Wholes
  <2>5. \A string, withcmd, begun, node :
          Expanding(string, withcmd, begun, node)' = Expanding(string, withcmd, begun, node)
    BY <2>1 DEF Expanding, CommandReads, Reads
  <2>6. PICK s, d, t, m, p : s = Current.value /\ d = Current.node /\ t = PathHere
                             /\ m = Searched[index] /\ p = place
    OBVIOUS
  <2>7. Current.value' = s /\ Current.node' = d /\ PathHere' = t /\ Searched[index]' = m
        /\ place' = p
    BY <2>1, <2>6 DEF Current, PathHere
  <2>8. part' = "variables" /\ expanding' => Expanding(s, TRUE, <<>>, d)'
    BY <2>1, <2>5, <2>6 DEF Saying
  <2>9. part' = "paths" /\ expanding' =>
          \E begun \in Seq(Chars) :
            /\ Expanding(t, FALSE, begun, p[1])'
            /\ Len(begun) <= LengthTo(m, p)'
            /\ ~ OwnPath(m)' => begun = <<>>
    BY <2>1, <2>3, <2>5, <2>6 DEF Saying
  <2>10. part' = "paths" /\ ~ expanding' /\ index' <= Len(Searched) =>
          /\ buffer' # <<>> => Len(buffer') + 1 <= LengthTo(m, p)'
          /\ ~ OwnPath(m)' => buffer' = <<>>
    BY <2>1, <2>3, <2>6 DEF Saying
  <2>11. Saying'
    BY <2>7, <2>8, <2>9, <2>10 DEF Saying
  <2>12. QED
    BY <2>4, <2>11
<1>3. QED
  BY <1>1, <1>2, EnvironmentSteps, VariableWholeStep, PathSayingStep, PathWholeStep

(* Nothing is said or set at first.                                        *)
LEMMA WholeStart ==
  ASSUME Init
  PROVE  Wholes /\ Saying
<1>1. part = "variables" /\ index = 1 /\ expanding = FALSE
  BY DEF Init, EnvironmentStart
<1>2. \A n \in 1..Len(wish.variables) : ~ (n < 1)
  BY EnvironmentStarts DEF EnvTypes, EnvironmentTypeOK, Wish, Variables
<1>3. QED
  BY <1>1, <1>2 DEF Wholes, Saying

(* Whatever the strings of the families say, if no name is defined by      *)
(* itself: each variable that redwrap sets is what its string means,       *)
(* expanded in the node that said it, whole, or the launch does not get    *)
(* that far.                                                               *)
THEOREM VariablesWholeCorrect ==
  ASSUME \A node \in Contexts : NoLoop(node)
  PROVE  Spec => []VariablesWhole
<1> DEFINE Inv == EnvTypes /\ Wholes /\ Saying
<1>1. Init => Inv
  BY EnvironmentStarts, WholeStart
<1>2. Inv /\ [Next]_vars => Inv'
  BY EnvTypesStep, WholeStep
<1>3. Inv => VariablesWhole
  BY DEF Wholes, VariablesWhole
<1>4. QED
  BY <1>1, <1>2, <1>3, PTL DEF Spec

(* A launch starts with nothing listed, and its steps keep the order.      *)
LEMMA OrderStep ==
  ASSUME EnvTypes, \A node \in Contexts : NoLoop(node), Ordered, [Next]_vars
  PROVE  Ordered'
<1>1. PathStep => part = "paths"
  BY DEF PathStep, SkipPlace, StartPath, AppendPath, PathFails, SetPath, PathsSet, AtPlace
<1>2. CASE UNCHANGED envVars
  <2>1. /\ frames' = frames /\ buffer' = buffer /\ line' = line /\ answer' = answer
        /\ wish' = wish /\ part' = part /\ index' = index
        /\ place' = place /\ expanding' = expanding /\ setting' = setting /\ null' = null
    BY <1>2 DEF envVars, expandVars, ownVars
  <2>2. /\ \A items, name, q : ListsTo(items, name, q)' = ListsTo(items, name, q)
        /\ \A items, name : Lists(items, name)' = Lists(items, name)
        /\ \A name : OwnPath(name)' = OwnPath(name)
    BY <2>1, OrderKept, SaidKept
  <2>3. \A string, withcmd, begun, node :
          Expanding(string, withcmd, begun, node)' = Expanding(string, withcmd, begun, node)
    BY <2>1 DEF Expanding, CommandReads, Reads
  <2>4. PICK t, m, p, b : t = PathHere /\ m = Searched[index] /\ p = place /\ b = buffer
    OBVIOUS
  <2>5. PathHere' = t /\ Searched[index]' = m /\ place' = p /\ buffer' = b
    BY <2>1, <2>4 DEF PathHere
  <2>6. part' = "paths" /\ expanding' =>
          \E before \in Seq(Chars) :
            /\ Expanding(t, FALSE, Behind(before), p[1])'
            /\ ListsTo(Elements[before], m, p)'
    BY <2>1, <2>2, <2>3, <2>4 DEF Ordered
  <2>7. part' = "paths" /\ ~ expanding' /\ index' <= Len(Searched) => ListsTo(Elements[b], m, p)'
    BY <2>1, <2>2, <2>4 DEF Ordered
  <2>8. ASSUME part \in {"paths", "set"}, ~ null, NEW k \in 1..Len(Searched),
               part = "paths" => k < index, OwnPath(Searched[k])
        PROVE  Lists(Elements[setting[Searched[k]].value], Searched[k])'
    <3>1. PICK e, x : e = Elements[setting[Searched[k]].value] /\ x = Searched[k]
      OBVIOUS
    <3>2. Elements[setting[Searched[k]].value]' = e
      BY <2>1, <3>1
    <3>3. Lists(e, x)
      BY <2>8, <3>1 DEF Ordered
    <3>4. Lists(e, x)'
      BY <2>2, <3>3
    <3>5. QED
      BY <3>1, <3>2, <3>4
  <2>9. part' = "variables" => place' = <<0, 1>>
    BY <2>1 DEF Ordered
  <2>10. part' \in {"paths", "set"} /\ ~ null' =>
           \A k \in 1..Len(Searched) :
             (part' = "paths" => k < index') /\ OwnPath(Searched[k])' =>
               Lists(Elements[setting[Searched[k]].value], Searched[k])'
    BY <2>1, <2>2, <2>8
  <2>11. QED
    BY <2>5, <2>6, <2>7, <2>9, <2>10 DEF Ordered
<1>3. QED
  BY <1>1, <1>2, EnvironmentSteps, VariableOrderStep, PathOrderStep

(* Whatever the paths of the configurations say, if no name is defined by  *)
(* itself: PATH and LD_LIBRARY_PATH list every element of every            *)
(* configuration of the family once, those of a child before those of its  *)
(* parents and the administrator's before the others, however many nodes   *)
(* there are and however the elements come again.                          *)
THEOREM PathsInOrderCorrect ==
  ASSUME \A node \in Contexts : NoLoop(node)
  PROVE  Spec => []PathsInOrder
<1> DEFINE Inv == EnvTypes /\ Ordered
<1>1. Init => Inv
  <2>1. Init => part = "variables" /\ place = <<0, 1>>
    BY DEF Init, EnvironmentStart
  <2>2. QED
    BY <2>1, EnvironmentStarts DEF Ordered
<1>2. Inv /\ [Next]_vars => Inv'
  BY EnvTypesStep, OrderStep
<1>3. Inv => PathsInOrder
  <2> SUFFICES ASSUME Ordered, part = "set", ~ null, NEW name \in SearchedNames, OwnPath(name)
               PROVE  Lists(Elements[setting[name].value], name)
    BY DEF PathsInOrder
  <2>1. PICK k \in 1..Len(Searched) : name = Searched[k]
    BY DEF SearchedNames
  <2>2. QED
    BY <2>1 DEF Ordered
<1>4. QED
  BY <1>1, <1>2, <1>3, PTL DEF Spec

(* An expansion that has failed, a NULL that it has left behind, and paths *)
(* that were refused have their reasons.                                   *)
Failing ==
  /\ null /\ ~ outside => \E n \in 1..Len(wish.variables) : BadVariable(wish.variables[n])
  /\ part = "variables" /\ expanding /\ answer = "fail" /\ ~ outside => BadVariable(Current)
  /\ part = "paths" /\ expanding /\ answer = "fail" => BadPath(Searched[index])
  /\ part = "refused" => \E n \in 1..Len(Searched) : BadPath(Searched[n])

(* What has failed outside remains so.                                     *)
LEMMA OutsideStays ==
  ASSUME [Next]_vars, ~ outside'
  PROVE  ~ outside
<1>1. CASE UNCHANGED vars
  BY <1>1 DEF vars, launchVars
<1>2. CASE SetVariables \/ SetPaths \/ Prepare \/ MergeTags \/ MergeShares \/ SetConftag
           \/ Clone \/ WriteMap
  BY <1>2 DEF SetVariables, SetPaths, Prepare, MergeTags, MergeShares, SetConftag, Clone, WriteMap,
     AbortOutside, ChildFailsOutside
<1>3. CASE EnterTime \/ JoinNext \/ SetSmack \/ SetGid \/ SetUid \/ Exec \/ ProgramEnds
  BY <1>3 DEF EnterTime, JoinNext, Join, SetSmack, SetGid, SetUid, Exec, ProgramEnds,
     ChildFailsOutside
<1>4. QED
  BY <1>1, <1>2, <1>3 DEF Next

(* The steps that set the variables keep Failing.                          *)
LEMMA VariableFailStep ==
  ASSUME EnvTypes, \A node \in Contexts : NoLoop(node), Saying, Failing, part = "variables",
         \/ VariableStep
         \/ VariableFailure /\ outside',
         ~ outside' => ~ outside
  PROVE  Failing'
<1>1. index \in Nat /\ index >= 1 /\ wish.variables \in Seq(Variable) /\ ExpandTypeOK
      /\ Stacked(frames) /\ Small \in Nat /\ Len(wish.variables) \in Nat
  BY ExpandAssumption DEF EnvTypes, EnvironmentTypeOK, Expands, Wish, Variables
<1>2. UNCHANGED wish /\ part' \in {"variables", "paths"}
  BY DEF VariableStep, VariableFailure, SetStatic, SetRemove, SetInherit, SetExecfd, ExecfdFails,
     Advance, StartDefault, SetDefault, VariablesSet, ExpandOnward, ownVars
<1>3. \A v : BadVariable(v)' = BadVariable(v)
  BY DEF BadVariable
<1>4. CASE outside'
  <2>1. part' = "paths" => ~ expanding'
    BY <1>2 DEF VariableStep, VariableFailure, SetStatic, SetRemove, SetInherit, SetExecfd,
       ExecfdFails, Advance, StartDefault, SetDefault, VariablesSet, ExpandOnward, ownVars
  <2>2. QED
    BY <1>2, <1>4, <2>1 DEF Failing
<1>5. CASE ~ outside'
  <2>1. ~ outside /\ VariableStep
    BY <1>5
  <2>2. CASE SetStatic \/ SetRemove \/ SetInherit \/ SetExecfd
    <3>1. ~ expanding' /\ UNCHANGED <<null, part>>
      BY <2>2 DEF SetStatic, SetRemove, SetInherit, SetExecfd, Advance, AtVariable
    <3>2. QED
      BY <1>2, <1>3, <2>1, <3>1 DEF Failing
  <2>3. CASE StartDefault
    <3>1. answer' = "run" /\ UNCHANGED <<null, part>>
      BY <2>3 DEF StartDefault, ExpandStart
    <3>2. QED
      BY <1>2, <1>3, <2>1, <3>1 DEF Failing
  <2>4. CASE SetDefault
    <3>1. ~ expanding' /\ expanding /\ part' = part /\ (null' => null \/ answer = "fail")
      BY <2>4 DEF SetDefault
    <3>2. index \in 1..Len(wish.variables)
      BY <1>1, <3>1 DEF EnvTypes, Expands
    <3>3. null' => \E n \in 1..Len(wish.variables) : BadVariable(wish.variables[n])
      BY <2>1, <3>1, <3>2 DEF Failing, Current
    <3>4. QED
      BY <1>2, <1>3, <3>1, <3>3 DEF Failing
  <2>5. CASE VariablesSet
    <3>1. ~ expanding' /\ part' = "paths" /\ UNCHANGED null
      BY <2>5 DEF VariablesSet
    <3>2. QED
      BY <1>2, <1>3, <2>1, <3>1 DEF Failing
  <2>6. CASE ExpandOnward
    <3>1. expanding /\ ExpandStep(Current.node, Small) /\ UNCHANGED <<part, index, null>>
      BY <2>6 DEF ExpandOnward, Context, Size, ownVars
    <3>2. index \in 1..Len(wish.variables) /\ Current.mode = "Default"
      BY <1>1, <3>1 DEF EnvTypes, Expands
    <3>3. PICK w \in Variable : w = Current
      BY <3>2, CurrentType DEF EnvTypes
    <3>4. w.value \in String /\ w.node \in Contexts /\ Current' = w /\ w.mode = "Default"
      BY <1>2, <3>1, <3>2, <3>3 DEF Variable, Current
    <3>5. answer' = "fail" => BadVariable(w)
      <4>1. Expanding(w.value, TRUE, <<>>, w.node) /\ ExpandStep(w.node, Small) /\ NoLoop(w.node)
        BY <3>1, <3>3, <3>4 DEF Saying
      <4>2. <<>> \in Seq(Chars)
        BY EmptySeq
      <4>3. answer' = "fail" => Reason(w.value, TRUE, <<>>, w.node, Small)
        BY <1>1, <3>4, <4>1, <4>2, FailsForAReasonStep
      <4>4. QED
        BY <3>4, <4>1, <4>3, VariableReason
    <3>6. answer' = "fail" => BadVariable(Current)'
      BY <1>3, <3>4, <3>5
    <3>7. QED
      BY <1>2, <1>3, <2>1, <3>1, <3>6 DEF Failing
  <2>7. QED
    BY <2>1, <2>2, <2>3, <2>4, <2>5, <2>6 DEF VariableStep
<1>6. QED
  BY <1>4, <1>5

(* So do those that make the paths.                                        *)
LEMMA PathFailStep ==
  ASSUME EnvTypes, \A node \in Contexts : NoLoop(node), Saying, Failing, part = "paths", PathStep,
         ~ outside' => ~ outside
  PROVE  Failing'
<1>1. /\ index \in Nat /\ index >= 1 /\ ExpandTypeOK /\ Stacked(frames) /\ Large \in Nat \ {0}
      /\ buffer \in Seq(Chars)
  BY EnvironmentAssumption DEF EnvTypes, EnvironmentTypeOK, Expands, ExpandTypeOK
<1>2. UNCHANGED <<wish, null>> /\ part' # "variables"
  BY DEF PathStep, SkipPlace, StartPath, AppendPath, PathFails, SetPath, PathsSet, ExpandOnward, ownVars
<1>3. null' /\ ~ outside' => \E n \in 1..Len(wish.variables)' : BadVariable(wish.variables[n])'
  <2>1. \A v : BadVariable(v)' = BadVariable(v)
    BY DEF BadVariable
  <2>2. QED
    BY <1>2, <2>1 DEF Failing
<1>4. \A name : BadPath(name)' = BadPath(name)
  BY <1>2, SaidKept
<1>5. ASSUME expanding
      PROVE  AtPlace /\ PathHere # Missing
  BY <1>5 DEF EnvTypes, Expands
<1>6. CASE SkipPlace \/ AppendPath \/ SetPath \/ PathsSet
  <2>1. part' \in {"paths", "set"} /\ (part' = "paths" => ~ expanding')
    <3>1. SetPath => ~ expanding
      BY <1>5, EnvironmentAssumption DEF SetPath, AtPlace
    <3>2. QED
      BY <1>6, <3>1 DEF SkipPlace, AppendPath, SetPath, PathsSet
  <2>2. QED
    BY <1>2, <1>3, <2>1 DEF Failing
<1>7. CASE StartPath
  <2>1. AtPlace /\ ~ expanding /\ PathHere # Missing
    BY <1>7 DEF StartPath
  <2>2. CASE answer' = "run" /\ part' = part
    BY <1>2, <1>3, <2>2 DEF Failing
  <2>3. CASE Len(buffer) >= Large /\ part' = "refused"
    <3> DEFINE begun == Append(buffer, Colon)
    <3>1. begun \in Seq(Chars) /\ Len(begun) = Len(buffer) + 1 /\ Len(buffer) \in Nat
      BY <1>1, AppendProperties, LenProperties, EnvironmentAssumption
    <3>2. buffer # <<>>
      BY <1>1, <2>3, EmptySeq
    <3>3. Len(buffer) + 1 <= LengthTo(Searched[index], place)
      BY <2>1, <3>2 DEF Saying, AtPlace
    <3>4. Len(begun) <= LengthTo(Searched[index], place) /\ Len(begun) > Large
      BY <1>1, <2>3, <3>1, <3>3
    <3> HIDE DEF begun
    <3>5. BadPath(Searched[index])
      BY <2>1, <3>1, <3>4, PathReason
    <3>6. index \in 1..Len(Searched)
      BY <2>1, HereIs
    <3>7. \E n \in 1..Len(Searched) : BadPath(Searched[n])'
      BY <1>4, <3>5, <3>6
    <3>8. QED
      BY <1>2, <1>3, <2>3, <3>7 DEF Failing
  <2>4. QED
    BY <1>7, <2>2, <2>3 DEF StartPath, ExpandStart
<1>8. CASE PathFails
  <2>1. expanding /\ answer = "fail" /\ part' = "refused"
    BY <1>8 DEF PathFails
  <2>2. BadPath(Searched[index]) /\ index \in 1..Len(Searched)
    BY <1>5, <2>1, HereIs DEF Failing
  <2>3. \E n \in 1..Len(Searched) : BadPath(Searched[n])'
    BY <1>4, <2>2
  <2>4. QED
    BY <1>2, <1>3, <2>1, <2>3 DEF Failing
<1>9. CASE ExpandOnward
  <2>1. expanding /\ ExpandStep(place[1], Large) /\ UNCHANGED <<part, index>>
    BY <1>9 DEF ExpandOnward, Context, Size, ownVars
  <2>2. AtPlace /\ PathHere # Missing
    BY <1>5, <2>1
  <2>3. PICK begun \in Seq(Chars) :
          /\ Expanding(PathHere, FALSE, begun, place[1])
          /\ Len(begun) <= LengthTo(Searched[index], place)
    BY <2>1 DEF Saying
  <2>4. PathHere \in String /\ place[1] \in Contexts
    BY <2>2, HereIs
  <2>5. PICK string \in String, node \in Contexts : string = PathHere /\ node = place[1]
    BY <2>4
  <2>6. answer' = "fail" => Reason(string, FALSE, begun, node, Large)
    <3>1. Expanding(string, FALSE, begun, node) /\ ExpandStep(node, Large) /\ NoLoop(node)
      BY <2>1, <2>3, <2>5
    <3>2. QED
      BY <1>1, <3>1, FailsForAReasonStep
  <2>7. answer' = "fail" => BadPath(Searched[index])
    BY <2>2, <2>3, <2>5, <2>6, PathReason
  <2>8. PICK m : m = Searched[index] /\ m = Searched[index]'
    BY <2>1
  <2>9. answer' = "fail" => BadPath(m)'
    BY <1>4, <2>7, <2>8
  <2>10. QED
    BY <1>2, <1>3, <2>1, <2>8, <2>9 DEF Failing
<1>10. QED
  BY <1>6, <1>7, <1>8, <1>9 DEF PathStep

(* A step of a launch keeps Failing.                                       *)
LEMMA FailingStep ==
  ASSUME EnvTypes, \A node \in Contexts : NoLoop(node), Saying, Failing, [Next]_vars
  PROVE  Failing'
<1>1. ~ outside' => ~ outside
  BY OutsideStays
<1>2. PathStep => part = "paths"
  BY DEF PathStep, SkipPlace, StartPath, AppendPath, PathFails, SetPath, PathsSet, AtPlace
<1>3. CASE UNCHANGED envVars
  <2>1. /\ answer' = answer /\ wish' = wish /\ part' = part /\ index' = index
        /\ expanding' = expanding /\ null' = null
    BY <1>3 DEF envVars, expandVars, ownVars
  <2>2. \A v : BadVariable(v)' = BadVariable(v)
    BY DEF BadVariable
  <2>3. \A name : BadPath(name)' = BadPath(name)
    BY <2>1, SaidKept
  <2>4. PICK v, m : v = Current /\ v = Current' /\ m = Searched[index] /\ m = Searched[index]'
    BY <2>1 DEF Current
  <2>5. QED
    BY <1>1, <2>1, <2>2, <2>3, <2>4 DEF Failing
<1>4. CASE ~ UNCHANGED envVars
  <2>1. CASE part = "variables" /\ (VariableStep \/ (VariableFailure /\ outside'))
    BY <1>1, <2>1, VariableFailStep
  <2>2. CASE PathStep
    BY <1>1, <1>2, <2>2, PathFailStep
  <2>3. VariableStep \/ VariableFailure => part = "variables"
    BY DEF VariableStep, VariableFailure, AtVariable, SetStatic, SetRemove, SetInherit, SetExecfd,
           ExecfdFails, StartDefault, SetDefault, VariablesSet
  <2>4. SetVariables => VariableStep \/ (VariableFailure /\ outside')
    BY <1>4 DEF SetVariables
  <2>5. SetPaths => PathStep
    BY <1>4 DEF SetPaths
  <2>6. UNCHANGED vars => UNCHANGED envVars
    BY DEF vars
  <2>7. QED
    BY <1>4, <2>1, <2>2, <2>3, <2>4, <2>5, <2>6 DEF Next
<1>5. QED
  BY <1>3, <1>4

(* Whatever is launched, by whomever, if no name of the families is        *)
(* defined by itself: a launch that fails although nothing outside the     *)
(* program does has a reason that can be read off its configurations.      *)
THEOREM FailsForAReasonCorrect ==
  ASSUME \A node \in Contexts : NoLoop(node)
  PROVE  Spec => []FailsForAReason
<1> DEFINE Inv == EnvTypes /\ Wholes /\ Saying /\ Failing
<1>1. Init => Inv
  <2>1. Init => Failing
    BY DEF Init, EnvironmentStart, Failing
  <2>2. QED
    BY <2>1, EnvironmentStarts, WholeStart
<1>2. Inv /\ [Next]_vars => Inv'
  BY EnvTypesStep, WholeStep, FailingStep
<1>3. Inv /\ FailsWithinReach => FailsForAReason
  BY DEF FailsWithinReach, FailsForAReason, Failing
<1>4. QED
  BY <1>1, <1>2, <1>3, FailsWithinReachCorrect, PTL DEF Spec
=============================================================================
