----------------------------- MODULE MixWalk_proofs -----------------------------
(***************************************************************************)
(* Proofs about MixWalk, for families of any height and configurations of  *)
(* any length: the invariant of the walk, that a merge keeps its promise,  *)
(* that no capability escapes the rules, and that the merge of             *)
(* capabilities agrees with the table that documents it.                   *)
(***************************************************************************)
EXTENDS CapaMatrix, RecursionTheorems

(* The configurations are lists of definitions.                            *)
LEMMA ConfTypes ==
  ASSUME conf \in Families, NEW d \in Depth, NEW a \in Rank
  PROVE  /\ conf[d][a] \in Seq(Def)
         /\ Len(conf[d][a]) \in Nat
         /\ \A i \in 1..Len(conf[d][a]) : conf[d][a][i] \in Def
<1>1. conf[d][a] \in Configs
  BY DEF Families
<1> QED
  BY <1>1, FamilyAssumption

(* The initial state and the steps keep the types.                         *)
LEMMA TypeInit == Init => TypeOK
<1> USE FamilyAssumption
<1>1. SUFFICES ASSUME Init PROVE TypeOK
  OBVIOUS
<1>2. 0 \in Depth /\ 1 \in Rank
  BY DEF Depth, Rank
<1>3. conf \in Families
  BY <1>1 DEF Init
<1>4. Len(conf[0][1]) \in Nat
  BY <1>2, <1>3, ConfTypes
<1>5. at \in Cursor
  BY <1>1, <1>2 DEF Init, Cursor
<1>6. at.depth = 0 /\ at.admin = 1 /\ at.index = 1
  BY <1>1 DEF Init
<1>7. at.index <= Len(Here) + 1
  BY <1>4, <1>6 DEF Here
<1> QED
  BY <1>1, <1>5, <1>7 DEF Init, TypeOK, Link

(* Types through any step.                                                 *)
LEMMA TypeStep == TypeOK /\ [Next]_vars => TypeOK'
<1> USE FamilyAssumption
<1> SUFFICES ASSUME TypeOK, [Next]_vars PROVE TypeOK'
  OBVIOUS
<1>0. /\ Here \in Seq(Def) /\ Len(Here) \in Nat
      /\ \A i \in 1..Len(Here) : Here[i] \in Def
  BY ConfTypes DEF TypeOK, Cursor, Here
<1>1. ASSUME rc = "walk", at.index <= Len(Here), Step, conf' = conf
      PROVE  at' \in Cursor /\ at'.index <= Len(Here)' + 1
  <2>1. at' = [depth |-> at.depth, admin |-> at.admin, index |-> at.index + 1]
    BY <1>1 DEF Step, TypeOK, Cursor
  <2>2. Here' = Here
    BY <2>1, <1>1 DEF Here
  <2> QED
    BY <2>1, <2>2, <1>1, <1>0 DEF TypeOK, Cursor
<1>2. ASSUME Visible(at.depth, at.admin, at.index)
      PROVE  at.index <= Len(Here) /\ Read \in Def
  BY <1>2, <1>0 DEF Visible, Here, Read
<1>3. ASSUME Visible(at.depth, at.admin, at.index)
      PROVE  [def |-> Read, depth |-> at.depth, admin |-> at.admin] \in Link
  BY <1>2, <1>3 DEF Link, TypeOK, Cursor
<1>first. ASSUME at' \in Cursor, at'.index = 1, UNCHANGED <<conf, links, sent, rc>>
       PROVE  TypeOK'
  <2>1. Len(conf[at'.depth][at'.admin]) \in Nat
    BY <1>first, ConfTypes DEF TypeOK, Cursor
  <2>2. Here' = conf[at'.depth][at'.admin]
    BY <1>first DEF Here
  <2>3. 1 <= Len(Here') + 1
    BY <2>1, <2>2
  <2> QED
    BY <1>first, <2>3 DEF TypeOK
<1>4. CASE NextConfig
  <2>1. CASE at.admin = 1 /\ at' = [depth |-> at.depth, admin |-> 0, index |-> 1]
    <3>1. at' \in Cursor
      BY <2>1 DEF TypeOK, Cursor, Rank
    <3>2. at'.index = 1 /\ UNCHANGED <<conf, links, sent, rc>>
      BY <1>4, <2>1 DEF NextConfig
    <3> QED
      BY <3>1, <3>2, <1>first
  <2>2. CASE /\ at.depth + 1 < Height
             /\ at' = [depth |-> at.depth + 1, admin |-> 1, index |-> 1]
    <3>1. at' \in Cursor /\ at.depth + 1 \in Depth
      BY <2>2 DEF TypeOK, Cursor, Depth, Rank
    <3>2. at'.index = 1 /\ UNCHANGED <<conf, links, sent, rc>>
      BY <1>4, <2>2 DEF NextConfig
    <3> QED
      BY <3>1, <3>2, <1>first
  <2>3. CASE rc' = "send" /\ UNCHANGED at
    BY <1>4, <2>3 DEF NextConfig, TypeOK, Here
  <2> QED
    BY <1>4, <2>1, <2>2, <2>3 DEF NextConfig
<1>5. CASE SkipPrivate
  BY <1>5, <1>1 DEF SkipPrivate, TypeOK
<1>6. CASE NewKey
  <2>1. links' \in Seq(Link)
    BY <1>6, <1>3 DEF NewKey, TypeOK
  <2> QED
    BY <1>6, <1>1, <1>2, <2>1 DEF NewKey, TypeOK
<1>7. CASE SeenKey
  <2>1. PICK i \in 1..Len(links) : IsLinkOf(i) /\ (SameNode(links[i]) \/ FromAncestor(i))
    BY <1>7 DEF SeenKey
  <2>2. CASE Fail
    BY <2>2 DEF Fail, TypeOK, Here
  <2>3. CASE Keep
    BY <1>7, <2>3, <1>1, <1>2 DEF Keep, SeenKey, TypeOK
  <2>4. CASE /\ links' = [links EXCEPT ![i] =
                           [def |-> Read, depth |-> at.depth, admin |-> at.admin]]
             /\ Step
             /\ UNCHANGED <<conf, sent, rc>>
    <3>1. links' \in Seq(Link)
      BY <1>7, <2>4, <1>3 DEF SeenKey, TypeOK
    <3> QED
      BY <1>7, <2>4, <3>1, <1>1, <1>2 DEF SeenKey, TypeOK
  <2> QED
    BY <2>1, <2>2, <2>3, <2>4 DEF SameNode, FromAncestor
<1>8. CASE Send
  <2>1. PICK i \in Unsent : \/ sent' = Append(sent, links[i].def) /\ UNCHANGED rc
                            \/ rc' = "fail" /\ UNCHANGED sent
    BY <1>8 DEF Send
  <2>2. links[i] \in Link
    BY <2>1 DEF Unsent, TypeOK
  <2>3. sent' \in Seq(Def) /\ rc' \in {"walk", "send", "ok", "fail"}
    BY <2>1, <2>2 DEF TypeOK, Link
  <2> QED
    BY <1>8, <2>3 DEF Send, TypeOK, Here
<1>9. CASE Return
  BY <1>9 DEF Return, TypeOK, Here
<1>10. CASE UNCHANGED vars
  BY <1>10 DEF vars, TypeOK, Here
<1> QED
  BY <1>4, <1>5, <1>6, <1>7, <1>8, <1>9, <1>10 DEF Next

(* The variables keep their types.                                         *)
THEOREM TypeCorrect == Spec => []TypeOK
BY TypeInit, TypeStep, PTL DEF Spec

-----------------------------------------------------------------------------
(* The order of the walk.                                                  *)

(* A link knows a place the cursor has passed, in the same node or nearer  *)
(* to the leaf; what it takes precedence over.                             *)
LEMMA PassedIsOver ==
  ASSUME NEW d \in Int, NEW a \in Rank, NEW i \in Int,
         NEW e \in Int, NEW b \in Rank, NEW j \in Int,
         Earlier(d, a, i, e, b, j)
  PROVE  /\ d = e /\ a # b => a > b
         /\ a >= b => Over(d, a, i, e, b, j)
         /\ d <= e
BY DEF Earlier, Over, Rank

(* A definition does not clash with itself.                                *)
LEMMA NoSelfClash == \A def : ~ Clash(def, def)
BY DEF Clash

-----------------------------------------------------------------------------
(* The invariant.                                                          *)

(* IInv holds at first.                                                    *)
LEMMA InvInit == Init => IInv
<1> SUFFICES ASSUME Init PROVE IInv
  OBVIOUS
<1>1. /\ at.depth = 0 /\ at.admin = 1 /\ at.index = 1
      /\ links = <<>> /\ sent = <<>> /\ rc = "walk"
  BY DEF Init
<1>2. \A e \in Depth, b \in Rank : \A j \in 1..Len(conf[e][b]) : ~ Done(e, b, j)
  <2> SUFFICES ASSUME NEW e \in Depth, NEW b \in Rank, NEW j \in 1..Len(conf[e][b])
               PROVE  ~ Done(e, b, j)
    OBVIOUS
  <2>1. Len(conf[e][b]) \in Nat
    BY ConfTypes DEF Init
  <2> QED
    BY <2>1, <1>1, FamilyAssumption DEF Done, Earlier, Depth, Rank
<1> QED
  BY <1>1, <1>2 DEF IInv, AllMet, OneLinkEach, SentFromLinks, AtEnd

(* What a step that reads the visible definition under the cursor changes. *)
LEMMA DoneNext ==
  ASSUME TypeOK, at.index <= Len(Here), Step, conf' = conf
  PROVE  /\ at'.depth = at.depth /\ at'.admin = at.admin /\ at'.index = at.index + 1
         /\ \A e \in Depth, b \in Rank : \A j \in 1..Len(conf[e][b]) :
              Done(e, b, j)' <=> Done(e, b, j) \/ <<e, b, j>> = <<at.depth, at.admin, at.index>>
<1>1. at'.depth = at.depth /\ at'.admin = at.admin /\ at'.index = at.index + 1
  BY DEF Step, TypeOK, Cursor
<1>2. at.depth \in Int /\ at.admin \in Rank /\ at.index \in Int
  BY FamilyAssumption DEF TypeOK, Cursor, Depth
<1> SUFFICES ASSUME NEW e \in Depth, NEW b \in Rank, NEW j \in 1..Len(conf[e][b])
             PROVE  Done(e, b, j)' <=> Done(e, b, j) \/ <<e, b, j>> = <<at.depth, at.admin, at.index>>
  BY <1>1
<1>3. e \in Int /\ j \in Int
  BY ConfTypes, FamilyAssumption DEF TypeOK, Depth
<1>4. Done(e, b, j)' <=> Earlier(e, b, j, at.depth, at.admin, at.index + 1)
  BY <1>1 DEF Done
<1>5. Earlier(e, b, j, at.depth, at.admin, at.index + 1)
        <=> Earlier(e, b, j, at.depth, at.admin, at.index)
            \/ <<e, b, j>> = <<at.depth, at.admin, at.index>>
  BY <1>2, <1>3 DEF Earlier, Rank
<1> QED
  BY <1>4, <1>5 DEF Done

(* Leaving an exhausted configuration passes no definition.                *)
LEMMA DoneLeft ==
  ASSUME TypeOK, NextConfig
  PROVE  \A e \in Depth, b \in Rank : \A j \in 1..Len(conf[e][b]) :
           Done(e, b, j)' <=> Done(e, b, j)
<1> SUFFICES ASSUME NEW e \in Depth, NEW b \in Rank, NEW j \in 1..Len(conf[e][b])
             PROVE  Done(e, b, j)' <=> Done(e, b, j)
  OBVIOUS
<1>1. /\ at.depth \in Int /\ at.admin \in Rank /\ at.index \in Int /\ e \in Int
      /\ Len(conf[e][b]) \in Nat /\ j \in 1..Len(conf[e][b])
      /\ Len(Here) \in Nat /\ at.index > Len(Here)
  BY ConfTypes, FamilyAssumption DEF TypeOK, Cursor, Depth, NextConfig, Here
<1>2. e = at.depth /\ b = at.admin => j < at.index
  BY <1>1 DEF Here
<1>3. CASE at.admin = 1 /\ at' = [depth |-> at.depth, admin |-> 0, index |-> 1]
  <2>1. Done(e, b, j)' <=> Earlier(e, b, j, at.depth, 0, 1)
    BY <1>3 DEF Done
  <2>2. Earlier(e, b, j, at.depth, 0, 1)
          <=> Earlier(e, b, j, at.depth, at.admin, at.index)
    BY <1>1, <1>2, <1>3 DEF Earlier, Rank
  <2> QED
    BY <2>1, <2>2 DEF Done
<1>4. CASE at.admin = 0 /\ at' = [depth |-> at.depth + 1, admin |-> 1, index |-> 1]
  <2>1. Done(e, b, j)' <=> Earlier(e, b, j, at.depth + 1, 1, 1)
    BY <1>4 DEF Done
  <2>2. Earlier(e, b, j, at.depth + 1, 1, 1)
          <=> Earlier(e, b, j, at.depth, at.admin, at.index)
    BY <1>1, <1>2, <1>4 DEF Earlier, Rank
  <2> QED
    BY <2>1, <2>2 DEF Done
<1>5. CASE UNCHANGED at
  BY <1>5 DEF Done, Earlier, Rank
<1> QED
  BY <1>3, <1>4, <1>5 DEF NextConfig

(* What the types say of a link.                                           *)
LEMMA LinkTypes ==
  ASSUME TypeOK, NEW n \in 1..Len(links)
  PROVE  /\ links[n] \in Link
         /\ links[n].def \in Def /\ links[n].depth \in Depth /\ links[n].admin \in Rank
<1>1. links[n] \in Link
  BY DEF TypeOK
<1> QED
  BY <1>1 DEF Link

(* The definition under the cursor is not among those passed, and its      *)
(* place is after that of every link.                                      *)
LEMMA LinkPlace ==
  ASSUME TypeOK, NEW link \in Link, NEW i \in 1..Len(conf[link.depth][link.admin]),
         Done(link.depth, link.admin, i)
  PROVE  /\ link.depth = at.depth /\ link.admin # at.admin => link.admin > at.admin
         /\ link.admin >= at.admin =>
              Over(link.depth, link.admin, i, at.depth, at.admin, at.index)
         /\ link.depth <= at.depth
<1>1. /\ link.depth \in Int /\ link.admin \in Rank /\ i \in Int
      /\ at.depth \in Int /\ at.admin \in Rank /\ at.index \in Int
  BY ConfTypes, FamilyAssumption DEF TypeOK, Link, Cursor, Depth
<1>2. Earlier(link.depth, link.admin, i, at.depth, at.admin, at.index)
  BY DEF Done
<1> QED
  BY <1>1, <1>2, PassedIsOver

(* A step that reads the definition under the cursor and keeps the links   *)
(* keeps the invariant when one of the links has its key and may stay.     *)
LEMMA InvKeep ==
  ASSUME TypeOK, IInv, rc = "walk", Visible(at.depth, at.admin, at.index), Keep,
         NEW i \in 1..Len(links), links[i].def.key = Read.key,
         links[i].admin >= at.admin,
         links[i].admin = at.admin =>
           IF at.depth = links[i].depth THEN ~ Clash(links[i].def, Read)
                                        ELSE ~ BadlyRedefined(links[i].def, Read)
  PROVE  IInv'
<1>1. at.index <= Len(Here) /\ Step /\ UNCHANGED <<conf, links, sent, rc>>
  BY DEF Visible, Keep, Here
<1>2. \A e \in Depth, b \in Rank : \A j \in 1..Len(conf[e][b]) :
        Done(e, b, j)' <=> Done(e, b, j) \/ <<e, b, j>> = <<at.depth, at.admin, at.index>>
  BY <1>1, DoneNext
<1>3. ASSUME NEW n \in 1..Len(links)
      PROVE  LinkPrevails(links[n])'
  <2>1. links[n] \in Link /\ links[n].depth \in Depth /\ links[n].admin \in Rank
    BY LinkTypes
  <2>2. PICK k \in 1..Len(conf[links[n].depth][links[n].admin]) :
          /\ Visible(links[n].depth, links[n].admin, k)
          /\ Done(links[n].depth, links[n].admin, k)
          /\ conf[links[n].depth][links[n].admin][k] = links[n].def
          /\ \A e \in Depth, b \in Rank : \A j \in 1..Len(conf[e][b]) :
               Visible(e, b, j) /\ Done(e, b, j) /\ conf[e][b][j].key = links[n].def.key
                 => <<e, b, j>> = <<links[n].depth, links[n].admin, k>>
                    \/ Over(links[n].depth, links[n].admin, k, e, b, j)
    BY DEF IInv, LinkPrevails
  <2>3. Done(links[n].depth, links[n].admin, k)'
    BY <1>1, <1>2, <2>1, <2>2
  <2>4. ASSUME links[n].def.key = Read.key
        PROVE  Over(links[n].depth, links[n].admin, k, at.depth, at.admin, at.index)
    <3>1. n = i
      BY <2>4 DEF IInv, OneLinkEach
    <3> QED
      BY <2>1, <2>2, <3>1, LinkPlace
  <2>5. ASSUME NEW e \in Depth, NEW b \in Rank, NEW j \in 1..Len(conf[e][b]),
               Visible(e, b, j), Done(e, b, j)', conf[e][b][j].key = links[n].def.key
        PROVE  <<e, b, j>> = <<links[n].depth, links[n].admin, k>>
               \/ Over(links[n].depth, links[n].admin, k, e, b, j)
    <3>1. CASE Done(e, b, j)
      BY <2>2, <2>5, <3>1
    <3>2. CASE <<e, b, j>> = <<at.depth, at.admin, at.index>>
      <4>1. e = at.depth /\ b = at.admin /\ j = at.index
        BY <3>2
      <4>2. links[n].def.key = Read.key
        BY <2>5, <4>1 DEF Read, Here
      <4> QED
        BY <4>1, <4>2, <2>4
    <3> QED
      BY <1>2, <2>5, <3>1, <3>2
  <2> QED
    BY <1>1, <2>1, <2>2, <2>3, <2>5 DEF LinkPrevails, Visible
<1>4. ASSUME NEW n \in 1..Len(links)
      PROVE  LinkAllowed(links[n])'
  <2>1. links[n].depth \in Depth /\ links[n].admin \in Rank /\ LinkAllowed(links[n])
    BY LinkTypes DEF IInv
  <2>2. ASSUME NEW e \in Depth, NEW j \in 1..Len(conf[e][links[n].admin]),
               Visible(e, links[n].admin, j), Done(e, links[n].admin, j)',
               conf[e][links[n].admin][j].key = links[n].def.key
        PROVE  IF e = links[n].depth
                 THEN ~ Clash(links[n].def, conf[e][links[n].admin][j])
                 ELSE ~ BadlyRedefined(links[n].def, conf[e][links[n].admin][j])
    <3>1. CASE Done(e, links[n].admin, j)
      BY <2>1, <2>2, <3>1 DEF LinkAllowed
    <3>2. CASE <<e, links[n].admin, j>> = <<at.depth, at.admin, at.index>>
      <4>1. e = at.depth /\ links[n].admin = at.admin /\ j = at.index
        BY <3>2
      <4>2. conf[e][links[n].admin][j] = Read
        BY <4>1 DEF Read, Here
      <4>3. n = i
        BY <2>2, <4>2 DEF IInv, OneLinkEach
      <4>4. IF at.depth = links[n].depth THEN ~ Clash(links[n].def, Read)
                                         ELSE ~ BadlyRedefined(links[n].def, Read)
        BY <4>1, <4>3
      <4> QED
        BY <4>1, <4>2, <4>4
    <3> QED
      BY <1>1, <1>2, <2>1, <2>2, <3>1, <3>2
  <2> QED
    BY <1>1, <2>2 DEF LinkAllowed, Visible
<1>5. AllMet'
  <2>1. ASSUME NEW e \in Depth, NEW b \in Rank, NEW j \in 1..Len(conf[e][b]),
               Visible(e, b, j), Done(e, b, j)'
        PROVE  \E n \in 1..Len(links) : links[n].def.key = conf[e][b][j].key
    <3>1. CASE Done(e, b, j)
      BY <2>1, <3>1 DEF IInv, AllMet
    <3>2. CASE <<e, b, j>> = <<at.depth, at.admin, at.index>>
      <4>1. conf[e][b][j] = Read
        BY <3>2 DEF Read, Here
      <4> QED
        BY <4>1
    <3> QED
      BY <1>2, <2>1, <3>1, <3>2
  <2> QED
    BY <1>1, <2>1 DEF AllMet, Visible
<1>6. OneLinkEach' /\ SentFromLinks' /\ AtEnd'
  BY <1>1 DEF IInv, OneLinkEach, SentFromLinks, AtEnd, Unsent
<1> QED
  BY <1>1, <1>3, <1>4, <1>5, <1>6 DEF IInv

(* A step that neither passes a visible definition nor touches the links   *)
(* keeps what is said of them.                                             *)
LEMMA InvSame ==
  ASSUME TypeOK, IInv, UNCHANGED <<conf, links>>, SentFromLinks', AtEnd',
         \A e \in Depth, b \in Rank : \A j \in 1..Len(conf[e][b]) :
           Visible(e, b, j) => (Done(e, b, j)' <=> Done(e, b, j))
  PROVE  IInv'
<1>1. ASSUME NEW n \in 1..Len(links)
      PROVE  LinkPrevails(links[n])'
  <2>1. links[n].depth \in Depth /\ links[n].admin \in Rank /\ LinkPrevails(links[n])
    BY LinkTypes DEF IInv
  <2> QED
    BY <2>1 DEF LinkPrevails, Visible
<1>2. ASSUME NEW n \in 1..Len(links)
      PROVE  LinkAllowed(links[n])'
  <2>1. links[n].depth \in Depth /\ links[n].admin \in Rank /\ LinkAllowed(links[n])
    BY LinkTypes DEF IInv
  <2> QED
    BY <2>1 DEF LinkAllowed, Visible
<1>3. AllMet' /\ OneLinkEach'
  BY DEF IInv, AllMet, OneLinkEach, Visible
<1> QED
  BY <1>1, <1>2, <1>3 DEF IInv

(* The first definition of a key that is met gets a link of its own.       *)
LEMMA InvNew == TypeOK /\ IInv /\ NewKey => IInv'
<1> SUFFICES ASSUME TypeOK, IInv, NewKey PROVE IInv'
  OBVIOUS
<1>1. /\ rc = "walk" /\ at.index <= Len(Here) /\ Step /\ UNCHANGED <<conf, sent, rc>>
      /\ Visible(at.depth, at.admin, at.index)
      /\ \A n \in 1..Len(links) : links[n].def.key # Read.key
  BY DEF NewKey, Visible, Here
<1>2. PICK d \in Depth, a \in Rank, k \in Nat :
        d = at.depth /\ a = at.admin /\ k = at.index
  BY DEF TypeOK, Cursor
<1>3. PICK new, N : new = [def |-> Read, depth |-> at.depth, admin |-> at.admin] /\ N = Len(links)
  OBVIOUS
<1>4. /\ N \in Nat /\ Len(links') = N + 1 /\ links'[N + 1] = new
      /\ \A n \in 1..N : links'[n] = links[n]
  BY <1>3 DEF NewKey, TypeOK
<1>5. /\ new.def = conf[d][a][k] /\ new.depth = d /\ new.admin = a
      /\ k \in 1..Len(conf[d][a]) /\ Visible(d, a, k)
      /\ \A n \in 1..N : links[n].def.key # new.def.key
  BY <1>1, <1>2, <1>3 DEF Read, Here, Visible
<1>6. \A e \in Depth, b \in Rank : \A j \in 1..Len(conf[e][b]) :
        Done(e, b, j)' <=> Done(e, b, j) \/ <<e, b, j>> = <<d, a, k>>
  BY <1>1, <1>2, DoneNext
<1>7. ASSUME NEW e \in Depth, NEW b \in Rank, NEW j \in 1..Len(conf[e][b]),
             Visible(e, b, j), Done(e, b, j)', conf[e][b][j].key = new.def.key
      PROVE  <<e, b, j>> = <<d, a, k>>
  <2>1. ~ Done(e, b, j)
    BY <1>3, <1>5, <1>7 DEF IInv, AllMet
  <2> QED
    BY <1>6, <1>7, <2>1
<1>8. LinkPrevails(new)'
  BY <1>1, <1>5, <1>6, <1>7 DEF LinkPrevails, Visible
<1>9. LinkAllowed(new)'
  <2>1. ASSUME NEW e \in Depth, NEW j \in 1..Len(conf[e][new.admin]),
               Visible(e, new.admin, j), Done(e, new.admin, j)',
               conf[e][new.admin][j].key = new.def.key
        PROVE  e = new.depth /\ ~ Clash(new.def, conf[e][new.admin][j])
    <3>1. <<e, a, j>> = <<d, a, k>>
      BY <1>5, <1>7, <2>1
    <3> QED
      BY <1>5, <3>1, NoSelfClash
  <2> QED
    BY <1>1, <2>1 DEF LinkAllowed, Visible
<1>10. ASSUME NEW n \in 1..N
       PROVE  LinkPrevails(links[n])' /\ LinkAllowed(links[n])'
  <2>1. PICK old \in Link : old = links[n] /\ old.depth \in Depth /\ old.admin \in Rank
    BY <1>3, LinkTypes
  <2>2. LinkPrevails(old) /\ LinkAllowed(old) /\ old.def.key # new.def.key
    BY <1>3, <1>5, <2>1 DEF IInv
  <2>3. \A e \in Depth, b \in Rank : \A j \in 1..Len(conf[e][b]) :
          conf[e][b][j].key = old.def.key => (Done(e, b, j)' <=> Done(e, b, j))
    BY <1>5, <1>6, <2>2
  <2>4. LinkPrevails(old)'
    <3>1. PICK m \in 1..Len(conf[old.depth][old.admin]) :
            /\ Visible(old.depth, old.admin, m)
            /\ Done(old.depth, old.admin, m)
            /\ conf[old.depth][old.admin][m] = old.def
            /\ \A e \in Depth, b \in Rank : \A j \in 1..Len(conf[e][b]) :
                 Visible(e, b, j) /\ Done(e, b, j) /\ conf[e][b][j].key = old.def.key
                   => <<e, b, j>> = <<old.depth, old.admin, m>>
                      \/ Over(old.depth, old.admin, m, e, b, j)
      BY <2>2 DEF LinkPrevails
    <3>2. Done(old.depth, old.admin, m)'
      BY <2>1, <2>3, <3>1
    <3> QED
      BY <1>1, <2>1, <2>3, <3>1, <3>2 DEF LinkPrevails, Visible
  <2>5. LinkAllowed(old)'
    BY <1>1, <2>1, <2>2, <2>3 DEF LinkAllowed, Visible
  <2>6. links'[n] = old
    BY <1>4, <2>1
  <2> QED
    BY <2>4, <2>5, <2>6
<1>11. (\A n \in 1..Len(links) : LinkPrevails(links[n]) /\ LinkAllowed(links[n]))'
  <2> SUFFICES ASSUME NEW n \in 1..(N + 1)
               PROVE  LinkPrevails(links[n])' /\ LinkAllowed(links[n])'
    BY <1>4
  <2>1. CASE n = N + 1
    <3>1. links'[n] = new
      BY <1>4, <2>1
    <3> QED
      BY <1>8, <1>9, <3>1
  <2>2. CASE n # N + 1
    <3>1. n \in 1..N
      BY <1>4, <2>2
    <3> QED
      BY <1>10, <3>1
  <2> QED
    BY <2>1, <2>2
<1>12. AllMet'
  <2>1. ASSUME NEW e \in Depth, NEW b \in Rank, NEW j \in 1..Len(conf[e][b]),
               Visible(e, b, j), Done(e, b, j)'
        PROVE  \E n \in 1..Len(links') : links'[n].def.key = conf[e][b][j].key
    <3>1. CASE Done(e, b, j)
      <4>1. PICK n \in 1..N : links[n].def.key = conf[e][b][j].key
        BY <1>3, <2>1, <3>1 DEF IInv, AllMet
      <4> QED
        BY <1>4, <4>1
    <3>2. CASE <<e, b, j>> = <<d, a, k>>
      <4>1. conf[e][b][j] = new.def
        BY <1>5, <3>2
      <4> QED
        BY <1>4, <4>1
    <3> QED
      BY <1>6, <2>1, <3>1, <3>2
  <2> QED
    BY <1>1, <2>1 DEF AllMet, Visible
<1>13. OneLinkEach'
  BY <1>3, <1>4, <1>5 DEF OneLinkEach, IInv
<1>14. SentFromLinks' /\ AtEnd'
  BY <1>1 DEF IInv, SentFromLinks, AtEnd
<1> QED
  BY <1>11, <1>12, <1>13, <1>14 DEF IInv

(* The administrator of an ancestor takes over a normal setting: nothing   *)
(* of the administrators had been met about its key.                       *)
LEMMA InvReplace ==
  ASSUME TypeOK, IInv, rc = "walk", Visible(at.depth, at.admin, at.index), Step,
         UNCHANGED <<conf, sent, rc>>,
         NEW i \in 1..Len(links), links[i].def.key = Read.key,
         at.admin = 1, links[i].admin = 0,
         links' = [links EXCEPT ![i] =
                     [def |-> Read, depth |-> at.depth, admin |-> at.admin]]
  PROVE  IInv'
<1>1. at.index <= Len(Here)
  BY DEF Visible, Here
<1>2. PICK d \in Depth, a \in Rank, k \in Nat :
        d = at.depth /\ a = at.admin /\ k = at.index
  BY DEF TypeOK, Cursor
<1>3. PICK new, N : new = [def |-> Read, depth |-> at.depth, admin |-> at.admin] /\ N = Len(links)
  OBVIOUS
<1>4. /\ N \in Nat /\ Len(links') = N /\ i \in 1..N /\ links'[i] = new
      /\ \A n \in 1..N : n # i => links'[n] = links[n]
  BY <1>3 DEF TypeOK
<1>5. /\ new.def = conf[d][a][k] /\ new.depth = d /\ new.admin = a /\ a = 1
      /\ k \in 1..Len(conf[d][a]) /\ Visible(d, a, k)
      /\ links[i].def.key = new.def.key
  BY <1>1, <1>2, <1>3 DEF Read, Here, Visible
<1>6. \A e \in Depth, b \in Rank : \A j \in 1..Len(conf[e][b]) :
        Done(e, b, j)' <=> Done(e, b, j) \/ <<e, b, j>> = <<d, a, k>>
  BY <1>1, <1>2, DoneNext
<1>7. ASSUME NEW e \in Depth, NEW b \in Rank, NEW j \in 1..Len(conf[e][b]),
             Visible(e, b, j), Done(e, b, j)', conf[e][b][j].key = new.def.key
      PROVE  b = 0 \/ <<e, b, j>> = <<d, a, k>>
  <2>1. CASE Done(e, b, j)
    <3>1. PICK m \in 1..Len(conf[links[i].depth][links[i].admin]) :
            <<e, b, j>> = <<links[i].depth, links[i].admin, m>>
              \/ Over(links[i].depth, links[i].admin, m, e, b, j)
      BY <1>5, <1>7, <2>1 DEF IInv, LinkPrevails
    <3> QED
      BY <3>1 DEF Over, Rank
  <2> QED
    BY <1>6, <1>7, <2>1
<1>8. LinkPrevails(new)'
  <2>1. \A e \in Depth, b \in Rank : \A j \in 1..Len(conf[e][b]) :
          Visible(e, b, j) /\ Done(e, b, j)' /\ conf[e][b][j].key = new.def.key
            => <<e, b, j>> = <<d, a, k>> \/ Over(d, a, k, e, b, j)
    <3> SUFFICES ASSUME NEW e \in Depth, NEW b \in Rank, NEW j \in 1..Len(conf[e][b]),
                        Visible(e, b, j), Done(e, b, j)', conf[e][b][j].key = new.def.key
                 PROVE  <<e, b, j>> = <<d, a, k>> \/ Over(d, a, k, e, b, j)
      OBVIOUS
    <3>1. b = 0 \/ <<e, b, j>> = <<d, a, k>>
      BY <1>7
    <3> QED
      BY <1>5, <3>1 DEF Over
  <2> QED
    BY <1>5, <1>6, <2>1 DEF LinkPrevails, Visible
<1>9. LinkAllowed(new)'
  <2>1. ASSUME NEW e \in Depth, NEW j \in 1..Len(conf[e][new.admin]),
               Visible(e, new.admin, j), Done(e, new.admin, j)',
               conf[e][new.admin][j].key = new.def.key
        PROVE  e = new.depth /\ ~ Clash(new.def, conf[e][new.admin][j])
    <3>1. <<e, a, j>> = <<d, a, k>>
      BY <1>5, <1>7, <2>1
    <3> QED
      BY <1>5, <3>1, NoSelfClash
  <2> QED
    BY <2>1 DEF LinkAllowed, Visible
<1>10. ASSUME NEW n \in 1..N, n # i
       PROVE  LinkPrevails(links[n])' /\ LinkAllowed(links[n])'
  <2>1. PICK old \in Link : old = links[n] /\ old.depth \in Depth /\ old.admin \in Rank
    BY <1>3, LinkTypes
  <2>2. LinkPrevails(old) /\ LinkAllowed(old) /\ old.def.key # new.def.key
    BY <1>3, <1>5, <1>10, <2>1 DEF IInv, OneLinkEach
  <2>3. \A e \in Depth, b \in Rank : \A j \in 1..Len(conf[e][b]) :
          conf[e][b][j].key = old.def.key => (Done(e, b, j)' <=> Done(e, b, j))
    BY <1>5, <1>6, <2>2
  <2>4. LinkPrevails(old)'
    <3>1. PICK m \in 1..Len(conf[old.depth][old.admin]) :
            /\ Visible(old.depth, old.admin, m)
            /\ Done(old.depth, old.admin, m)
            /\ conf[old.depth][old.admin][m] = old.def
            /\ \A e \in Depth, b \in Rank : \A j \in 1..Len(conf[e][b]) :
                 Visible(e, b, j) /\ Done(e, b, j) /\ conf[e][b][j].key = old.def.key
                   => <<e, b, j>> = <<old.depth, old.admin, m>>
                      \/ Over(old.depth, old.admin, m, e, b, j)
      BY <2>2 DEF LinkPrevails
    <3>2. Done(old.depth, old.admin, m)'
      BY <2>1, <2>3, <3>1
    <3> QED
      BY <2>1, <2>3, <3>1, <3>2 DEF LinkPrevails, Visible
  <2>5. LinkAllowed(old)'
    BY <2>1, <2>2, <2>3 DEF LinkAllowed, Visible
  <2>6. links'[n] = old
    BY <1>4, <1>10, <2>1
  <2> QED
    BY <2>4, <2>5, <2>6
<1>11. (\A n \in 1..Len(links) : LinkPrevails(links[n]) /\ LinkAllowed(links[n]))'
  <2> SUFFICES ASSUME NEW n \in 1..N
               PROVE  LinkPrevails(links[n])' /\ LinkAllowed(links[n])'
    BY <1>4
  <2>1. CASE n = i
    <3>1. links'[n] = new
      BY <1>4, <2>1
    <3> QED
      BY <1>8, <1>9, <3>1
  <2> QED
    BY <1>10, <2>1
<1>12. \A n \in 1..N : links'[n].def.key = links[n].def.key
  BY <1>4, <1>5
<1>13. AllMet'
  <2>1. ASSUME NEW e \in Depth, NEW b \in Rank, NEW j \in 1..Len(conf[e][b]),
               Visible(e, b, j), Done(e, b, j)'
        PROVE  \E n \in 1..Len(links') : links'[n].def.key = conf[e][b][j].key
    <3>1. CASE Done(e, b, j)
      <4>1. PICK n \in 1..N : links[n].def.key = conf[e][b][j].key
        BY <1>3, <2>1, <3>1 DEF IInv, AllMet
      <4> QED
        BY <1>4, <1>12, <4>1
    <3>2. CASE <<e, b, j>> = <<d, a, k>>
      <4>1. conf[e][b][j] = new.def
        BY <1>5, <3>2
      <4> QED
        BY <1>4, <4>1
    <3> QED
      BY <1>6, <2>1, <3>1, <3>2
  <2> QED
    BY <2>1 DEF AllMet, Visible
<1>14. OneLinkEach'
  BY <1>3, <1>4, <1>12 DEF OneLinkEach, IInv
<1>15. SentFromLinks' /\ AtEnd'
  BY DEF IInv, SentFromLinks, AtEnd
<1> QED
  BY <1>11, <1>13, <1>14, <1>15 DEF IInv

(* IInv is inductive, with the types.                                      *)
LEMMA InvStep == TypeOK /\ IInv /\ [Next]_vars => IInv'
<1> SUFFICES ASSUME TypeOK, IInv, [Next]_vars PROVE IInv'
  OBVIOUS
<1>1. CASE NextConfig
  <2>1. UNCHANGED <<conf, links, sent>> /\ rc = "walk"
    BY <1>1 DEF NextConfig
  <2>2. SentFromLinks'
    BY <1>1, <2>1 DEF NextConfig, SentFromLinks, IInv
  <2>3. AtEnd'
    <3>1. at.index = Len(Here) + 1
      BY <1>1, ConfTypes DEF NextConfig, TypeOK, Cursor, Here
    <3> QED
      BY <1>1, <3>1 DEF NextConfig, AtEnd, Here
  <2> QED
    BY <1>1, <2>1, <2>2, <2>3, InvSame, DoneLeft
<1>2. CASE SkipPrivate
  <2>1. /\ at.index <= Len(Here) /\ Step /\ rc = "walk" /\ UNCHANGED <<conf, links, sent, rc>>
        /\ ~ Visible(at.depth, at.admin, at.index)
    BY <1>2 DEF SkipPrivate
  <2>2. SentFromLinks' /\ AtEnd'
    BY <2>1 DEF SentFromLinks, AtEnd, IInv
  <2>3. \A e \in Depth, b \in Rank : \A j \in 1..Len(conf[e][b]) :
          Visible(e, b, j) => (Done(e, b, j)' <=> Done(e, b, j))
    BY <2>1, DoneNext
  <2> QED
    BY <2>1, <2>2, <2>3, InvSame
<1>3. CASE NewKey
  BY <1>3, InvNew
<1>4. CASE SeenKey
  <2>1. rc = "walk" /\ Visible(at.depth, at.admin, at.index)
    BY <1>4 DEF SeenKey
  <2>2. PICK i \in 1..Len(links) : IsLinkOf(i) /\ (SameNode(links[i]) \/ FromAncestor(i))
    BY <1>4 DEF SeenKey
  <2>3. links[i].def.key = Read.key /\ links[i] \in Link
    BY <2>2, LinkTypes DEF IsLinkOf
  <2>4. PICK k \in 1..Len(conf[links[i].depth][links[i].admin]) :
          Done(links[i].depth, links[i].admin, k)
    BY DEF IInv, LinkPrevails
  <2>5. /\ links[i].admin \in Rank /\ at.admin \in Rank
        /\ links[i].depth = at.depth /\ links[i].admin # at.admin => links[i].admin > at.admin
    BY <2>3, <2>4, LinkPlace DEF Link, TypeOK, Cursor
  <2>6. CASE Fail
    <3>1. SentFromLinks' /\ AtEnd'
      BY <2>6, <2>1 DEF Fail, SentFromLinks, AtEnd, IInv
    <3> QED
      BY <2>6, <3>1, InvSame DEF Fail, Done
  <2>7. CASE SameNode(links[i]) /\ ~ Fail
    <3>1. /\ Keep /\ links[i].depth = at.depth
          /\ links[i].admin = at.admin => ~ Clash(links[i].def, Read)
      BY <2>7 DEF SameNode
    <3>2. links[i].admin >= at.admin
      BY <2>5, <3>1 DEF Rank
    <3> QED
      BY <2>1, <2>3, <3>1, <3>2, InvKeep
  <2>8. CASE FromAncestor(i) /\ ~ Fail
    <3>1. CASE /\ at.admin = 1 /\ links[i].admin = 0 /\ Step /\ UNCHANGED <<conf, sent, rc>>
               /\ links' = [links EXCEPT ![i] =
                              [def |-> Read, depth |-> at.depth, admin |-> at.admin]]
      BY <2>1, <2>3, <3>1, InvReplace
    <3>2. CASE /\ at.admin <= links[i].admin /\ Keep
               /\ at.admin = links[i].admin => ~ BadlyRedefined(links[i].def, Read)
      <4>1. links[i].depth # at.depth /\ links[i].admin >= at.admin
        BY <2>5, <2>8, <3>2 DEF FromAncestor, Rank
      <4> QED
        BY <2>1, <2>3, <3>2, <4>1, InvKeep
    <3> QED
      BY <2>5, <2>8, <3>1, <3>2 DEF FromAncestor, Rank
  <2> QED
    BY <2>2, <2>6, <2>7, <2>8
<1>5. CASE Send
  <2>1. PICK i \in Unsent : \/ sent' = Append(sent, links[i].def) /\ UNCHANGED rc
                            \/ rc' = "fail" /\ UNCHANGED sent
    BY <1>5 DEF Send
  <2>2. rc = "send" /\ UNCHANGED <<conf, at, links>> /\ i \in 1..Len(links)
    BY <1>5, <2>1 DEF Send, Unsent
  <2>3. SentFromLinks'
    <3>1. CASE sent' = Append(sent, links[i].def) /\ UNCHANGED rc
      <4>1. /\ Len(sent) \in Nat /\ Len(sent') = Len(sent) + 1
            /\ sent'[Len(sent) + 1] = links[i].def
            /\ \A m \in 1..Len(sent) : sent'[m] = sent[m]
        BY <3>1 DEF TypeOK
      <4>2. ASSUME NEW m \in 1..(Len(sent) + 1)
            PROVE  \E n \in 1..Len(links) : links[n].def = sent'[m]
        <5>1. CASE m = Len(sent) + 1
          BY <2>2, <4>1, <5>1
        <5>2. CASE m # Len(sent) + 1
          <6>1. m \in 1..Len(sent)
            BY <4>1, <5>2
          <6> QED
            BY <4>1, <6>1 DEF SentFromLinks, IInv
        <5> QED
          BY <5>1, <5>2
      <4> QED
        BY <2>2, <3>1, <4>1, <4>2 DEF SentFromLinks
    <3>2. CASE rc' = "fail" /\ UNCHANGED sent
      BY <2>2, <3>2 DEF SentFromLinks, IInv
    <3> QED
      BY <2>1, <3>1, <3>2
  <2>4. AtEnd'
    BY <2>1, <2>2 DEF AtEnd, IInv, Here
  <2> QED
    BY <2>2, <2>3, <2>4, InvSame DEF Done
<1>6. CASE Return
  <2>1. UNCHANGED <<conf, at, links, sent>> /\ rc = "send" /\ rc' = "ok" /\ Unsent' = {}
    BY <1>6 DEF Return, Unsent
  <2>2. SentFromLinks' /\ AtEnd'
    BY <2>1 DEF SentFromLinks, AtEnd, IInv, Here
  <2> QED
    BY <2>1, <2>2, InvSame DEF Done
<1>7. CASE UNCHANGED vars
  <2>1. SentFromLinks' /\ AtEnd'
    BY <1>7 DEF vars, SentFromLinks, AtEnd, IInv, Here, Unsent
  <2> QED
    BY <1>7, <2>1, InvSame DEF vars, Done
<1> QED
  BY <1>1, <1>2, <1>3, <1>4, <1>5, <1>6, <1>7 DEF Next

(* The invariant of the walk.                                              *)
THEOREM InvariantCorrect == Spec => []IInv
<1>1. Spec => [](TypeOK /\ IInv)
  BY TypeInit, TypeStep, InvInit, InvStep, PTL DEF Spec
<1> QED
  BY <1>1, PTL

-----------------------------------------------------------------------------
(* What the code's comments assume of a key already seen holds.            *)
THEOREM AssumedOrderCorrect == Spec => []AssumedOrder
<1>1. TypeOK /\ IInv => AssumedOrder
  <2> SUFFICES ASSUME TypeOK, IInv, NEW i \in 1..Len(links)
               PROVE  \/ links[i].depth < at.depth
                      \/ links[i].depth = at.depth /\ links[i].admin = at.admin
                      \/ links[i].depth = at.depth /\ at.admin = 0 /\ links[i].admin = 1
    BY DEF AssumedOrder
  <2>1. PICK k \in 1..Len(conf[links[i].depth][links[i].admin]) :
          Done(links[i].depth, links[i].admin, k)
    BY DEF IInv, LinkPrevails
  <2>2. links[i] \in Link /\ links[i].admin \in Rank /\ links[i].depth \in Depth
    BY LinkTypes
  <2>3. /\ links[i].depth = at.depth /\ links[i].admin # at.admin => links[i].admin > at.admin
        /\ links[i].depth <= at.depth
    BY <2>1, <2>2, LinkPlace
  <2>4. at.admin \in Rank /\ at.depth \in Depth
    BY DEF TypeOK, Cursor
  <2> QED
    BY <2>2, <2>3, <2>4, FamilyAssumption DEF Rank, Depth
<1> QED
  BY TypeCorrect, InvariantCorrect, <1>1, PTL

(* At the end of the walk every visible definition has been passed.        *)
LEMMA AllDone ==
  ASSUME TypeOK, AtEnd, rc \in {"send", "ok"},
         NEW e \in Depth, NEW b \in Rank, NEW j \in 1..Len(conf[e][b])
  PROVE  Done(e, b, j)
<1>1. at.depth + 1 = Height /\ at.admin = 0 /\ at.index = Len(Here) + 1
  BY DEF AtEnd
<1>2. /\ at.depth \in Int /\ e \in Int /\ e <= at.depth
      /\ Len(conf[e][b]) \in Nat /\ j \in 1..Len(conf[e][b]) /\ b \in {0, 1}
  BY <1>1, ConfTypes, FamilyAssumption DEF TypeOK, Cursor, Depth, Rank
<1>3. e = at.depth /\ b = at.admin => j < at.index
  BY <1>1, <1>2 DEF Here
<1> QED
  BY <1>1, <1>2, <1>3 DEF Done, Earlier

(* What is handed over in the end is what the family says.                 *)
LEMMA LinksPrevail ==
  ASSUME TypeOK, IInv, rc \in {"send", "ok"}, NEW n \in 1..Len(links)
  PROVE  Prevails(links[n].def)
<1>1. PICK link \in Link : link = links[n] /\ link.depth \in Depth /\ link.admin \in Rank
  BY LinkTypes
<1>2. LinkPrevails(link) /\ AtEnd
  BY <1>1 DEF IInv
<1> QED
  BY <1>1, <1>2, AllDone DEF LinkPrevails, Prevails

(* Rules 1 and 2 of the merge of capabilities.                             *)
THEOREM NoEscalationCorrect == Spec => []NoEscalation
<1>1. TypeOK /\ IInv => NoEscalation
  <2> SUFFICES ASSUME TypeOK, IInv, rc = "ok", Kind = "capability",
                      NEW n \in 1..Len(sent), sent[n].val # 0
               PROVE  \A e \in Depth, b \in Rank : \A j \in 1..Len(conf[e][b]) :
                        conf[e][b][j].key = sent[n].key /\ conf[e][b][j].val = 0 =>
                          /\ b = 0
                          /\ \E d \in Depth : \E i \in 1..Len(conf[d][1]) :
                               conf[d][1][i].key = sent[n].key /\ conf[d][1][i].val # 0
    BY DEF NoEscalation
  <2> SUFFICES ASSUME NEW e \in Depth, NEW b \in Rank, NEW j \in 1..Len(conf[e][b]),
                      conf[e][b][j].key = sent[n].key, conf[e][b][j].val = 0
               PROVE  /\ b = 0
                      /\ \E d \in Depth : \E i \in 1..Len(conf[d][1]) :
                           conf[d][1][i].key = sent[n].key /\ conf[d][1][i].val # 0
    OBVIOUS
  <2>1. PICK m \in 1..Len(links) : links[m].def = sent[n]
    BY DEF IInv, SentFromLinks
  <2>2. PICK link \in Link : /\ link = links[m] /\ link.depth \in Depth /\ link.admin \in Rank
                             /\ link.def = sent[n]
    BY <2>1, LinkTypes
  <2>3. LinkPrevails(link) /\ LinkAllowed(link) /\ AtEnd
    BY <2>2 DEF IInv
  <2>4. Visible(e, b, j) /\ Done(e, b, j)
    BY <2>3, AllDone DEF Visible
  <2>5. b # link.admin
    <3> SUFFICES ASSUME b = link.admin PROVE FALSE
      OBVIOUS
    <3>1. IF e = link.depth THEN ~ Clash(link.def, conf[e][b][j])
                            ELSE ~ BadlyRedefined(link.def, conf[e][b][j])
      BY <2>2, <2>3, <2>4 DEF LinkAllowed
    <3> QED
      BY <2>2, <3>1 DEF Clash, BadlyRedefined
  <2>6. PICK k \in 1..Len(conf[link.depth][link.admin]) :
          /\ conf[link.depth][link.admin][k] = link.def
          /\ \/ <<e, b, j>> = <<link.depth, link.admin, k>>
             \/ Over(link.depth, link.admin, k, e, b, j)
    BY <2>2, <2>3, <2>4 DEF LinkPrevails
  <2>7. link.admin = 1 /\ b = 0
    BY <2>2, <2>5, <2>6 DEF Over, Rank
  <2> QED
    BY <2>2, <2>6, <2>7
<1> QED
  BY TypeCorrect, InvariantCorrect, <1>1, PTL

-----------------------------------------------------------------------------
(* The abstract specification reads the family as the walk does.           *)
LEMMA PromisePrevails ==
  ASSUME NEW def, Prevails(def)
  PROVE  Promise!Prevails(def)
<1>1. Promise!Depth = Depth /\ Promise!Rank = Rank
  BY DEF Depth, Promise!Depth, Rank, Promise!Rank
<1>2. \A d, a, i : Promise!Visible(d, a, i) <=> Visible(d, a, i)
  BY DEF Visible, Promise!Visible
<1>3. \A d, a, i, e, b, j : Promise!Earlier(d, a, i, e, b, j) <=> Earlier(d, a, i, e, b, j)
  BY DEF Earlier, Promise!Earlier
<1>4. \A d, a, i, e, b, j : Promise!Over(d, a, i, e, b, j) <=> Over(d, a, i, e, b, j)
  BY <1>3 DEF Over, Promise!Over
<1> QED
  BY <1>1, <1>2, <1>4 DEF Prevails, Promise!Prevails

(* A key that the promise is about is in some list.                        *)
LEMMA PromiseMentioned ==
  ASSUME NEW k, Promise!Mentioned(k)
  PROVE  \E e \in Depth, b \in Rank : \E j \in 1..Len(conf[e][b]) :
           Visible(e, b, j) /\ conf[e][b][j].key = k
<1>1. Promise!Depth = Depth /\ Promise!Rank = Rank
  BY DEF Depth, Promise!Depth, Rank, Promise!Rank
<1>2. \A d, a, i : Promise!Visible(d, a, i) <=> Visible(d, a, i)
  BY DEF Visible, Promise!Visible
<1> QED
  BY <1>1, <1>2 DEF Promise!Mentioned

(* The merge keeps its promise: MixWalk implements MergePromise.           *)
THEOREM Refinement == Spec => KeepsPromise
<1> DEFINE end == IF rc \in {"ok", "fail"} THEN rc ELSE "run"
<1>1. Init => Promise!Init
  BY DEF Init, Promise!Init, Families, Promise!Families, Depth, Promise!Depth, Rank, Promise!Rank
<1>2. TypeOK /\ IInv /\ [Next]_vars => [Promise!Next]_(Promise!vars)
  <2> SUFFICES ASSUME TypeOK, IInv, [Next]_vars PROVE [Promise!Next]_(Promise!vars)
    OBVIOUS
  <2> USE DEF Promise!vars
  <2>1. ASSUME UNCHANGED <<conf, sent, rc>> PROVE UNCHANGED Promise!vars
    BY <2>1
  <2>2. ASSUME UNCHANGED <<conf, sent>>, rc \in {"walk", "send"}, rc' = "fail"
        PROVE  Promise!Next
    <3>1. end = "run" /\ end' = "fail"
      BY <2>2
    <3> QED
      BY <2>2, <3>1 DEF Promise!Next, Promise!Refuse
  <2>3. CASE NextConfig
    <3>1. UNCHANGED <<conf, sent>> /\ rc = "walk" /\ rc' \in {"walk", "send"}
      BY <2>3 DEF NextConfig
    <3> QED
      BY <3>1
  <2>4. CASE SkipPrivate
    BY <2>1, <2>4 DEF SkipPrivate
  <2>5. CASE NewKey
    BY <2>1, <2>5 DEF NewKey
  <2>6. CASE SeenKey
    <3>1. \/ UNCHANGED <<conf, sent, rc>>
          \/ UNCHANGED <<conf, sent>> /\ rc = "walk" /\ rc' = "fail"
      BY <2>6 DEF SeenKey, SameNode, FromAncestor, Fail, Keep
    <3> QED
      BY <2>1, <2>2, <3>1
  <2>7. CASE Send
    <3>1. PICK i \in Unsent : \/ sent' = Append(sent, links[i].def) /\ UNCHANGED rc
                              \/ rc' = "fail" /\ UNCHANGED sent
      BY <2>7 DEF Send
    <3>2. i \in 1..Len(links) /\ links[i].def \in Def
      BY <3>1, LinkTypes DEF Unsent
    <3>3. Promise!Prevails(links[i].def)
      BY <2>7, <3>2, LinksPrevail, PromisePrevails DEF Send
    <3>4. \A n \in 1..Len(sent) : sent[n].key # links[i].def.key
      BY <3>1, <3>2 DEF IInv, OneLinkEach, SentFromLinks, Unsent
    <3>5. rc = "send" /\ UNCHANGED conf
      BY <2>7 DEF Send
    <3>6. CASE rc' = "fail" /\ UNCHANGED sent
      BY <2>2, <3>5, <3>6
    <3>7. CASE sent' = Append(sent, links[i].def) /\ UNCHANGED rc
      <4>1. end = "run" /\ end' = "run"
        BY <3>5, <3>7
      <4>2. links[i].def.key \notin Promise!SentKeys
        BY <3>4 DEF Promise!SentKeys
      <4>3. Promise!HandOver(links[i].def)
        BY <3>3, <3>5, <3>7, <4>1, <4>2 DEF Promise!HandOver
      <4>4. links[i].def \in Promise!Def
        BY <3>2 DEF Def, Promise!Def
      <4> QED
        BY <4>3, <4>4 DEF Promise!Next
    <3> QED
      BY <3>1, <3>6, <3>7
  <2>8. CASE Return
    <3>1. ASSUME NEW e \in Depth, NEW b \in Rank, NEW j \in 1..Len(conf[e][b]), Visible(e, b, j)
          PROVE  \E n \in 1..Len(sent) : sent[n].key = conf[e][b][j].key
      <4>1. PICK n \in 1..Len(links) : links[n].def.key = conf[e][b][j].key
        BY <2>8, <3>1, AllDone DEF Return, IInv, AllMet
      <4> QED
        BY <2>8, <4>1 DEF Return, Unsent
    <3>2. ASSUME NEW k \in Keys, Promise!Mentioned(k) PROVE k \in Promise!SentKeys
      BY <3>1, <3>2, PromiseMentioned DEF Promise!SentKeys
    <3>3. end = "run" /\ end' = "ok" /\ UNCHANGED <<conf, sent>>
      BY <2>8 DEF Return
    <3>4. Promise!Accept
      BY <3>2, <3>3 DEF Promise!Accept
    <3> QED
      BY <3>4 DEF Promise!Next
  <2>9. CASE UNCHANGED vars
    BY <2>1, <2>9 DEF vars
  <2> QED
    BY <2>3, <2>4, <2>5, <2>6, <2>7, <2>8, <2>9 DEF Next
<1> QED
  BY <1>1, <1>2, TypeCorrect, InvariantCorrect, PTL DEF KeepsPromise, Promise!Spec, Spec

-----------------------------------------------------------------------------
(* The documented table of the capabilities.                               *)

(* Place i of a configuration is the first that defines k.                 *)
FirstHere(d, a, i, k) ==
  /\ i \in 1..Len(conf[d][a]) /\ conf[d][a][i].key = k
  /\ \A j \in 1..Len(conf[d][a]) : conf[d][a][j].key = k => i <= j

(* The configuration has no definition of k.                               *)
Silent(d, a, k) == \A i \in 1..Len(conf[d][a]) : conf[d][a][i].key # k

(* A cell holds the first definition, and nothing when there is none.      *)
LEMMA SaidIs ==
  ASSUME conf \in Families, NEW d \in Depth, NEW a \in Rank, NEW k
  PROVE  \/ Silent(d, a, k) /\ Said(d, a, k) = Unset
         \/ \E i \in 1..Len(conf[d][a]) :
              FirstHere(d, a, i, k) /\ Said(d, a, k) = Cell(conf[d][a][i].val, a)
<1> DEFINE about == {i \in 1..Len(conf[d][a]) : conf[d][a][i].key = k}
<1>1. Len(conf[d][a]) \in Nat
  BY ConfTypes
<1>2. CASE about = {}
  <2>1. Said(d, a, k) = Unset
    BY <1>2 DEF Said
  <2>2. QED
    BY <1>2, <2>1 DEF Silent
<1>3. CASE about # {}
  <2>1. about \in SUBSET Nat
    BY <1>1
  <2>2. \E i \in about : \A j \in about : i <= j
    <3> HIDE DEF about
    <3>1. QED
      BY <1>3, <2>1, Least
  <2> DEFINE i == CHOOSE i \in about : \A j \in about : i <= j
  <2>3. i \in about /\ \A j \in about : i <= j
    BY <2>2
  <2>4. Said(d, a, k) = Cell(conf[d][a][i].val, a)
    BY <1>3 DEF Said
  <2> HIDE DEF i
  <2>5. QED
    BY <2>3, <2>4 DEF FirstHere
<1>4. QED
  BY <1>2, <1>3

(* What the lists hold when capabilities are granted or dropped.           *)
LEMMA ValIs ==
  ASSUME conf \in Families, Vals \subseteq {0, 1}, NEW d \in Depth, NEW a \in Rank,
         NEW i \in 1..Len(conf[d][a])
  PROVE  conf[d][a][i].val \in {0, 1} /\ conf[d][a][i].key \in Keys
<1>1. conf[d][a][i] \in Def
  BY ConfTypes
<1>2. QED
  BY <1>1 DEF Def

(* What a cell of the table says is what the first definition of k says.   *)
LEMMA CellSaid ==
  ASSUME conf \in Families, Vals \subseteq {0, 1}, NEW d \in Depth, NEW a \in Rank, NEW k
  PROVE  /\ Column(k)[d][a] \in {Unset, Cell(0, a), Cell(1, a)}
         /\ Speaks(Column(k), d, a) <=> ~ Silent(d, a, k)
         /\ \A i \in 1..Len(conf[d][a]) : FirstHere(d, a, i, k) =>
              Column(k)[d][a] = Cell(conf[d][a][i].val, a)
         /\ ~ Silent(d, a, k) => \E i \in 1..Len(conf[d][a]) : FirstHere(d, a, i, k)
         /\ Grants(Column(k), d, a) <=> \E i \in 1..Len(conf[d][a]) :
              FirstHere(d, a, i, k) /\ conf[d][a][i].val = 1
         /\ Drops(Column(k), d, a) <=> \E i \in 1..Len(conf[d][a]) :
              FirstHere(d, a, i, k) /\ conf[d][a][i].val = 0
<1>1. Column(k)[d][a] = Said(d, a, k)
  BY DEF Column
<1>2. CASE Silent(d, a, k) /\ Said(d, a, k) = Unset
  <2>1. \A i \in 1..Len(conf[d][a]) : ~ FirstHere(d, a, i, k)
    BY <1>2 DEF Silent, FirstHere
  <2>2. QED
    BY <1>1, <1>2, <2>1, Cells DEF Speaks, Grants, Drops
<1>3. ASSUME NEW i \in 1..Len(conf[d][a]),
             FirstHere(d, a, i, k), Said(d, a, k) = Cell(conf[d][a][i].val, a)
      PROVE  /\ ~ Silent(d, a, k)
             /\ Column(k)[d][a] = Cell(conf[d][a][i].val, a)
             /\ conf[d][a][i].val \in {0, 1}
             /\ \A j \in 1..Len(conf[d][a]) : FirstHere(d, a, j, k) => i = j
  <2>1. Len(conf[d][a]) \in Nat
    BY ConfTypes
  <2>2. \A j \in 1..Len(conf[d][a]) : FirstHere(d, a, j, k) => i <= j /\ j <= i
    BY <1>3 DEF FirstHere
  <2>3. \A j \in 1..Len(conf[d][a]) : i <= j /\ j <= i => i = j
    BY <2>1
  <2>4. QED
    BY <1>1, <1>3, <2>2, <2>3, ValIs DEF FirstHere, Silent
<1>4. ASSUME NEW i \in 1..Len(conf[d][a]),
             FirstHere(d, a, i, k), Said(d, a, k) = Cell(conf[d][a][i].val, a)
      PROVE  /\ Column(k)[d][a] \in {Unset, Cell(0, a), Cell(1, a)}
             /\ Speaks(Column(k), d, a)
             /\ Grants(Column(k), d, a) <=> conf[d][a][i].val = 1
             /\ Drops(Column(k), d, a) <=> conf[d][a][i].val = 0
  BY <1>3, <1>4, Cells DEF Speaks, Grants, Drops
<1>5. CASE \E i \in 1..Len(conf[d][a]) :
             FirstHere(d, a, i, k) /\ Said(d, a, k) = Cell(conf[d][a][i].val, a)
  BY <1>3, <1>4, <1>5
<1>6. QED
  BY <1>2, <1>5, SaidIs

(* The columns are those of a table.                                       *)
LEMMA ColumnIs ==
  ASSUME conf \in Families, Vals \subseteq {0, 1}, NEW k
  PROVE  IsColumn(Column(k), Height) /\ Height \in Nat
BY CellSaid, FamilyAssumption DEF IsColumn, Depth, Rank

(* Of all definitions of k this one prevails.                              *)
AtTop(k, d, a, i) ==
  /\ i \in 1..Len(conf[d][a]) /\ conf[d][a][i].key = k
  /\ \A e \in Depth, b \in Rank : \A j \in 1..Len(conf[e][b]) :
       conf[e][b][j].key = k => <<e, b, j>> = <<d, a, i>> \/ Over(d, a, i, e, b, j)

(* It does if its configuration does, and it is the first there.           *)
LEMMA LeadingIsTop ==
  ASSUME conf \in Families, Vals \subseteq {0, 1}, NEW k, NEW d \in Depth, NEW a \in Rank,
         Leads(Column(k), Height, 0, d, a)
  PROVE  \E i \in 1..Len(conf[d][a]) :
           /\ AtTop(k, d, a, i)
           /\ Column(k)[d][a] = Cell(conf[d][a][i].val, a)
<1>1. PICK i \in 1..Len(conf[d][a]) : FirstHere(d, a, i, k)
  BY CellSaid DEF Leads
<1>2. AtTop(k, d, a, i)
  <2> SUFFICES ASSUME NEW e \in Depth, NEW b \in Rank, NEW j \in 1..Len(conf[e][b]),
                      conf[e][b][j].key = k
               PROVE  <<e, b, j>> = <<d, a, i>> \/ Over(d, a, i, e, b, j)
    BY <1>1 DEF AtTop, FirstHere
  <2>1. Speaks(Column(k), e, b)
    BY CellSaid DEF Silent
  <2>2. b < a \/ (b = a /\ d <= e)
    BY <2>1 DEF Leads, Depth, Rank
  <2>3. CASE b < a
    BY <2>3 DEF Over, Rank
  <2>4. CASE b = a /\ d # e
    BY <2>2, <2>4, FamilyAssumption DEF Over, Earlier, Depth, Rank
  <2>5. CASE b = a /\ d = e
    <3>1. i <= j /\ i \in Int /\ j \in Int
      BY <1>1, <2>5, ConfTypes DEF FirstHere
    <3>2. i = j \/ i < j
      BY <3>1
    <3>3. QED
      BY <2>5, <3>2 DEF Over, Earlier
  <2>6. QED
    BY <2>2, <2>3, <2>4, <2>5
<1>3. QED
  BY <1>1, <1>2, CellSaid

(* The link of a key stands for the definition that prevails.              *)
LEMMA LinkIsTop ==
  ASSUME TypeOK, IInv, Kind = "capability", rc \in {"send", "ok"}, NEW n \in 1..Len(links),
         NEW d \in Depth, NEW a \in Rank, NEW i \in 1..Len(conf[d][a]),
         AtTop(links[n].def.key, d, a, i)
  PROVE  links[n].depth = d /\ links[n].admin = a /\ links[n].def = conf[d][a][i]
<1>1. PICK link \in Link : link = links[n] /\ link.depth \in Depth /\ link.admin \in Rank
  BY LinkTypes
<1>2. LinkPrevails(link) /\ AtEnd
  BY <1>1 DEF IInv
<1>3. PICK p \in 1..Len(conf[link.depth][link.admin]) :
        /\ conf[link.depth][link.admin][p] = link.def
        /\ \A e \in Depth, b \in Rank : \A j \in 1..Len(conf[e][b]) :
             Visible(e, b, j) /\ Done(e, b, j) /\ conf[e][b][j].key = link.def.key
               => <<e, b, j>> = <<link.depth, link.admin, p>>
                  \/ Over(link.depth, link.admin, p, e, b, j)
  BY <1>2 DEF LinkPrevails
<1>4. conf[d][a][i].key = link.def.key
  BY <1>1 DEF AtTop
<1>5. \/ <<d, a, i>> = <<link.depth, link.admin, p>>
      \/ Over(link.depth, link.admin, p, d, a, i)
  <2>1. Visible(d, a, i) /\ Done(d, a, i)
    BY <1>2, AllDone DEF Visible
  <2>2. QED
    BY <1>3, <1>4, <2>1
<1>6. \/ <<link.depth, link.admin, p>> = <<d, a, i>>
      \/ Over(d, a, i, link.depth, link.admin, p)
  BY <1>1, <1>3 DEF AtTop
<1>7. /\ d \in Int /\ link.depth \in Int /\ a \in Rank /\ link.admin \in Rank
      /\ i \in Int /\ p \in Int
  <2>1. conf \in Families
    BY DEF TypeOK
  <2>2. QED
    BY <1>1, <2>1, ConfTypes, FamilyAssumption DEF Depth
<1>8. ~ (Over(d, a, i, link.depth, link.admin, p) /\ Over(link.depth, link.admin, p, d, a, i))
  BY <1>7 DEF Over, Earlier, Rank
<1>9. QED
  BY <1>1, <1>3, <1>5, <1>6, <1>8

(* The walk over capabilities is one of the walks.                         *)
LEMMA CapaSteps == CapaSpec => [](TypeOK /\ IInv)
<1>1. [CapaNext]_vars => [Next]_vars
  BY DEF CapaNext, Next
<1>2. TypeOK /\ IInv /\ [CapaNext]_vars => TypeOK' /\ IInv'
  BY <1>1, TypeStep, InvStep
<1>3. QED
  BY TypeInit, InvInit, <1>2, PTL DEF CapaSpec

(* A merge that succeeds gives every capability the value the table gives  *)
(* it, unless the table makes it an error, and none to the others: for     *)
(* families of any height and configurations of any length.                *)
THEOREM AgreesWithMatrixCorrect ==
  ASSUME Kind = "capability", Vals \subseteq {0, 1}
  PROVE  CapaSpec => []AgreesWithMatrix
<1>1. TypeOK /\ IInv => AgreesWithMatrix
  <2> DEFINE Of(k) == {n \in 1..Len(sent) : sent[n].key = k}
             values(k) == {sent[n].val : n \in Of(k)}
  <2> SUFFICES ASSUME TypeOK, IInv, rc = "ok", NEW k \in Keys, TableSays(k) # Error
               PROVE  values(k) = IF TableSays(k) = Unset THEN {} ELSE {TableSays(k).val}
    BY DEF AgreesWithMatrix
  <2>1. /\ conf \in Families /\ rc \in {"send", "ok"} /\ AtEnd /\ AllMet /\ Unsent = {}
        /\ \A m \in 1..Len(sent) : \E n \in 1..Len(links) : links[n].def = sent[m]
    BY DEF TypeOK, IInv, SentFromLinks
  <2>2. IsColumn(Column(k), Height) /\ Height \in Nat /\ Depth = 0..(Height - 1) /\ Rank = {0, 1}
    BY <2>1, ColumnIs DEF Depth, Rank
  <2>3. \/ TableSays(k) = Unset /\ \A e \in Depth, b \in Rank : ~ Speaks(Column(k), e, b)
        \/ \E d \in Depth, a \in Rank :
             Leads(Column(k), Height, 0, d, a) /\ TableSays(k) = Column(k)[d][a]
    BY <2>2, TableMeans DEF TableSays
  <2>4. CASE TableSays(k) = Unset /\ \A e \in Depth, b \in Rank : ~ Speaks(Column(k), e, b)
    <3> SUFFICES ASSUME NEW m \in Of(k) PROVE FALSE
      BY <2>4
    <3>1. PICK n \in 1..Len(links) : links[n].def = sent[m]
      BY <2>1
    <3>2. Prevails(links[n].def)
      BY <2>1, LinksPrevail
    <3>3. \A e \in Depth, b \in Rank : Silent(e, b, k)
      BY <2>1, <2>4, CellSaid
    <3>4. QED
      BY <3>1, <3>2, <3>3 DEF Prevails, Silent
  <2>5. ASSUME NEW d \in Depth, NEW a \in Rank,
               Leads(Column(k), Height, 0, d, a), TableSays(k) = Column(k)[d][a]
        PROVE  values(k) = IF TableSays(k) = Unset THEN {} ELSE {TableSays(k).val}
    <3>0. PICK i \in 1..Len(conf[d][a]) :
            AtTop(k, d, a, i) /\ Column(k)[d][a] = Cell(conf[d][a][i].val, a)
      BY <2>1, <2>5, LeadingIsTop
    <3> DEFINE v == conf[d][a][i].val
    <3>1. TableSays(k) # Unset /\ TableSays(k).val = v
      BY <2>1, <2>5, <3>0, ValIs, Cells
    <3>2. \A n \in 1..Len(links) : links[n].def.key = k => links[n].def = conf[d][a][i]
      BY <2>1, <3>0, LinkIsTop
    <3>3. \A m \in Of(k) : sent[m].val = v
      BY <2>1, <3>2
    <3>4. PICK n \in 1..Len(links) : links[n].def.key = k
      <4>1. Visible(d, a, i) /\ Done(d, a, i) /\ conf[d][a][i].key = k
        BY <2>1, <3>0, AllDone DEF Visible, AtTop
      <4>2. QED
        BY <2>1, <4>1 DEF AllMet
    <3>5. PICK m \in 1..Len(sent) : sent[m] = links[n].def
      BY <2>1 DEF Unsent
    <3>6. m \in Of(k)
      BY <3>4, <3>5
    <3> HIDE DEF v, Of
    <3>7. values(k) = {v}
      BY <3>3, <3>6
    <3>8. QED
      BY <3>1, <3>7
  <2>6. QED
    BY <2>3, <2>4, <2>5
<1>2. QED
  BY CapaSteps, <1>1, PTL

(* A merge is refused for a link that the definition under the cursor      *)
(* contradicts, in the same node, or that grants what it drops.            *)
RefusedFor ==
  Refused => \E n \in 1..Len(links) :
    /\ links[n].def.key = Read.key
    /\ links[n].admin = at.admin
    /\ IF links[n].depth = at.depth THEN Clash(links[n].def, Read)
                                    ELSE BadlyRedefined(links[n].def, Read)

(* A merge that is under way is refused for nothing else.                   *)
LEMMA RefusedForStep == TypeOK /\ IInv /\ RefusedFor /\ [CapaNext]_vars => RefusedFor'
<1> SUFFICES ASSUME TypeOK, IInv, RefusedFor, [CapaNext]_vars PROVE RefusedFor'
  OBVIOUS
<1>1. ASSUME UNCHANGED <<conf, at, links>>
      PROVE  /\ Read' = Read /\ Here' = Here
             /\ \A n \in 1..Len(links) :
                  /\ Clash(links[n].def, Read)' <=> Clash(links[n].def, Read)
                  /\ BadlyRedefined(links[n].def, Read)' <=> BadlyRedefined(links[n].def, Read)
  BY <1>1 DEF Read, Here
<1>2. CASE NextConfig
  BY <1>2 DEF NextConfig, RefusedFor, Refused
<1>3. CASE NewKey
  BY <1>3 DEF NewKey, RefusedFor, Refused
<1>4. CASE SeenKey
  <2> PICK i \in 1..Len(links) : IsLinkOf(i) /\ (SameNode(links[i]) \/ FromAncestor(i))
    BY <1>4 DEF SeenKey
  <2>1. rc = "walk" /\ links[i].def.key = Read.key
    BY <1>4 DEF SeenKey, IsLinkOf
  <2>2. CASE rc' = rc
    BY <2>1, <2>2 DEF RefusedFor, Refused
  <2>3. CASE SameNode(links[i]) /\ rc' # rc
    <3>1. /\ links[i].depth = at.depth /\ links[i].admin = at.admin
          /\ Clash(links[i].def, Read) /\ UNCHANGED <<conf, at, links>>
      BY <2>3 DEF SameNode, Fail, Keep
    <3>2. QED
      BY <1>1, <2>1, <3>1 DEF RefusedFor
  <2>4. CASE FromAncestor(i) /\ rc' # rc
    <3>1. /\ links[i].depth # at.depth /\ links[i].admin = at.admin
          /\ BadlyRedefined(links[i].def, Read) /\ UNCHANGED <<conf, at, links>>
      BY <2>4 DEF FromAncestor, Fail, Keep
    <3>2. QED
      BY <1>1, <2>1, <3>1 DEF RefusedFor
  <2>5. QED
    BY <2>2, <2>3, <2>4
<1>5. CASE Send
  <2>1. at.index = Len(Here) + 1 /\ UNCHANGED <<conf, at, links>> /\ Len(Here) \in Nat
    <3>1. Len(Here) \in Nat
      BY ConfTypes DEF TypeOK, Cursor, Here
    <3>2. QED
      BY <1>5, <3>1 DEF Send, IInv, AtEnd
  <2>2. ~ Refused'
    BY <1>1, <2>1 DEF Refused
  <2>3. QED
    BY <2>2 DEF RefusedFor
<1>6. CASE Return
  BY <1>6 DEF Return, RefusedFor, Refused
<1>7. CASE UNCHANGED vars
  <2>1. UNCHANGED <<conf, at, links>> /\ rc' = rc
    BY <1>7 DEF vars
  <2>2. QED
    BY <1>1, <2>1 DEF RefusedFor, Refused
<1>8. QED
  BY <1>2, <1>3, <1>4, <1>5, <1>6, <1>7 DEF CapaNext

(* What the walk accepts: a conflict of a family is settled by a nearer    *)
(* node, or else the link would stand for a grant that is dropped.         *)
LEMMA AcceptedIsSettled ==
  ASSUME TypeOK, IInv, Kind = "capability", Vals \subseteq {0, 1}, rc \in {"send", "ok"}, NEW k \in Keys
  PROVE  SettledNearer(Column(k), Height)
<1>1. /\ conf \in Families /\ AtEnd /\ AllMet
      /\ Height \in Nat /\ Depth = 0..(Height - 1) /\ Rank = {0, 1}
  BY FamilyAssumption DEF TypeOK, IInv, Depth, Rank
<1> DEFINE column == Column(k)
<1> SUFFICES ASSUME NEW c \in Depth, NEW d \in Depth, NEW a \in Rank,
                    Conflict(column, Height, c, d, a),
                    \A b \in 0..(c - 1) : ~ Speaks(column, b, 1) /\ ~ Drops(column, b, a)
             PROVE  FALSE
  BY <1>1 DEF SettledNearer
<1>2. \A e \in Depth, b \in Rank :
        /\ column[e][b] \in {Unset, Cell(0, b), Cell(1, b)}
        /\ Speaks(column, e, b) <=> Grants(column, e, b) \/ Drops(column, e, b)
  <2>1. \A e \in Depth, b \in Rank : column[e][b] \in {Unset, Cell(0, b), Cell(1, b)}
    BY <1>1, CellSaid
  <2>2. QED
    BY <2>1, Cells DEF Speaks, Grants, Drops
<1> HIDE DEF column
<1>3. c < d /\ Grants(column, c, a) /\ Drops(column, d, a)
  BY DEF Conflict
<1>4. a = 0 => \A e \in Depth : ~ Speaks(column, e, 1)
  <2>1. a = 0 => \A e \in c..(Height - 1) : ~ Speaks(column, e, 1)
    BY DEF Conflict
  <2>2. \A e \in Depth : e \in 0..(c - 1) \/ e \in c..(Height - 1)
    BY <1>1
  <2>3. QED
    BY <2>1, <2>2
<1>5. PICK g \in Depth : /\ g <= c /\ Speaks(column, g, a) /\ Grants(column, g, a)
                         /\ \A e \in Depth : Speaks(column, e, a) => g <= e
  <2> DEFINE Speakers == {e \in Depth : Speaks(column, e, a)}
  <2>1. Speakers \in SUBSET Nat /\ c \in Speakers
    BY <1>1, <1>2, <1>3
  <2>2. PICK g \in Speakers : \A e \in Speakers : g <= e
    <3> HIDE DEF Speakers
    <3>1. QED
      BY <2>1, Least
  <2>3. g <= c /\ g \in Depth /\ Speaks(column, g, a) /\ \A e \in Depth : Speaks(column, e, a) => g <= e
    BY <2>1, <2>2
  <2>4. Grants(column, g, a)
    <3>1. g = c \/ g \in 0..(c - 1)
      BY <1>1, <2>3
    <3>2. QED
      BY <1>2, <1>3, <2>3, <3>1
  <2>5. QED
    BY <2>3, <2>4
<1>6. Leads(column, Height, 0, g, a)
  <2>1. \A e \in Depth, b \in Rank : Speaks(column, e, b) => b < a \/ (b = a /\ g <= e)
    BY <1>1, <1>4, <1>5
  <2>2. QED
    BY <1>1, <1>5, <2>1 DEF Leads
<1>7. PICK i \in 1..Len(conf[g][a]) : AtTop(k, g, a, i) /\ column[g][a] = Cell(conf[g][a][i].val, a)
  <2>1. conf \in Families /\ Leads(Column(k), Height, 0, g, a)
    BY <1>1, <1>6 DEF column
  <2>2. \E i \in 1..Len(conf[g][a]) : AtTop(k, g, a, i) /\ Column(k)[g][a] = Cell(conf[g][a][i].val, a)
    <3>1. conf \in Families
      BY <2>1
    <3>2. \A x \in Depth, y \in Rank :
            Leads(Column(k), Height, 0, x, y) =>
              \E i \in 1..Len(conf[x][y]) : AtTop(k, x, y, i) /\ Column(k)[x][y] = Cell(conf[x][y][i].val, y)
      BY <3>1, LeadingIsTop
    <3>3. QED
      BY <2>1, <3>2
  <2>3. QED
    BY <2>2 DEF column
<1>8. conf[g][a][i].val = 1
  BY <1>5, <1>7, Cells DEF Grants
<1>9. PICK n \in 1..Len(links) : links[n].def.key = k
  <2>1. Visible(g, a, i) /\ Done(g, a, i) /\ conf[g][a][i].key = k
    BY <1>1, <1>7, AllDone DEF Visible, AtTop
  <2>2. QED
    BY <1>1, <2>1 DEF AllMet
<1>10. links[n].depth = g /\ links[n].admin = a /\ links[n].def.val = 1
  BY <1>7, <1>8, <1>9, LinkIsTop
<1>11. PICK j \in 1..Len(conf[d][a]) : FirstHere(d, a, j, k) /\ conf[d][a][j].val = 0
  <2>1. conf \in Families /\ Drops(Column(k), d, a)
    BY <1>1, <1>3 DEF column
  <2>2. QED
    BY <2>1, CellSaid
<1>12. Visible(d, a, j) /\ Done(d, a, j) /\ conf[d][a][j].key = k
  BY <1>1, <1>11, AllDone DEF Visible, FirstHere
<1>13. d # g
  BY <1>1, <1>3, <1>5
<1>14. LinkAllowed(links[n])
  BY DEF IInv
<1>15. ~ BadlyRedefined(links[n].def, conf[d][a][j])
  BY <1>9, <1>10, <1>12, <1>13, <1>14 DEF LinkAllowed
<1>16. QED
  BY <1>10, <1>11, <1>15 DEF BadlyRedefined

(* What the walk refuses: a grant that an ancestor's configuration of the  *)
(* same rank drops, no administrator having spoken up to there.            *)
LEMMA RefusedConflicts ==
  ASSUME TypeOK, IInv, RefusedFor, Kind = "capability", Vals \subseteq {0, 1}, OneVoice, Refused
  PROVE  \E k \in Keys, a \in Rank, c, d \in Depth :
           /\ c < d /\ Grants(Column(k), c, a) /\ Drops(Column(k), d, a)
           /\ a = 0 => \A b \in 0..d : ~ Speaks(Column(k), b, 1)
<1>0. Depth = 0..(Height - 1) /\ Height \in Nat /\ Rank = {0, 1}
  BY FamilyAssumption DEF Depth, Rank
<1>1. PICK k, a : k = Read.key /\ a = at.admin
  OBVIOUS
<1>2. /\ conf \in Families /\ at.depth \in Depth /\ a \in Rank
      /\ at.index \in 1..Len(conf[at.depth][a]) /\ Len(conf[at.depth][a]) \in Nat
      /\ Read = conf[at.depth][a][at.index]
  <2>1. conf \in Families /\ at.depth \in Depth /\ a \in Rank /\ at.index \in Nat \ {0}
        /\ at.index <= Len(conf[at.depth][a])
    BY <1>1 DEF TypeOK, Cursor, Refused, Here
  <2>2. Len(conf[at.depth][a]) \in Nat
    BY <2>1, ConfTypes
  <2>3. QED
    BY <1>1, <2>1, <2>2 DEF Read, Here
<1>3. k \in Keys
  BY <1>1, <1>2, ValIs
<1>4. PICK n \in 1..Len(links) :
        /\ links[n].def.key = k
        /\ links[n].admin = a
        /\ IF links[n].depth = at.depth THEN Clash(links[n].def, Read)
                                        ELSE BadlyRedefined(links[n].def, Read)
  BY <1>1 DEF RefusedFor
<1>5. PICK link \in Link : link = links[n] /\ link.depth \in Depth /\ link.admin \in Rank
  BY LinkTypes
<1>6. PICK p \in 1..Len(conf[link.depth][a]) :
        /\ Done(link.depth, a, p)
        /\ conf[link.depth][a][p] = link.def
        /\ \A e \in Depth, b \in Rank : \A j \in 1..Len(conf[e][b]) :
             Visible(e, b, j) /\ Done(e, b, j) /\ conf[e][b][j].key = k
               => <<e, b, j>> = <<link.depth, a, p>> \/ Over(link.depth, a, p, e, b, j)
  BY <1>4, <1>5 DEF IInv, LinkPrevails
<1>7. \A x \in 1..Len(conf[at.depth][a]) : conf[at.depth][a][x].key = k =>
         conf[at.depth][a][x].val = Read.val
  <2>1. \A x, y \in 1..Len(conf[at.depth][a]) :
          conf[at.depth][a][x].key = conf[at.depth][a][y].key =>
            conf[at.depth][a][x].val = conf[at.depth][a][y].val
    BY <1>2 DEF OneVoice
  <2>2. QED
    BY <1>1, <1>2, <2>1
<1>8. link.depth # at.depth
  <2> SUFFICES ASSUME link.depth = at.depth PROVE FALSE
    OBVIOUS
  <2>1. link.def.val = Read.val
    BY <1>4, <1>5, <1>6, <1>7
  <2>2. QED
    BY <1>4, <1>5, <2>1 DEF Clash
<1>9. link.depth < at.depth
  <2>1. link.depth <= at.depth
    BY <1>4, <1>5, <1>6, LinkPlace
  <2>2. QED
    BY <1>0, <1>2, <1>5, <1>8, <2>1
<1>10. link.def.val = 1 /\ Read.val = 0
  <2>1. link.def.val # 0 /\ Read.val = 0
    BY <1>4, <1>5, <1>8 DEF BadlyRedefined
  <2>2. link.def.val \in {0, 1}
    BY <1>2, <1>5, <1>6, ValIs
  <2>3. QED
    BY <2>1, <2>2
<1>11. \A e \in Depth, b \in Rank : \A j \in 1..Len(conf[e][b]) :
         e < at.depth \/ (e = at.depth /\ b > a) => Visible(e, b, j) /\ Done(e, b, j)
  BY <1>1 DEF Done, Earlier, Visible
<1>12. Grants(Column(k), link.depth, a)
  <2>1. \A j \in 1..Len(conf[link.depth][a]) : conf[link.depth][a][j].key = k => p = j \/ p < j
    <3> SUFFICES ASSUME NEW j \in 1..Len(conf[link.depth][a]), conf[link.depth][a][j].key = k
                 PROVE  p = j \/ p < j
      OBVIOUS
    <3>1. <<link.depth, a, j>> = <<link.depth, a, p>> \/ Over(link.depth, a, p, link.depth, a, j)
      BY <1>2, <1>5, <1>6, <1>9, <1>11
    <3>2. QED
      BY <1>0, <1>2, <1>5, <3>1 DEF Over, Earlier
  <2>2. \A j \in 1..Len(conf[link.depth][a]) : p \in Int /\ j \in Int
    OBVIOUS
  <2>3. FirstHere(link.depth, a, p, k)
    BY <1>4, <1>5, <1>6, <2>1, <2>2 DEF FirstHere
  <2>4. QED
    BY <1>2, <1>5, <1>6, <1>10, <2>3, CellSaid
<1>13. Drops(Column(k), at.depth, a)
  <2>1. ~ Silent(at.depth, a, k)
    BY <1>1, <1>2 DEF Silent
  <2>2. PICK j \in 1..Len(conf[at.depth][a]) : FirstHere(at.depth, a, j, k)
    BY <1>2, <2>1, CellSaid
  <2>3. conf[at.depth][a][j].val = 0
    BY <1>7, <1>10, <2>2 DEF FirstHere
  <2>4. QED
    BY <1>2, <2>2, <2>3, CellSaid
<1>14. ASSUME a = 0, NEW b \in 0..at.depth
       PROVE  ~ Speaks(Column(k), b, 1)
  <2>1. b \in Depth /\ 1 \in Rank /\ (b < at.depth \/ b = at.depth)
    BY <1>0, <1>2
  <2>2. ASSUME NEW x \in 1..Len(conf[b][1]), conf[b][1][x].key = k
        PROVE  FALSE
    <3>1. Visible(b, 1, x) /\ Done(b, 1, x)
      BY <1>11, <1>14, <2>1
    <3>2. <<b, 1, x>> = <<link.depth, a, p>> \/ Over(link.depth, a, p, b, 1, x)
      BY <1>6, <2>1, <2>2, <3>1
    <3>3. QED
      BY <1>14, <3>2 DEF Over
  <2>3. Silent(b, 1, k)
    BY <2>2 DEF Silent
  <2>4. Speaks(Column(k), b, 1) <=> ~ Silent(b, 1, k)
    BY <1>2, <2>1, CellSaid
  <2>5. QED
    BY <2>3, <2>4
<1>15. QED
  BY <1>2, <1>3, <1>5, <1>9, <1>12, <1>13, <1>14

(* Where no configuration says two things of a key, the merge accepts no   *)
(* conflict but one that a nearer node has settled, and refuses none but   *)
(* those that the table marks ERROR and those of normal nodes that an      *)
(* administrator farther up has settled: for families of any height.       *)
THEOREM RefusesAsMatrixCorrect ==
  ASSUME Kind = "capability", Vals \subseteq {0, 1}
  PROVE  CapaSpec => []RefusesAsMatrix
<1>1. ASSUME TypeOK, IInv, RefusedFor, OneVoice, Refused
      PROVE  \E k \in Keys : TableSays(k) = Error \/ SettledFarther(Column(k), Height)
  <2>0. conf \in Families /\ Depth = 0..(Height - 1) /\ Rank = {0, 1}
    BY <1>1 DEF TypeOK, Depth, Rank
  <2>1. PICK k \in Keys, a \in Rank, c, d \in Depth :
          /\ c < d /\ Grants(Column(k), c, a) /\ Drops(Column(k), d, a)
          /\ a = 0 => \A b \in 0..d : ~ Speaks(Column(k), b, 1)
    BY <1>1, RefusedConflicts
  <2>2. CASE a = 0 /\ \E f \in Depth : d < f /\ Speaks(Column(k), f, 1)
    <3>1. SettledFarther(Column(k), Height)
      BY <2>0, <2>1, <2>2 DEF SettledFarther
    <3>2. QED
      BY <3>1
  <2>3. CASE ~ (a = 0 /\ \E f \in Depth : d < f /\ Speaks(Column(k), f, 1))
    <3>1. \A e \in c..(Height - 1) : e \in 0..d \/ (e \in Depth /\ d < e)
      BY <2>0, FamilyAssumption
    <3>2. a = 0 => \A e \in c..(Height - 1) : ~ Speaks(Column(k), e, 1)
      BY <2>1, <2>3, <3>1
    <3>3. Conflict(Column(k), Height, c, d, a)
      BY <2>1, <3>2 DEF Conflict
    <3>4. IsColumn(Column(k), Height) /\ Height \in Nat
      BY <2>0, ColumnIs
    <3>5. TableSays(k) = Error
      BY <2>0, <3>3, <3>4, TableMeans DEF TableSays
    <3>6. QED
      BY <3>5
  <2>4. QED
    BY <2>2, <2>3
<1>2. TypeOK /\ IInv /\ RefusedFor => RefusesAsMatrix
  BY <1>1, AcceptedIsSettled DEF RefusesAsMatrix
<1>3. Init => RefusedFor
  BY DEF Init, RefusedFor, Refused
<1>4. CapaSpec => []RefusedFor
  BY CapaSteps, <1>3, RefusedForStep, PTL DEF CapaSpec
<1>5. QED
  BY CapaSteps, <1>2, <1>4, PTL
=============================================================================
