-------------------------------- MODULE MixWalk --------------------------------
(***************************************************************************)
(* mergeConfVar, mergeConfCapa and mergeConfExp: the merge of the          *)
(* variables, capabilities and exports of a family of nodes.  The three    *)
(* functions are one walk from the leaf to the root, with what differs     *)
(* told by Kind.  Each definition is compared with the link that records   *)
(* what is known of its key so far; at the end the links are handed to a   *)
(* callback.                                                               *)
(***************************************************************************)
EXTENDS Family

VARIABLES
  at,      \* the cursor: node, configuration and index of the next definition
  links,   \* what is known of each key met; the head of the C list is the last
  sent,    \* definitions handed to the callback
  rc       \* "walk", "send" (in the callbacks), then "ok" or "fail"

vars == <<conf, at, links, sent, rc>>

Link == [def : Def, depth : Depth, admin : Rank]

Cursor == [depth : Depth, admin : Rank, index : Nat \ {0}]

Here == conf[at.depth][at.admin]

Read == Here[at.index]      \* the definition under the cursor

(* One key is defined twice by one configuration: must both agree?         *)
Clash(old, new) ==
  IF Kind = "capability"
    THEN old.val # new.val
    ELSE old.mode # new.mode \/ (old.val # Null /\ new.val # Null /\ old.val # new.val)

(* Mutant: a grant by the nearer node is never compared with the farther.  *)
BadlyRedefined_Never(old, new) == FALSE

(* The nearer node enables what the farther one, of the same rank, drops.  *)
BadlyRedefined(old, new) == Kind = "capability" /\ old.val # 0 /\ new.val = 0

-----------------------------------------------------------------------------
Init ==
  /\ conf \in Families
  /\ at = [depth |-> 0, admin |-> 1, index |-> 1]
  /\ links = <<>>
  /\ sent = <<>>
  /\ rc = "walk"

(* Mutant: the index is incremented twice.                                 *)
Step_Twice == at' = [at EXCEPT !.index = @ + 2]

Step == at' = [at EXCEPT !.index = @ + 1]

(* A configuration is exhausted: on to the normal one, to the parent, or   *)
(* to the callbacks.                                                       *)
NextConfig ==
  /\ rc = "walk"
  /\ at.index > Len(Here)
  /\ \/ /\ at.admin = 1
        /\ at' = [depth |-> at.depth, admin |-> 0, index |-> 1]
        /\ UNCHANGED rc
     \/ /\ at.admin = 0 /\ at.depth + 1 < Height
        /\ at' = [depth |-> at.depth + 1, admin |-> 1, index |-> 1]
        /\ UNCHANGED rc
     \/ /\ at.admin = 0 /\ at.depth + 1 = Height
        /\ rc' = "send"
        /\ UNCHANGED at
  /\ UNCHANGED <<conf, links, sent>>

(* Private exports of an ancestor are not looked at.                       *)
SkipPrivate ==
  /\ rc = "walk"
  /\ at.index <= Len(Here)
  /\ ~ Visible(at.depth, at.admin, at.index)
  /\ Step
  /\ UNCHANGED <<conf, links, sent, rc>>

(* Mutant: the link is not marked as an administrator's.                   *)
NewKey_NotAdmin ==
  /\ rc = "walk"
  /\ Visible(at.depth, at.admin, at.index)
  /\ \A i \in 1..Len(links) : links[i].def.key # Read.key
  /\ links' = Append(links, [def |-> Read, depth |-> at.depth, admin |-> 0])
  /\ Step
  /\ UNCHANGED <<conf, sent, rc>>

NewKey ==
  /\ rc = "walk"
  /\ Visible(at.depth, at.admin, at.index)
  /\ \A i \in 1..Len(links) : links[i].def.key # Read.key
  /\ links' = Append(links, [def |-> Read, depth |-> at.depth, admin |-> at.admin])
  /\ Step
  /\ UNCHANGED <<conf, sent, rc>>

(* The search from the head stops at the link last added.                  *)
IsLinkOf(i) ==
  /\ links[i].def.key = Read.key
  /\ \A j \in (i + 1)..Len(links) : links[j].def.key # Read.key

Fail ==
  /\ rc' = "fail"
  /\ UNCHANGED <<conf, at, links, sent>>

Keep ==
  /\ Step
  /\ UNCHANGED <<conf, links, sent, rc>>

(* The key was met in this very node.                                      *)
SameNode(link) ==
  /\ link.depth = at.depth
  /\ IF link.admin = at.admin /\ Clash(link.def, Read) THEN Fail ELSE Keep

(* Mutant: whoever is nearer to the leaf wins.                             *)
FromAncestor_Ignored(i) == links[i].depth # at.depth /\ Keep

(* The key was met in a node nearer to the leaf.  The administrator of an  *)
(* ancestor takes the place of a normal setting.                           *)
FromAncestor(i) ==
  /\ links[i].depth # at.depth
  /\ \/ /\ at.admin = 1 /\ links[i].admin = 0
        /\ links' = [links EXCEPT ![i] =
                       [def |-> Read, depth |-> at.depth, admin |-> at.admin]]
        /\ Step
        /\ UNCHANGED <<conf, sent, rc>>
     \/ /\ at.admin = 0 /\ links[i].admin = 1
        /\ Keep
     \/ /\ at.admin = links[i].admin
        /\ IF BadlyRedefined(links[i].def, Read) THEN Fail ELSE Keep

SeenKey ==
  /\ rc = "walk"
  /\ Visible(at.depth, at.admin, at.index)
  /\ \E i \in 1..Len(links) : IsLinkOf(i) /\ (SameNode(links[i]) \/ FromAncestor(i))

Unsent == {i \in 1..Len(links) : \A n \in 1..Len(sent) : sent[n] # links[i].def}

(* Mutant: exports are handed over as other definitions are.               *)
Send_Unsorted ==
  /\ rc = "send"
  /\ \E i \in Unsent :
       /\ \A j \in Unsent : j <= i
       /\ \/ sent' = Append(sent, links[i].def) /\ UNCHANGED rc
          \/ rc' = "fail" /\ UNCHANGED sent
  /\ UNCHANGED <<conf, at, links>>

(* The list is followed from its head; exports are sorted by mount point.  *)
(* The callback may refuse, which ends the merge.                          *)
Send ==
  /\ rc = "send"
  /\ \E i \in Unsent :
       /\ \A j \in Unsent : IF Kind = "export"
                              THEN links[i].def.key <= links[j].def.key
                              ELSE j <= i
       /\ \/ sent' = Append(sent, links[i].def) /\ UNCHANGED rc
          \/ rc' = "fail" /\ UNCHANGED sent
  /\ UNCHANGED <<conf, at, links>>

Return ==
  /\ rc = "send"
  /\ Unsent = {}
  /\ rc' = "ok"
  /\ UNCHANGED <<conf, at, links, sent>>

Next == NextConfig \/ SkipPrivate \/ NewKey \/ SeenKey \/ Send \/ Return

Spec == Init /\ [][Next]_vars

-----------------------------------------------------------------------------
(* Properties.                                                             *)

(* The variables keep their types, and the cursor stays within a step of   *)
(* the configuration it is in.                                             *)
TypeOK ==
  /\ conf \in Families
  /\ at \in Cursor
  /\ at.index <= Len(Here) + 1
  /\ links \in Seq(Link)
  /\ sent \in Seq(Def)
  /\ rc \in {"walk", "send", "ok", "fail"}

(* What the comments of the three functions assume of a key already seen:  *)
(* "admin == 0 and link->admin == 1" in the same node, and otherwise that  *)
(* the definition read "is in parent and was overwriten by link child".    *)
AssumedOrder ==
  rc = "walk" /\ at.index <= Len(Here) =>
    \A i \in 1..Len(links) : IsLinkOf(i) =>
      \/ links[i].depth < at.depth
      \/ links[i].depth = at.depth /\ links[i].admin = at.admin
      \/ links[i].depth = at.depth /\ at.admin = 0 /\ links[i].admin = 1

(* What a link is to the places the cursor has passed: the definition that *)
(* prevails among them, and one that they neither contradict nor, being of *)
(* its rank, would have forbidden.                                         *)
Done(d, a, i) == Earlier(d, a, i, at.depth, at.admin, at.index)

LinkPrevails(link) ==
  \E i \in 1..Len(conf[link.depth][link.admin]) :
    /\ Visible(link.depth, link.admin, i)
    /\ Done(link.depth, link.admin, i)
    /\ conf[link.depth][link.admin][i] = link.def
    /\ \A e \in Depth, b \in Rank : \A j \in 1..Len(conf[e][b]) :
         Visible(e, b, j) /\ Done(e, b, j) /\ conf[e][b][j].key = link.def.key
           => <<e, b, j>> = <<link.depth, link.admin, i>>
              \/ Over(link.depth, link.admin, i, e, b, j)

LinkAllowed(link) ==
  \A e \in Depth : \A j \in 1..Len(conf[e][link.admin]) :
    Visible(e, link.admin, j) /\ Done(e, link.admin, j)
      /\ conf[e][link.admin][j].key = link.def.key
      => IF e = link.depth THEN ~ Clash(link.def, conf[e][link.admin][j])
                           ELSE ~ BadlyRedefined(link.def, conf[e][link.admin][j])

AllMet ==
  \A e \in Depth, b \in Rank : \A j \in 1..Len(conf[e][b]) :
    Visible(e, b, j) /\ Done(e, b, j) =>
      \E n \in 1..Len(links) : links[n].def.key = conf[e][b][j].key

OneLinkEach ==
  \A m, n \in 1..Len(links) : links[m].def.key = links[n].def.key => m = n

SentFromLinks ==
  /\ \A m \in 1..Len(sent) : \E n \in 1..Len(links) : links[n].def = sent[m]
  /\ sent # <<>> => rc # "walk"
  /\ rc = "ok" => Unsent = {}

AtEnd ==
  rc \in {"send", "ok"} =>
    at.depth + 1 = Height /\ at.admin = 0 /\ at.index = Len(Here) + 1

(* The invariant that carries KeepsPromise, NoEscalation and AssumedOrder. *)
IInv ==
  /\ \A n \in 1..Len(links) : LinkPrevails(links[n]) /\ LinkAllowed(links[n])
  /\ AllMet
  /\ OneLinkEach
  /\ SentFromLinks
  /\ AtEnd

(* Rules 1 and 2 of the merge of capabilities.  Whatever the family, a     *)
(* capability that is granted in the end is dropped by no administrator's  *)
(* configuration and, unless an administrator grants it, by no normal one. *)
NoEscalation ==
  rc = "ok" /\ Kind = "capability" =>
    \A n \in 1..Len(sent) : sent[n].val # 0 =>
      \A e \in Depth, b \in Rank : \A j \in 1..Len(conf[e][b]) :
        conf[e][b][j].key = sent[n].key /\ conf[e][b][j].val = 0 =>
          /\ b = 0
          /\ \E d \in Depth : \E i \in 1..Len(conf[d][1]) :
               conf[d][1][i].key = sent[n].key /\ conf[d][1][i].val # 0

Promise == INSTANCE MergePromise WITH
  end <- IF rc \in {"ok", "fail"} THEN rc ELSE "run"

(* The merge keeps the promise of MergePromise: each key once, none left   *)
(* out, with the administrators first and then the nearer node.            *)
KeepsPromise == Promise!Spec
=============================================================================
