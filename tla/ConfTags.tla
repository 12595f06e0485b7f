------------------------------- MODULE ConfTags -------------------------------
(***************************************************************************)
(* mixConfTags and mixEarlyConf: the merge of the settings of which each   *)
(* node has at most one, such as a host name.  Both read all               *)
(* administrators' configurations before the normal ones, and keep what    *)
(* they meet first; the former expands the texts that it keeps, the latter *)
(* does not.  A text may fail to be expanded, its command failing or its   *)
(* result being too long.                                                  *)
(***************************************************************************)
EXTENDS Sharing, Sequences

CONSTANTS
  Tags,       \* names of the settings, in the order of mix_basic_conftag
  Expanded,   \* those that are expanded when merged
  None

(* The settings that need no expansion are merged before those that do.    *)
ASSUME TagsAssumption ==
  /\ Tags \in Seq({Tags[n] : n \in 1..Len(Tags)})
  /\ Expanded \subseteq {Tags[n] : n \in 1..Len(Tags)}
  /\ \A m, n \in 1..Len(Tags) : m < n /\ Tags[m] \in Expanded => Tags[n] \in Expanded
  /\ None \notin (0..(Height - 1)) \X {0, 1} \X {"plain", "dollar", "expanded"}

VARIABLES
  strs,       \* strs[depth][admin][t]: the text of t in the configuration
  tag,        \* the value merged so far, or None
  tagAt,      \* the configuration to be merged next; at depth Height, none
  spoilt      \* an expansion has failed

tagVars == <<strs, tag, tagAt, spoilt>>

TagNames == {Tags[n] : n \in 1..Len(Tags)}

Places == Depth \X Rank

(* Texts are told apart by where they are, and whether they hold something  *)
(* to expand: a "plain" one is its own expansion.                          *)
Texts == {"unset", "plain", "dollar"}

TagFamilies == [Depth -> [Rank -> [TagNames -> Texts]]]

Raw == Depth \X Rank \X {"plain", "dollar"}

Values == Depth \X Rank \X {"plain", "dollar", "expanded"}

Written(t, p) == <<p[1], p[2], strs[p[1]][p[2]][t]>>

(* What mix_string makes of a text.                                        *)
Expansion(t, p) ==
  IF t \in Expanded /\ strs[p[1]][p[2]][t] = "dollar" THEN <<p[1], p[2], "expanded">>
  ELSE Written(t, p)

SetAt(t) == {p \in Places : strs[p[1]][p[2]][t] # "unset"}

TagsStart ==
  /\ tag = [t \in TagNames |-> None]
  /\ tagAt = [admin |-> 1, depth |-> 0]
  /\ spoilt = FALSE

TagsMerged == tagAt.depth = Height

(* Mutant: a node's normal configuration comes before its ancestors'       *)
(* administrators.                                                         *)
TagOnward_PerNode ==
  tagAt' = IF tagAt.admin = 1 THEN [admin |-> 0, depth |-> tagAt.depth]
           ELSE IF tagAt.depth + 1 < Height THEN [admin |-> 1, depth |-> tagAt.depth + 1]
           ELSE [admin |-> 0, depth |-> Height]

(* All administrators first, each loop from the leaf to the root.          *)
TagOnward ==
  tagAt' = IF tagAt.depth + 1 = Height /\ tagAt.admin = 1
             THEN [admin |-> 0, depth |-> 0]
             ELSE [tagAt EXCEPT !.depth = @ + 1]

(* The settings of one configuration, in order, up to the first that       *)
(* cannot be expanded.  That one and those that follow are left out; the   *)
(* error is 1, which the loops do not take for an error.                   *)
MixBasicConftag ==
  /\ ~ TagsMerged
  /\ LET Wanted == {n \in 1..Len(Tags) :
                      /\ <<tagAt.depth, tagAt.admin>> \in SetAt(Tags[n])
                      /\ tag[Tags[n]] = None}
     IN \E cut \in {n \in Wanted : Tags[n] \in Expanded} \cup {Len(Tags) + 1} :
          /\ tag' = [t \in TagNames |->
                       IF \E n \in Wanted : Tags[n] = t /\ n < cut
                         THEN Expansion(t, <<tagAt.depth, tagAt.admin>>) ELSE tag[t]]
          /\ spoilt' = (spoilt \/ cut <= Len(Tags))
  /\ TagOnward
  /\ UNCHANGED strs

(* mixEarlyConf: the identity of the program is merged before the tags,    *)
(* and apart from them, by two loops of its own that expand nothing.       *)
EarlyTags == {"set-user", "set-group", "smack"}

(* Mutant: one loop over the nodes.                                        *)
EarlyBefore_PerNode(p, q) == p[1] < q[1] \/ (p[1] = q[1] /\ p[2] > q[2])

EarlyBefore(p, q) == p[2] > q[2] \/ (p[2] = q[2] /\ p[1] < q[1])

EarlyText(t) ==
  IF SetAt(t) = {} THEN None
  ELSE Written(t, CHOOSE p \in SetAt(t) : \A q \in SetAt(t) \ {p} : EarlyBefore(p, q))

-----------------------------------------------------------------------------
(* Properties.                                                             *)

(* The variables keep their types.                                         *)
TagsTypeOK ==
  /\ strs \in TagFamilies
  /\ tag \in [TagNames -> Values \cup {None}]
  /\ tagAt \in [admin : Rank, depth : 0..Height]
  /\ spoilt \in BOOLEAN

(* The places that the two loops have passed, and what they have made of   *)
(* them: the invariant that carries AdministratorsFirst and RunsAsShown.   *)
TagPassed(p) == EarlyBefore(p, <<tagAt.depth, tagAt.admin>>)

SetFirst(t, p) == p \in SetAt(t) /\ \A q \in SetAt(t) \ {p} : EarlyBefore(p, q)

TagsInv ==
  /\ TagsMerged => tagAt.admin = 0
  /\ \A t \in TagNames : (t \in Expanded => ~ spoilt) =>
       IF tag[t] = None THEN \A p \in SetAt(t) : ~ TagPassed(p)
       ELSE \E p \in Places : SetFirst(t, p) /\ tag[t] = Expansion(t, p)

(* p says something of t and no place that prevails over p does.           *)
Prevailing(t, p) ==
  /\ p \in SetAt(t)
  /\ \A q \in SetAt(t) :
       \/ q[2] < p[2]
       \/ q[2] = p[2] /\ q[1] >= p[1]

(* The table of the merge of conftags, over a whole family: a setting is   *)
(* what the nearest administrator, or else the nearest normal one, says,   *)
(* expanded if it is to be.  It holds as long as nothing failed to be      *)
(* expanded, and even then of what needs no expansion.                     *)
AdministratorsFirst ==
  TagsMerged => \A t \in TagNames : (t \in Expanded => ~ spoilt) =>
    IF tag[t] = None
      THEN SetAt(t) = {}
      ELSE \E p \in Places : Prevailing(t, p) /\ tag[t] = Expansion(t, p)
=============================================================================
