------------------------------ MODULE MergePromise ------------------------------
(***************************************************************************)
(* What a merge promises its caller: it either refuses, at any time, or    *)
(* hands over, once, and in an order left open, what the family says of    *)
(* each key, and leaves none out.                                          *)
(***************************************************************************)
EXTENDS Family

VARIABLES
  sent,   \* definitions handed to the callback, in order
  end     \* "run" until the merge returns, then "ok" or "fail"

Init == conf \in Families /\ sent = <<>> /\ end = "run"

SentKeys == {sent[n].key : n \in 1..Len(sent)}

HandOver(def) ==
  /\ end = "run"
  /\ Prevails(def)
  /\ def.key \notin SentKeys
  /\ sent' = Append(sent, def)
  /\ UNCHANGED <<conf, end>>

Accept ==
  /\ end = "run"
  /\ \A k \in Keys : Mentioned(k) => k \in SentKeys
  /\ end' = "ok"
  /\ UNCHANGED <<conf, sent>>

Refuse ==
  /\ end = "run"
  /\ end' = "fail"
  /\ UNCHANGED <<conf, sent>>

Next == Accept \/ Refuse \/ \E def \in Def : HandOver(def)

vars == <<conf, sent, end>>

Spec == Init /\ [][Next]_vars
=============================================================================
