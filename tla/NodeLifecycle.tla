----------------------------- MODULE NodeLifecycle -----------------------------
(***************************************************************************)
(* What the node factory promises of each directory when tools run one at  *)
(* a time: it is first void, then claimed by one creation, which alone can *)
(* give it its identity, then perhaps live, with that identity.  A claim   *)
(* may never be honoured (the tool died), and is never taken over.  Once   *)
(* claimed, a directory may be lost, its identity with it, and for ever.   *)
(***************************************************************************)
CONSTANTS
  Nodes,
  Ids

VARIABLES
  phase,
  ident    \* ident[n]: the identities that directory n bears, one or none

Init == /\ phase \in [Nodes -> {"void", "live"}]
        /\ ident \in [Nodes -> {{}} \union {{id} : id \in Ids}]
        /\ \A n \in Nodes : phase[n] = "void" <=> ident[n] = {}

Claim(n, id) ==
  /\ phase[n] = "void"
  /\ phase' = [phase EXCEPT ![n] = "claimed"]
  /\ ident' = [ident EXCEPT ![n] = {id}]

Publish(n) ==
  /\ phase[n] = "claimed"
  /\ phase' = [phase EXCEPT ![n] = "live"]
  /\ UNCHANGED ident

Lose(n) ==
  /\ phase[n] \in {"claimed", "live"}
  /\ ident' = [ident EXCEPT ![n] = {}]
  /\ phase' = [phase EXCEPT ![n] = "lost"]

Next == \E n \in Nodes : Lose(n) \/ Publish(n) \/ \E id \in Ids : Claim(n, id)

Spec == Init /\ [][Next]_<<phase, ident>>
=============================================================================
