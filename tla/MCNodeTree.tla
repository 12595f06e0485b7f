------------------------------- MODULE MCNodeTree -------------------------------
(* A small instance of NodeTree: below a root directory that exists, a     *)
(* node to be made and, below that one, another.                           *)
EXTENDS NodeTree, TLC

CONSTANTS sys, leaf, app

Branches ==
  sys :> <<sys>> @@ leaf :> <<sys, leaf>> @@ app :> <<sys, leaf, app>>
=============================================================================
