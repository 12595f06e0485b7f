----------------------------- MODULE MCNodeFactory -----------------------------
(* Small instances of NodeFactory: a root directory that exists from the   *)
(* start, and a leaf below it.                                             *)
EXTENDS NodeFactory, TLC

CONSTANTS sys, leaf

TwoLevels == sys :> <<sys>> @@ leaf :> <<sys, leaf>>
=============================================================================
