------------------------------- MODULE MCMixWalk -------------------------------
(* Small instances of MixWalk: every family of Height nodes whose          *)
(* configurations hold at most MaxLen definitions.                         *)
EXTENDS MixWalk

CONSTANT MaxLen

UpTo(len) == UNION {[1..n -> Def] : n \in 0..len}

Lists == UpTo(MaxLen)
=============================================================================
