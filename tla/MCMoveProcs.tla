----------------------------- MODULE MCMoveProcs -----------------------------
(* Lists of up to three processes, numbered with one to three digits, read   *)
(* through a buffer that holds five bytes.                                   *)
EXTENDS MoveProcs

MCLiving == {<<7>>, <<1, 2>>, <<1, 1>>, <<2, 1, 2>>}
MCLists == UNION {{l \in [1 .. n -> MCLiving] : IsInjective(l)} : n \in 0 .. 3}
=============================================================================
