------------------------------ MODULE MCCapaMatrix ------------------------------
(* Small instances of CapaMatrix: the families of MCMixWalk.                *)
EXTENDS CapaMatrix, MCMixWalk
=============================================================================
