------------------------------ MODULE MCCgroups ------------------------------
(* Instances of Cgroups: a unit under the mount point, and nodes that share  *)
(* a root node.  Launchers and processes are model values.                   *)
EXTENDS Cgroups, TLC

CONSTANTS a, b, c, e, f, m, x, y, z

Unit == <<"unit">>

MCChain == (a :> <<m, x>>) @@ (b :> <<m, y>>) @@ (c :> <<m, x>>) @@ (f :> <<z>>)
MCNeed == (m :> {"memory"}) @@ (x :> {"io"}) @@ (y :> {"memory"}) @@ (z :> {})
MCName == (m :> "-m") @@ (x :> "-m-x") @@ (y :> "-m-y") @@ (z :> "-z")

\* One launcher in the unit and one in its leaf; the container of the first
\* starts a third, whose own starts one that has nothing to set.  A process may
\* be forked in the unit.
Apart == (a :> Unit) @@ (b :> LeafOf(Unit)) @@ (c :> a) @@ (f :> c) @@ (e :> Unborn)
\* Two launchers that the manager of the unit has put there.
Together == (a :> Unit) @@ (b :> Unit)
=============================================================================
