------------------------------- MODULE MCExports -------------------------------
(* Small instances of Exports: a directory s of the host with a and b in   *)
(* it; a is mounted before b.  The lists of exports that a configuration   *)
(* may hold bring about every mode, each mount point alone and both, and a *)
(* path that differs from its mount point; the last one reaches the limit  *)
(* of arguments.                                                           *)
EXTENDS Exports

Tree == [p \in {"s", "s/a", "s/b"} |-> IF p = "s" THEN "/" ELSE "s"]

OnHost == [k \in 1..3 |-> IF k = 1 THEN "s/a" ELSE "s/b"]

Exists == {{}, {"s", "s/b"}}

A(mode) == [key |-> 1, mode |-> mode, val |-> "null"]

B(mode) == [key |-> 2, mode |-> mode, val |-> "null"]

Lists ==
  {<<>>, <<A("Public")>>, <<B("PublicFile")>>,
   <<B("Public"), A("Private")>>,
   <<A("Symlink"), [key |-> 2, mode |-> "Public", val |-> "s"],
     [key |-> 3, mode |-> "Symlink", val |-> "null"]>>}
=============================================================================
