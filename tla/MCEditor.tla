------------------------------- MODULE MCEditor -------------------------------
(* A virtual and an indexed node, an edge and two snapshots.                *)
EXTENDS Editor

ConstTypedDirs == {<<>>, <<"src">>}
=============================================================================
