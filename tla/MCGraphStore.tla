----------------------------- MODULE MCGraphStore -----------------------------
(* A small workspace: two symbols, two virtual nodes, one snapshot.        *)
EXTENDS GraphStore

MCPairs == {<<"s1", "s2">>, <<"v1", "s1">>, <<"v1", "v2">>}
=============================================================================
