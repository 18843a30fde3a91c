------------------------------ MODULE MCGraphView ------------------------------
(* A small graph: two symbols of one file and a virtual directory, the      *)
(* placeholders of the file and of its directory, an indexed edge and one   *)
(* that can be drawn.                                                       *)
EXTENDS GraphView

CONSTANTS s1, s2, v1, f, d

MCPairs == {<<s1, s2>>, <<v1, s1>>}
MCFileOf == [s \in Symbols |-> f]
MCDirOf == [x \in Files |-> d]

\* No session before; or one in which v1 was placed and joined to s1, and both
\* were captured beside the directory.
MCEarlier ==
    {[virtual |-> {}, manual |-> {}, snapshot |-> NoGraph],
     [virtual |-> {v1}, manual |-> {<<v1, s1>>},
      snapshot |-> [nodes |-> {v1, s1, d}, edges |-> {<<v1, s1>>}]]}
=============================================================================
