--------------------------- MODULE MCGraphCanvas ---------------------------
(* A directory, a file in it or not, and a method whose container is either *)
(* or none, displayed or not; the method may become a file, the way a       *)
(* placeholder does when its symbol is found again.                         *)
EXTENDS GraphCanvas

CONSTANTS dir, file, meth

\* What is not displayed has no kind or container to tell apart.
MCGraphs ==
    {g \in [nodes : SUBSET Ids,
            kind : {[n \in Ids |-> IF n = dir THEN "directory"
                                   ELSE IF n = file THEN "file" ELSE methKind] :
                        methKind \in {"method", "file"}},
            home : {[n \in Ids |-> IF n = dir THEN NoNode
                                   ELSE IF n = file THEN fileHome ELSE methHome] :
                        fileHome \in {NoNode, dir}, methHome \in {NoNode, file, dir}},
            edges : SUBSET {<<meth, file>>},
            version : 0 .. 1] :
        /\ \A n \in Ids \ g.nodes : g.home[n] = NoNode
        /\ meth \notin g.nodes => g.kind[meth] = "method" /\ g.edges = {}
        /\ g.kind[meth] = "file" => g.home[meth] # file
        /\ g.home[file] = dir => dir \in g.nodes
        /\ g.version = 1 => g.nodes = Ids /\ g.edges = {}}
=============================================================================
