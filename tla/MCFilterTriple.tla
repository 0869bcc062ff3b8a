---------------------------- MODULE MCFilterTriple ----------------------------
(* Filter data with three top-level instances of a container c, each with *)
(* instances of one leaf x: enough for a container to meet an equal       *)
(* instance that is not the first one, and for a container to hold two    *)
(* leaves with the same content match value.                              *)
EXTENDS FilterRefinement

MCSchemas == {"c", "x"}
MCSKind == [s \in MCSchemas |-> IF s = "c" THEN "container" ELSE "leaf"]
MCSParent == [s \in MCSchemas |-> IF s = "c" THEN NoSchema ELSE "c"]
MCListKeys == [s \in MCSchemas |-> <<>>]
MCLater == [s \in MCSchemas |-> {}]
MCDataSchemas == MCSchemas

\* 1 c { 2 x  3 x  4 x }   5 c { 6 x  7 x }   8 c { 9 x }
MCNodes == 1..9
MCLParent == [n \in MCNodes |->
               CASE n \in {1, 5, 8} -> Root [] n < 5 -> 1 [] n < 8 -> 5 [] OTHER -> 8]
MCNodeSchema == [n \in MCNodes |-> IF n \in {1, 5, 8} THEN "c" ELSE "x"]
====
