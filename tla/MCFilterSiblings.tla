--------------------------- MODULE MCFilterSiblings ---------------------------
(* Filter data with repeated instances under one container c: three     *)
(* leaves x, three leaf-lists ll and two anyxml a, so that every filter   *)
(* branch of the leaf, leaf-list and anyxml instance checks is reached.   *)
(* Each run takes the sub-layout its question needs.                      *)
EXTENDS FilterRefinement

MCSchemas == {"c", "l", "lk", "x", "ll", "a"}
MCSKind == [s \in MCSchemas |->
             CASE s = "c" -> "container" [] s = "l" -> "list"
               [] s = "ll" -> "leaflist" [] s = "a" -> "anyxml" [] OTHER -> "leaf"]
MCSParent == [s \in MCSchemas |->
               CASE s = "c" -> NoSchema [] s = "lk" -> "l" [] OTHER -> "c"]
MCListKeys == [s \in MCSchemas |-> IF s = "l" THEN <<"lk">> ELSE <<>>]
MCLater == [s \in MCSchemas |-> {}]
MCDataSchemas == {"c", "x", "ll", "a"}

\* 1 c { 2 x  3 ll  4 a  5 x  6 ll  7 a  8 ll  9 x }
MCLayout == 1..9
MCLayoutParent == [n \in MCLayout |-> IF n = 1 THEN Root ELSE 1]
MCLayoutSchema == (1 :> "c") @@ (2 :> "x") @@ (3 :> "ll") @@ (4 :> "a") @@ (5 :> "x")
                  @@ (6 :> "ll") @@ (7 :> "a") @@ (8 :> "ll") @@ (9 :> "x")

\* the leaf-lists and anyxml: c { 3 ll  4 a  6 ll  7 a  8 ll }
MCNodes == {1, 3, 4, 6, 7, 8}
MCLParent == [n \in MCNodes |-> MCLayoutParent[n]]
MCNodeSchema == [n \in MCNodes |-> MCLayoutSchema[n]]

\* the three leaves: c { 2 x  5 x  9 x }
MCNodesLeaves == {1, 2, 5, 9}
MCLParentLeaves == [n \in MCNodesLeaves |-> MCLayoutParent[n]]
MCNodeSchemaLeaves == [n \in MCNodesLeaves |-> MCLayoutSchema[n]]

\* a selection and a content match leaf-list followed by an anyxml: c { 3 ll  6 ll  7 a }
MCNodesNarrow == {1, 3, 6, 7}
MCLParentNarrow == [n \in MCNodesNarrow |-> MCLayoutParent[n]]
MCNodeSchemaNarrow == [n \in MCNodesNarrow |-> MCLayoutSchema[n]]
====
