---------------------------- MODULE MCFilterLists ----------------------------
(* Filter data with three instances of a list l (key lk, leaf y) under one *)
(* container c: list instances are compared with every earlier instance   *)
(* and merged into the first equal one.                                    *)
EXTENDS FilterRefinement

MCSchemas == {"c", "l", "lk", "y"}
MCSKind == [s \in MCSchemas |->
             CASE s = "c" -> "container" [] s = "l" -> "list" [] OTHER -> "leaf"]
MCSParent == [s \in MCSchemas |->
               CASE s = "c" -> NoSchema [] s = "l" -> "c" [] OTHER -> "l"]
MCListKeys == [s \in MCSchemas |-> IF s = "l" THEN <<"lk">> ELSE <<>>]
MCLater == [s \in MCSchemas |-> {}]
MCDataSchemas == MCSchemas

\* 1 c { 2 l { 3 lk  4 y }  5 l { 6 lk  7 y }  8 l { 9 y } }
MCNodes == 1..9
MCLParent == [n \in MCNodes |-> CASE n = 1 -> Root [] n \in {2, 5, 8} -> 1
                                  [] n \in {3, 4} -> 2 [] n \in {6, 7} -> 5
                                  [] OTHER -> 8]
MCNodeSchema == (1 :> "c") @@ (2 :> "l") @@ (3 :> "lk") @@ (4 :> "y") @@ (5 :> "l")
                @@ (6 :> "lk") @@ (7 :> "y") @@ (8 :> "l") @@ (9 :> "y")
====
