------------------------------- MODULE MCFilter -------------------------------
(* Filter (subtree selection) data for a schema with a top-level container *)
(* c holding a list l keyed by lk, a leaf x and an anyxml a.  The layout   *)
(* gives two c instances so that top-level merging and filter_merge's      *)
(* nested loops are reached; the must on l puts queue entries on nodes     *)
(* that normalisation may free.                                            *)
EXTENDS Validation

MCSchemas == {"c", "l", "lk", "x", "a"}
MCSKind == [s \in MCSchemas |->
             CASE s = "c" -> "container" [] s = "l" -> "list"
               [] s = "a" -> "anyxml" [] OTHER -> "leaf"]
MCSParent == [s \in MCSchemas |->
               CASE s = "c" -> NoSchema [] s = "lk" -> "l" [] OTHER -> "c"]
MCListKeys == [s \in MCSchemas |-> IF s = "l" THEN <<"lk">> ELSE <<>>]
MCLater == [s \in MCSchemas |-> {}]

\* 1 c { 2 l { 3 lk }  4 x }  5 c { 6 l { 7 lk }  8 x }
MCNodes == 1..8
MCLParent == (1 :> Root) @@ (2 :> 1) @@ (3 :> 2) @@ (4 :> 1)
             @@ (5 :> Root) @@ (6 :> 5) @@ (7 :> 6) @@ (8 :> 5)
MCNodeSchema == (1 :> "c") @@ (2 :> "l") @@ (3 :> "lk") @@ (4 :> "x")
                @@ (5 :> "c") @@ (6 :> "l") @@ (7 :> "lk") @@ (8 :> "x")
====
