------------------------------- MODULE MCRpc -------------------------------
(* RPC input data: the rpc node op with the arguments a (leaf), b         *)
(* (leaf-list) and c (leaf), declared in that order.  The layout offers   *)
(* the arguments in an order that is not the schema's, so the documents  *)
(* (subsets of the layout) contain ordered and disordered argument lists. *)
EXTENDS Validation

MCSchemas == {"op", "a", "b", "c"}
MCSKind == ("op" :> "rpc") @@ ("a" :> "leaf") @@ ("b" :> "leaflist") @@ ("c" :> "leaf")
MCSParent == [s \in MCSchemas |-> IF s = "op" THEN NoSchema ELSE "op"]
MCListKeys == [s \in MCSchemas |-> <<>>]
\* lys_getnext from an argument visits the arguments declared after it
MCLater == ("op" :> {}) @@ ("a" :> {"b", "c"}) @@ ("b" :> {"c"}) @@ ("c" :> {})

\* 1 op { 2 b  3 a  4 c  5 b  6 a }
MCNodes == 1..6
MCLParent == [n \in MCNodes |-> IF n = 1 THEN Root ELSE 1]
MCNodeSchema == (1 :> "op") @@ (2 :> "b") @@ (3 :> "a") @@ (4 :> "c") @@ (5 :> "b")
                @@ (6 :> "a")
====
