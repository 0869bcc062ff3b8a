------------------------------- MODULE MCStrict -------------------------------
(* Configuration data for a container c with a choice ch of two cases (ca  *)
(* holding leaf p, cb holding leaf q), a list l keyed by k with a leaf m,  *)
(* a mandatory leaf r that is a leafref with a when condition; the key k  *)
(* is an identityref; r refers to the key k of a list instance, m is an   *)
(* instance-identifier that must name an instance of p.                  *)
EXTENDS Resolution

MCSchemas == {"c", "ch", "ca", "cb", "p", "q", "l", "k", "m", "r"}
MCSKind == [s \in MCSchemas |->
             CASE s = "c" -> "container" [] s = "ch" -> "choice"
               [] s \in {"ca", "cb"} -> "case" [] s = "l" -> "list"
               [] OTHER -> "leaf"]
MCSParent == [s \in MCSchemas |->
               CASE s = "c" -> NoSchema [] s \in {"ca", "cb"} -> "ch"
                 [] s = "p" -> "ca" [] s = "q" -> "cb" [] s \in {"k", "m"} -> "l"
                 [] OTHER -> "c"]
MCListKeys == [s \in MCSchemas |-> IF s = "l" THEN <<"k">> ELSE <<>>]
MCLater == [s \in MCSchemas |-> {}]
\* the key k is an identityref whose value v2 names an identity of a status k may not use
MCIdentClash == {<<"k", "v2">>}

MCRefTarget == ("r" :> "k") @@ ("m" :> "p")

\* 1 c { 2 p  3 l { 4 k  5 m }  6 l { 7 k }  8 q  9 p  10 r }
MCNodes == 1..10
MCLParent == [n \in MCNodes |-> CASE n = 1 -> Root [] n \in {4, 5} -> 3
                                  [] n = 7 -> 6 [] OTHER -> 1]
MCNodeSchema == (1 :> "c") @@ (2 :> "p") @@ (3 :> "l") @@ (4 :> "k") @@ (5 :> "m")
                @@ (6 :> "l") @@ (7 :> "k") @@ (8 :> "q") @@ (9 :> "p") @@ (10 :> "r")
====
