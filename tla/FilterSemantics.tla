---------------------------- MODULE FilterSemantics ----------------------------
(***************************************************************************)
(* What a subtree filter selects from a data tree.                        *)
(*                                                                         *)
(* A filter is a forest of filter nodes [s, v, kids]: s a schema node, v  *)
(* the value_str of a leaf or leaf-list (NoValue when absent) and kids    *)
(* the filter nodes under it.  The selection follows the subtree filter   *)
(* rules the spec (4.3, 4.4, glossary) takes from NETCONF: in a sibling   *)
(* set every content match node must match a data sibling or nothing is  *)
(* selected there; a set of content match nodes only selects all the     *)
(* data siblings; otherwise the matched content, every instance named by  *)
(* a selection node (with its subtree) and every instance whose           *)
(* containment node selects something below it are selected.  Several   *)
(* filter nodes of one schema select the union of what each selects.     *)
(*                                                                         *)
(* The data trees are the valid instance trees over DataSchemas: an item  *)
(* is <<schema, value, parent item>>, the value being that of a leaf or   *)
(* leaf-list, the key value of a list instance (lists have one key) and   *)
(* NoValue for a container or anyxml, which have one instance.            *)
(***************************************************************************)
EXTENDS Naturals, FiniteSets, Sequences

CONSTANTS Schemas, SKind, SParent, ListKeys, DataSchemas, Vals, NoValue, NoSchema

ASSUME \A s \in DataSchemas : SKind[s] = "list" => Len(ListKeys[s]) = 1


Leafy(s) == SKind[s] \in {"leaf", "leaflist"}

\* Up[k][s]: the schema nodes at most k levels above s
Up[k \in 0..Cardinality(Schemas)] ==
  [s \in Schemas |-> IF k = 0 \/ SParent[s] = NoSchema THEN {}
                     ELSE {SParent[s]} \cup Up[k - 1][SParent[s]]]

Anc(s, a) == a \in Up[Cardinality(Schemas)][s]

\* the schema node whose instance is the data parent (choice and case have none)
InstParent(s) ==
  LET Hollow(b) == SKind[b] \in {"choice", "case"}
      A == {a \in Schemas : /\ Anc(s, a) /\ ~Hollow(a)
                            /\ \A b \in Schemas : Anc(s, b) /\ Anc(b, a) => Hollow(b)}
  IN IF A = {} THEN NoSchema ELSE CHOOSE a \in A : TRUE

\* the parent item of the top-level items
Top == <<NoSchema, NoValue>>

ValuesOf(s) == IF Leafy(s) \/ SKind[s] = "list" THEN Vals ELSE {NoValue}

IsKey(i) == i[3] # Top /\ SKind[i[3][1]] = "list" /\ i[1] = ListKeys[i[3][1]][1]

\* the items that can stand directly under p (a key leaf has its instance's key)
ItemsUnder(p) ==
  {i \in UNION {{<<s, v, p>> : v \in ValuesOf(s)} :
                 s \in {x \in DataSchemas : InstParent(x) = p[1]}} :
     IsKey(i) => i[2] = p[2]}

\* the items at depth k, and all items
Level[k \in 0..Cardinality(DataSchemas)] ==
  IF k = 0 THEN {Top} ELSE UNION {ItemsUnder(p) : p \in Level[k - 1]}

Items == UNION {Level[k] : k \in 1..Cardinality(DataSchemas)}

(* Valid data trees: every item's parent is present, a leaf has one value *)
(* under a parent, and a list instance holds its key leaf.                *)
DataTrees == {d \in SUBSET Items :
                /\ \A i \in d : i[3] = Top \/ i[3] \in d
                /\ \A i, j \in d : i[1] = j[1] /\ i[3] = j[3] /\ SKind[i[1]] = "leaf" => i = j
                /\ \A i \in d : SKind[i[1]] = "list" => <<ListKeys[i[1]][1], i[2], i>> \in d}

Under(d, p) == {i \in d : i[3] = p}

RECURSIVE Desc(_, _)
Desc(d, i) == {i} \cup UNION {Desc(d, j) : j \in Under(d, i)}

IsContentMatch(f) == Leafy(f.s) /\ f.v # NoValue
IsContainment(f) == SKind[f.s] \in {"container", "list"} /\ f.kids # {}

\* the data siblings under p that filter node f names
Hits(f, d, p) ==
  {i \in Under(d, p) : i[1] = f.s /\ (IsContentMatch(f) => i[2] = f.v)}

(* The items selected under the data parent p by the filter sibling set F. *)
RECURSIVE Select(_, _, _)
Select(F, d, p) ==
  LET cm == {f \in F : IsContentMatch(f)}
      Below(f, i) == LET r == Select(f.kids, d, i) IN IF r = {} THEN {} ELSE {i} \cup r
      ByNode(f) ==
        IF IsContentMatch(f) THEN Hits(f, d, p)
        ELSE IF IsContainment(f) THEN UNION {Below(f, i) : i \in Hits(f, d, p)}
        ELSE UNION {Desc(d, i) : i \in Hits(f, d, p)}
  IN IF \E f \in cm : Hits(f, d, p) = {} THEN {}
     ELSE IF F = cm THEN UNION {Desc(d, i) : i \in Under(d, p)}
     ELSE UNION {ByNode(f) : f \in F}

\* an empty filter selects nothing
Meaning(F) == [d \in DataTrees |-> IF F = {} THEN {} ELSE Select(F, d, Top)]

Covers(m1, m2) == \A d \in DataTrees : m2[d] \subseteq m1[d]

====
