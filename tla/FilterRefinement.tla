--------------------------- MODULE FilterRefinement ---------------------------
(***************************************************************************)
(* The validation pass over filter data as an implementation of           *)
(* FilterSelect.  The refinement mapping reads the filter as written off  *)
(* the nodes the producer has created so far (in their document places,  *)
(* discarded or not) and the kept filter off the live tree.               *)
(***************************************************************************)
EXTENDS Validation

CONSTANT DataSchemas  \* the schema nodes of the data trees a filter is applied to

Sem == INSTANCE FilterSemantics

\* the filter forest hanging in the arena tree under p
RECURSIVE Forest(_, _)
Forest(tr, p) ==
  {[s |-> NodeSchema[n], v |-> value[n], kids |-> Forest(tr, n)] : n \in ToSet(tr.kids[p])}

\* the nodes the producer has created
Created == {events[i][2] : i \in {k \in 1..(pc - 1) : events[k][1] = "open"}}

\* the filter as the document gives it, no node removed
RECURSIVE Written(_)
Written(p) ==
  {[s |-> NodeSchema[n], v |-> value[n], kids |-> Written(n)] :
     n \in {m \in Created : LParent[m] = p}}

Exact == INSTANCE FilterSelect
           WITH written <- Written(Root), sel <- Sem!Meaning(Forest(t, Root)), Widen <- FALSE
Wide == INSTANCE FilterSelect
          WITH written <- Written(Root), sel <- Sem!Meaning(Forest(t, Root)), Widen <- TRUE

(* Filter normalisation keeps the meaning of the filter: after every step *)
(* of the pass, the filter left in the tree by lyv_data_content and       *)
(* filter_merge (frees, merges, splices) selects from every data tree     *)
(* exactly what the filter as written selects.                            *)
SelectionPreserved == Exact!Spec

(* Filter normalisation never narrows the filter: what the kept filter    *)
(* selects covers what the written filter selects, and no step of         *)
(* lyv_data_content makes the kept filter select less.                    *)
SelectionNeverNarrows == Wide!Spec
====
