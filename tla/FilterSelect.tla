----------------------------- MODULE FilterSelect -----------------------------
(***************************************************************************)
(* What filter normalisation promises.  written is the filter as the      *)
(* document has given it so far, sel what the filter the validator keeps  *)
(* selects (FilterSemantics).  Reading a node extends written;            *)
(* normalising changes the kept filter but not what it selects, or, when  *)
(* Widen, only so that it selects more.                                   *)
(***************************************************************************)
EXTENDS FilterSemantics

CONSTANT Widen

VARIABLES written, sel

Kept(new, old) == IF Widen THEN Covers(new, old) ELSE new = old

-----------------------------------------------------------------------------
Init == written = {} /\ sel = Meaning({})

\* the producer gives one more filter node
Read == written' # written /\ Kept(sel', Meaning(written'))

\* the validator normalises the kept filter
Normalise == UNCHANGED written /\ Kept(sel', sel)

Next == Read \/ Normalise

Spec == Init /\ [][Next]_<<written, sel>>
====
