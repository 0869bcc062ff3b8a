------------------------------ MODULE Validation ------------------------------
(***************************************************************************)
(* Validation of one data tree by libyang's src/validation.c.             *)
(*                                                                         *)
(* The tree is an arena of node ids.  A producer (the XML parser, outside *)
(* src/) creates the nodes in document order: when it creates a node it   *)
(* calls lyv_data_context, when it has finished the node's children it    *)
(* calls lyv_data_content, and it frees the node when lyv_data_content    *)
(* fails without an error (a filter node found redundant).  Each call is  *)
(* one atomic step; filter_compare and filter_merge are operators that    *)
(* the content step uses, the latter mutating the tree recursively.       *)
(***************************************************************************)
EXTENDS Naturals, Sequences, SequencesExt, FiniteSets

CONSTANTS
  Schemas,            \* schema nodes of the model
  SKind,              \* [Schemas -> Kinds]
  SParent,            \* [Schemas -> Schemas \cup {NoSchema}]
  ListKeys,           \* [Schemas -> Seq(Schemas)], the keys of a list
  LaterSiblings,      \* [Schemas -> SUBSET Schemas], what lys_getnext visits after s
  Disabled,           \* schema nodes disabled by if-feature
  ReadOnly,           \* schema nodes with config false (LYS_CONFIG_R)
  RpcArgs,            \* schema nodes inside an RPC input/output (lyp_is_rpc)
  WhenSchemas,        \* schema nodes whose instances carry LYD_WHEN
  MustSchemas,        \* schema nodes for which resolve_applies_must holds
  Leafref, InstId,    \* leaves whose value type is leafref / instance-identifier
  Mandatory,          \* mandatory schema nodes (what ly_check_mandatory looks for)
  ObsoleteStatus,     \* schema nodes with status obsolete
  ObsoleteTypeLeaves, \* leaves whose chain of derived types has an obsolete typedef
  IdentClash,         \* <<leaf, identity value>> pairs that lyp_check_status rejects
  Nodes,              \* data node ids 1..N in document order
  LParent,            \* [Nodes -> Nodes \cup {Root}], where the parser puts a node
  NodeSchema,         \* [Nodes -> Schemas]
  Vals,               \* values of leaves (and payloads of anyxml)
  NoValue,            \* value_str == NULL: a selection node
  Root, NoSchema,
  Mode,               \* the LYD_OPT_* data type of the pass
  ObsoleteOpt,        \* LYD_OPT_OBSOLETE
  Producers,          \* callers of the validators: "parser" validates nodes as
                      \* they are read, "validate" is lyd_validate over a complete tree
  AllocFaults         \* whether an allocation (ly_set_new, ly_set_add, unres_data_add) may fail

Kinds == {"container", "list", "leaf", "leaflist", "anyxml", "choice", "case", "rpc"}
Modes == {"DATA", "CONFIG", "GET", "GETCONFIG", "EDIT", "RPC", "FILTER"}
UnresKinds == {"leafref", "instid", "when", "must"}

ASSUME /\ SKind \in [Schemas -> Kinds]
       /\ SParent \in [Schemas -> Schemas \cup {NoSchema}]
       /\ Nodes \subseteq Nat /\ NodeSchema \in [Nodes -> Schemas]
       /\ LParent \in [Nodes -> Nodes \cup {Root}]
       /\ \A n \in Nodes : LParent[n] # Root => LParent[n] < n
       /\ NoValue \notin Vals /\ Mode \in Modes /\ ObsoleteOpt \in BOOLEAN
       /\ AllocFaults \in BOOLEAN /\ IdentClash \subseteq Schemas \X Vals
       /\ Producers \subseteq {"parser", "validate"} /\ Producers # {}
       \* lyd_validate is not run over filter data here: a node it discards
       \* would leave its subtree's steps on freed nodes (outside src/)
       /\ "validate" \in Producers => Mode # "FILTER"

VARIABLES
  events,    \* the parser's open/close sequence for the document
  pc,        \* index of the next event
  value,     \* value_str of leaves, payload of anyxml (never changes)
  t,         \* the tree: [kids, parent, live, freed, uaf, enomem]
  validity,  \* nodes whose validity flag is set
  unres,     \* the unres_data queue, as a set of <<node, kind>>
  status,    \* "parsing", "done" or "error"
  flagged    \* leaves whose value_type still carries an unresolved flag
             \* (LY_TYPE_*_UNRES) left by an earlier pass

vars == <<events, pc, value, t, validity, unres, status, flagged>>

-----------------------------------------------------------------------------
(* The documents the parser can be given: the nodes of the layout that are *)
(* present, closed under the parent relation, and their events.            *)

Leafish(s) == SKind[s] \in {"leaf", "leaflist"}
Valued(n) == SKind[NodeSchema[n]] \in {"leaf", "leaflist", "anyxml"}

Docs == {D \in SUBSET Nodes \ {{}} :
           \A n \in D : LParent[n] = Root \/ LParent[n] \in D}

ChildrenIn(D, p) == SetToSortSeq({m \in D : LParent[m] = p}, <)

RECURSIVE Ev(_, _)
Ev(D, n) == LET ch == ChildrenIn(D, n) IN
              <<<<"open", n>>>>
              \o FlattenSeq([i \in DOMAIN ch |-> Ev(D, ch[i])])
              \o <<<<"close", n>>>>

DocEvents(D) == LET r == ChildrenIn(D, Root) IN
                  FlattenSeq([i \in DOMAIN r |-> Ev(D, r[i])])

\* lyd_validate visits the dirty nodes of a complete tree in document order
PreOrder(D) == LET o == SelectSeq(DocEvents(D), LAMBDA e : e[1] = "open")
               IN [i \in DOMAIN o |-> <<"validate", o[i][2]>>]

(* value_str is absent only in filter data; an anyxml either has some    *)
(* payload (one stands for all, no check reads it) or none.               *)
Payload == CHOOSE v \in Vals : TRUE
ValueSet(n) == CASE SKind[NodeSchema[n]] = "anyxml" -> {Payload, NoValue}
                 [] Mode = "FILTER" -> Vals \cup {NoValue}
                 [] OTHER -> Vals

(* What the code of one step does not decide: intact, how a read of a     *)
(* freed node turns out (undefined behaviour); oom, the allocations that  *)
(* fail: the sets of the filter_merge call whose to is a member of merge, *)
(* and the must entry's unres_data_add when must.  At most one allocation *)
(* fails in a step.                                                       *)
Faults ==
  {fx \in [intact : BOOLEAN, merge : SUBSET Nodes, must : BOOLEAN] :
     /\ Cardinality(fx.merge) + (IF fx.must THEN 1 ELSE 0) <= (IF AllocFaults THEN 1 ELSE 0)}

-----------------------------------------------------------------------------
(* Tree primitives of tree_data.c used by validation.c (lyd_free,         *)
(* lyd_unlink, the splice in filter_merge).                               *)

Siblings(tr, n) == tr.kids[tr.parent[n]]

RECURSIVE Subtree(_, _)
Subtree(tr, n) == {n} \cup UNION {Subtree(tr, c) : c \in ToSet(tr.kids[n])}

\* mutant: the subtree is unlinked and marked freed but stays live
FreeTree_keeplive(tr, n) ==
  [tr EXCEPT !.kids = [@ EXCEPT ![tr.parent[n]] = Remove(@, n)],
             !.freed = @ \cup Subtree(tr, n),
             !.uaf = @ \/ n \in tr.freed]

\* lyd_free: unlink n and free it with its subtree; freeing a freed node reads freed memory
FreeTree(tr, n) ==
  [tr EXCEPT !.kids = [@ EXCEPT ![tr.parent[n]] = Remove(@, n)],
             !.live = @ \ Subtree(tr, n),
             !.freed = @ \cup Subtree(tr, n),
             !.uaf = @ \/ n \in tr.freed]

FreeAll(tr, seq) == FoldLeft(LAMBDA acc, c : FreeTree(acc, c), tr, seq)

\* lyd_unlink(f) and append f at the tail of to's children, reparenting it
Move(tr, to, f) ==
  LET k1 == [tr.kids EXCEPT ![tr.parent[f]] = Remove(@, f)]
  IN [tr EXCEPT !.kids = [k1 EXCEPT ![to] = Append(@, f)], !.parent[f] = to]

Attach(tr, n) ==
  [tr EXCEPT !.kids[LParent[n]] = Append(@, n), !.live = @ \cup {n}]

-----------------------------------------------------------------------------
\* mutant: the key loop stops one key short
lyv_keys_short(tr, n) ==
  LET keys == ListKeys[NodeSchema[n]]
      ch == tr.kids[n]
  IN /\ Len(ch) >= Len(keys) - 1
     /\ \A i \in 1..(Len(keys) - 1) : NodeSchema[ch[i]] = keys[i]

(* lyv_keys: the first keys_size children are the keys, in order.         *)
lyv_keys(tr, n) ==
  LET keys == ListKeys[NodeSchema[n]]
      ch == tr.kids[n]
  IN /\ Len(ch) >= Len(keys)
     /\ \A i \in DOMAIN keys : NodeSchema[ch[i]] = keys[i]

\* content match node: a leaf or leaf-list child with a value_str
ContentMatch(tr, n) ==
  {c \in ToSet(tr.kids[n]) : Leafish(NodeSchema[c]) /\ value[c] # NoValue}

\* mutant: content match nodes are matched by schema, their values not compared
filter_compare_noval(tr, first, second) ==
  LET s == NodeSchema[first]
      Matches(d1) == {d2 \in ToSet(tr.kids[second]) : NodeSchema[d2] = NodeSchema[d1]}
  IN /\ s = NodeSchema[second]
     /\ CASE SKind[s] \in {"container", "list"} ->
               /\ \A d1 \in ContentMatch(tr, first) : Matches(d1) # {}
               /\ MapThenSumSet(LAMBDA d1 : Cardinality(Matches(d1)),
                                ContentMatch(tr, first))
                    = Cardinality(ContentMatch(tr, second))
          [] Leafish(s) -> value[first] = value[second]
          [] OTHER -> TRUE

(* filter_compare(first, second) = 0, i.e. TRUE here, when both filter   *)
(* nodes select the same data.  c1 counts every matching pair, so the    *)
(* test is not symmetric when first has repeated content match nodes.    *)
filter_compare(tr, first, second) ==
  LET s == NodeSchema[first]
      Matches(d1) == {d2 \in ToSet(tr.kids[second]) :
                        NodeSchema[d2] = NodeSchema[d1] /\ value[d2] = value[d1]}
  IN /\ s = NodeSchema[second]
     /\ CASE SKind[s] \in {"container", "list"} ->
               /\ \A d1 \in ContentMatch(tr, first) : Matches(d1) # {}
               /\ MapThenSumSet(LAMBDA d1 : Cardinality(Matches(d1)),
                                ContentMatch(tr, first))
                    = Cardinality(ContentMatch(tr, second))
          [] Leafish(s) -> value[first] = value[second]
          [] OTHER -> TRUE

\* the "limiting" children collected into s1/s2 by filter_merge
Limiting(c) ==
  \/ Leafish(NodeSchema[c]) /\ value[c] = NoValue
  \/ SKind[NodeSchema[c]] = "anyxml" /\ value[c] = NoValue
  \/ SKind[NodeSchema[c]] \in {"container", "list"}

RECURSIVE filter_merge(_, _, _, _), MatchIn(_, _, _, _, _, _), MergeFrom(_, _, _, _, _, _)

\* mutant: the from-child is spliced whether or not to already has it
MergeFrom_alwayscopy(tr, to, s1, s2, j, fx) ==
  IF j > Len(s2) THEN tr
  ELSE LET r == MatchIn(tr, s2[j], s1, 1, FALSE, fx)
       IN MergeFrom(Move(r.t, to, s2[j]), to, s1, s2, j + 1, fx)

(* One pass of filter_merge's inner loop for the from-child f over s1,   *)
(* from index i.  An entry of s1 may have been freed by an earlier pass   *)
(* (lyd_free(s1->set.d[i]) leaves the pointer in the set); reading it is  *)
(* undefined: with fx.intact the freed node still holds its old         *)
(* contents, otherwise its schema pointer reads as a different schema.    *)
MatchIn(tr, f, s1, i, copy, fx) ==
  IF i > Len(s1) THEN [t |-> tr, move |-> TRUE]
  ELSE
  LET e == s1[i]
      tr1 == IF e \in tr.freed THEN [tr EXCEPT !.uaf = TRUE] ELSE tr
      same == (e \notin tr.freed \/ fx.intact) /\ NodeSchema[e] = NodeSchema[f]
  IN IF ~same THEN MatchIn(tr1, f, s1, i + 1, copy, fx)
     ELSE IF SKind[NodeSchema[f]] \in {"container", "list"} THEN
       IF filter_compare(tr1, f, e)
         THEN [t |-> filter_merge(tr1, e, f, fx), move |-> copy]
       ELSE IF tr1.kids[f] = <<>>
         THEN MatchIn(FreeTree(tr1, e), f, s1, i + 1, TRUE, fx)
       ELSE IF tr1.kids[e] = <<>>
         THEN [t |-> tr1, move |-> copy]
       ELSE MatchIn(tr1, f, s1, i + 1, copy, fx)
     ELSE [t |-> tr1, move |-> copy]

MergeFrom(tr, to, s1, s2, j, fx) ==
  IF j > Len(s2) THEN tr
  ELSE LET r == MatchIn(tr, s2[j], s1, 1, FALSE, fx)
       IN MergeFrom(IF r.move THEN Move(r.t, to, s2[j]) ELSE r.t,
                    to, s1, s2, j + 1, fx)

\* mutant: a from node that selects everything leaves to's children in place
filter_merge_keepto(tr, to, from, fx) ==
  IF NodeSchema[to] # NodeSchema[from]
     \/ SKind[NodeSchema[to]] \notin {"container", "list"} THEN tr
  ELSE IF tr.kids[from] = <<>> THEN tr
  ELSE IF tr.kids[to] = <<>> THEN tr
  ELSE IF to \in fx.merge THEN [tr EXCEPT !.enomem = TRUE]
  ELSE LET s1 == SelectSeq(tr.kids[to], Limiting)
           s2 == SelectSeq(tr.kids[from], Limiting)
       IN IF s1 = <<>> THEN tr
          ELSE IF s2 = <<>> THEN FreeAll(tr, s1)
          ELSE MergeFrom(tr, to, s1, s2, 1, fx)

(* filter_merge(to, from): absorb the selection and containment nodes of *)
(* from into to; from itself is freed by the caller.  When allocating the *)
(* sets fails, LOGMEM sets ly_errno and the call returns before changing  *)
(* the tree; the nested call in MatchIn ignores that result and the outer *)
(* merge goes on.                                                         *)
filter_merge(tr, to, from, fx) ==
  IF NodeSchema[to] # NodeSchema[from]
     \/ SKind[NodeSchema[to]] \notin {"container", "list"} THEN tr
  ELSE IF tr.kids[from] = <<>> THEN FreeAll(tr, tr.kids[to])
  ELSE IF tr.kids[to] = <<>> THEN tr
  ELSE IF to \in fx.merge THEN [tr EXCEPT !.enomem = TRUE]
  ELSE LET s1 == SelectSeq(tr.kids[to], Limiting)
           s2 == SelectSeq(tr.kids[from], Limiting)
       IN IF s1 = <<>> THEN tr
          ELSE IF s2 = <<>> THEN FreeAll(tr, s1)
          ELSE MergeFrom(tr, to, s1, s2, 1, fx)

-----------------------------------------------------------------------------
\* mutant: the predecessor is read one position too far, as the node itself
RpcOutOfOrder_selfprev(tr, vld, n) ==
  LET sibs == Siblings(tr, n)
      i == CHOOSE k \in DOMAIN sibs : sibs[k] = n
      prev == sibs[i]
  IN /\ n \in vld /\ NodeSchema[n] \in RpcArgs
     /\ Len(sibs) > 1 /\ NodeSchema[prev] \in LaterSiblings[NodeSchema[n]]

(* RPC argument order: node->prev, the data sibling before the node (the  *)
(* sibling ring's prev of the first node is the last, whose next is NULL), *)
(* has a schema that lys_getnext visits after the node's own schema.       *)
RpcOutOfOrder(tr, vld, n) ==
  LET sibs == Siblings(tr, n)
      i == CHOOSE k \in DOMAIN sibs : sibs[k] = n
      prev == sibs[i - 1]
  IN /\ n \in vld /\ NodeSchema[n] \in RpcArgs
     /\ i > 1 /\ NodeSchema[prev] \in LaterSiblings[NodeSchema[n]]

\* mutant: the unresolved flag is not masked off, so a flagged leafref is not queued
lyv_data_context_nomask(tr, vld, fl, n) ==
  LET s == NodeSchema[n]
      typed == Leafish(s) /\ Mode \notin {"FILTER", "EDIT", "GET", "GETCONFIG"}
      ref == IF typed /\ n \notin fl
               THEN (IF s \in Leafref THEN {<<n, "leafref">>}
                     ELSE IF s \in InstId THEN {<<n, "instid">>} ELSE {})
               ELSE {}
      when == IF Mode \in {"DATA", "CONFIG"} /\ s \in WhenSchemas
                THEN {<<n, "when">>} ELSE {}
  IN IF s \in Disabled THEN [ok |-> FALSE, add |-> {}, clear |-> {}]
     ELSE IF Mode \in {"EDIT", "GETCONFIG", "CONFIG"} /\ s \in ReadOnly
       THEN [ok |-> FALSE, add |-> ref \cup when, clear |-> {}]
     ELSE [ok |-> ~RpcOutOfOrder(tr, vld, n), add |-> ref \cup when, clear |-> {}]

(* lyv_data_context(node): the checks made when the node is created.  The *)
(* result says whether it failed, which unres entries it appended         *)
(* (entries appended before a later check fails stay in the queue) and    *)
(* whose unresolved flag it masked off (value_type &= LY_DATA_TYPE_MASK). *)
lyv_data_context(tr, vld, fl, n) ==
  LET s == NodeSchema[n]
      typed == Leafish(s) /\ Mode \notin {"FILTER", "EDIT", "GET", "GETCONFIG"}
      ref == IF typed
               THEN (IF s \in Leafref THEN {<<n, "leafref">>}
                     ELSE IF s \in InstId THEN {<<n, "instid">>} ELSE {})
               ELSE {}
      when == IF Mode \in {"DATA", "CONFIG"} /\ s \in WhenSchemas
                THEN {<<n, "when">>} ELSE {}
      clear == IF typed THEN {n} ELSE {}
  IN IF s \in Disabled THEN [ok |-> FALSE, add |-> {}, clear |-> {}]
     ELSE IF Mode \in {"EDIT", "GETCONFIG", "CONFIG"} /\ s \in ReadOnly
       THEN [ok |-> FALSE, add |-> ref \cup when, clear |-> clear]
     ELSE [ok |-> ~RpcOutOfOrder(tr, vld, n), add |-> ref \cup when, clear |-> clear]

(* The choice/case walk of lyv_data_content: the node's schema climbs     *)
(* through enclosing choices; at each level ch (with the case cs it came  *)
(* through, or NoSchema) every other sibling is tested by CaseClash.      *)
RECURSIVE ChoiceLevels(_)
ChoiceLevels(s) ==
  LET p == SParent[s] IN
  IF p = NoSchema \/ SKind[p] \notin {"choice", "case"} THEN <<>>
  ELSE IF SKind[p] = "choice" THEN <<[ch |-> p, cs |-> NoSchema]>> \o ChoiceLevels(p)
  ELSE <<[ch |-> SParent[p], cs |-> p]>> \o ChoiceLevels(SParent[p])

RECURSIVE CaseClash(_, _, _)
\* mutant: a sibling from another case of the same choice is not noticed
CaseClash_samecase(siter, ch, cs) ==
  IF siter = NoSchema THEN FALSE
  ELSE IF SKind[siter] = "choice"
    THEN siter = ch \/ CaseClash(SParent[siter], ch, cs)
  ELSE IF SKind[siter] = "case"
    THEN IF SParent[siter] # ch THEN CaseClash(SParent[siter], ch, cs)
         ELSE cs = NoSchema
  ELSE FALSE

CaseClash(siter, ch, cs) ==
  IF siter = NoSchema THEN FALSE
  ELSE IF SKind[siter] = "choice"
    THEN siter = ch \/ CaseClash(SParent[siter], ch, cs)
  ELSE IF SKind[siter] = "case"
    THEN IF SParent[siter] # ch THEN CaseClash(SParent[siter], ch, cs)
         ELSE cs = NoSchema \/ cs # siter
  ELSE FALSE

CaseConflict(tr, n) ==
  \E lv \in ToSet(ChoiceLevels(NodeSchema[n])) :
    \E d \in ToSet(Siblings(tr, n)) \ {n} :
      CaseClash(SParent[NodeSchema[d]], lv.ch, lv.cs)

\* the schema parent that has instances (choice and case have none)
RECURSIVE DataParentSchema(_)
DataParentSchema(s) ==
  IF SParent[s] = NoSchema THEN NoSchema
  ELSE IF SKind[SParent[s]] \in {"choice", "case"} THEN DataParentSchema(SParent[s])
  ELSE SParent[s]

\* ly_check_mandatory finds a mandatory child schema with no instance
MissingMandatory(tr, n) ==
  \E c \in Mandatory : /\ DataParentSchema(c) = NodeSchema[n]
                       /\ \A k \in ToSet(tr.kids[n]) : NodeSchema[k] # c

\* lyd_compare(diter, node, 1): equal keys of a list, equal value of a leaf-list
KeyValue(tr, n, k) ==
  LET ks == SelectSeq(tr.kids[n], LAMBDA c : NodeSchema[c] = k)
  IN IF ks = <<>> THEN NoValue ELSE value[ks[1]]

lyd_compare(tr, a, b) ==
  IF SKind[NodeSchema[a]] = "list"
    THEN \A i \in DOMAIN ListKeys[NodeSchema[a]] :
           LET k == ListKeys[NodeSchema[a]][i] IN KeyValue(tr, a, k) = KeyValue(tr, b, k)
    ELSE value[a] = value[b]

\* the do-while over the schema node and its ancestors without instances
RECURSIVE StatusChain(_)
StatusChain(s) ==
  {s} \cup (IF SParent[s] = NoSchema
              \/ SKind[SParent[s]] \in {"container", "leaf", "leaflist", "list"}
            THEN {} ELSE StatusChain(SParent[s]))

ObsoleteFail(n) ==
  /\ ObsoleteOpt
  /\ \/ StatusChain(NodeSchema[n]) \cap ObsoleteStatus # {}
     \/ Leafish(NodeSchema[n]) /\ NodeSchema[n] \in ObsoleteTypeLeaves

\* mutant: the identity check sits inside the LYD_OPT_OBSOLETE block
IdentStatusFail_obsoleteonly(n) ==
  ObsoleteOpt /\ Leafish(NodeSchema[n]) /\ <<NodeSchema[n], value[n]>> \in IdentClash

(* The status of an identityref value: lyp_check_status refuses an        *)
(* identity whose status the leaf may not reference, whatever the options. *)
IdentStatusFail(n) ==
  Leafish(NodeSchema[n]) /\ <<NodeSchema[n], value[n]>> \in IdentClash

-----------------------------------------------------------------------------
(* The instance-count part of lyv_data_content, the last check before the *)
(* status checks.  res is "cont" when lyv_data_content goes on, "ok" when *)
(* it returns EXIT_SUCCESS at once, "discard" when it returns EXIT_FAILURE *)
(* without ly_errno (the caller frees the node) and "fail" on an error.   *)
Res(r, tr) == [res |-> r, t |-> tr]

\* filter mode, container/leaf/anyxml: diter is the first other instance
FilterInstance(tr, diter, n, fx) ==
  CASE SKind[NodeSchema[n]] = "container" ->
         IF filter_compare(tr, diter, n)
           THEN Res("discard", filter_merge(tr, diter, n, fx))
         ELSE IF tr.kids[diter] = <<>> THEN Res("discard", tr)
         ELSE IF tr.kids[n] = <<>> THEN Res("ok", FreeTree(tr, diter))
         ELSE Res("ok", tr)
    [] SKind[NodeSchema[n]] = "leaf" ->
         IF value[diter] = NoValue /\ value[n] # NoValue
           THEN Res("ok", FreeTree(tr, diter))
         ELSE IF value[n] = NoValue \/ value[diter] = value[n]
           THEN Res("discard", tr)
         ELSE Res("cont", tr)
    [] OTHER -> Res("discard", tr)

RECURSIVE UniqueLoop(_, _, _, _, _)
\* mutant: the filter loop gives up after the first validated instance
UniqueLoop_first(tr, n, same, i, fx) ==
  IF i > Len(same) THEN Res("cont", tr)
  ELSE LET d == same[i] IN
    IF d \in validity THEN UniqueLoop(tr, n, same, i + 1, fx)
    ELSE IF Mode = "FILTER" THEN
      IF filter_compare(tr, d, n)
        THEN Res("discard", filter_merge(tr, d, n, fx))
      ELSE Res("cont", tr)
    ELSE IF lyd_compare(tr, d, n) THEN Res("fail", tr)
    ELSE UniqueLoop(tr, n, same, i + 1, fx)

\* the uniqueness loop over the list/leaf-list instances same[i..]
UniqueLoop(tr, n, same, i, fx) ==
  IF i > Len(same) THEN Res("cont", tr)
  ELSE LET d == same[i] IN
    IF d \in validity THEN UniqueLoop(tr, n, same, i + 1, fx)
    ELSE IF Mode = "FILTER" THEN
      IF filter_compare(tr, d, n)
        THEN Res("discard", filter_merge(tr, d, n, fx))
      ELSE IF SKind[NodeSchema[n]] = "leaflist" /\ value[d] = NoValue
        THEN Res("cont", FreeTree(tr, d))
      ELSE IF SKind[NodeSchema[n]] = "leaflist" /\ value[n] = NoValue
        THEN Res("discard", tr)
      ELSE UniqueLoop(tr, n, same, i + 1, fx)
    ELSE IF lyd_compare(tr, d, n) THEN Res("fail", tr)
    ELSE UniqueLoop(tr, n, same, i + 1, fx)

Instances(tr, n, fx) ==
  LET s == NodeSchema[n]
      same == SelectSeq(Siblings(tr, n), LAMBDA m : NodeSchema[m] = s /\ m # n)
  IN CASE SKind[s] \in {"container", "leaf", "anyxml"} ->
            IF same = <<>> THEN Res("cont", tr)
            ELSE IF Mode # "FILTER" THEN Res("fail", tr)
            ELSE FilterInstance(tr, Head(same), n, fx)
       [] SKind[s] \in {"list", "leaflist"} /\ Mode \notin {"GET", "GETCONFIG"} ->
            UniqueLoop(tr, n, same, 1, fx)
       [] OTHER -> Res("cont", tr)

(* lyv_data_content(node): keys, mandatory children, choice/case, number  *)
(* of instances, status; then the must conditions are queued.             *)
lyv_data_content(tr, n, fx) ==
  LET s == NodeSchema[n]
      must == IF s \in MustSchemas THEN {<<n, "must">>} ELSE {}
      Fail == [res |-> "fail", t |-> tr, add |-> {}]
      d == Instances(tr, n, fx)
      \* the must entry is queued last; unres_data_add may fail to allocate
      Queue(tr2) == IF must # {} /\ fx.must THEN [res |-> "fail", t |-> tr2, add |-> {}]
                    ELSE [res |-> "ok", t |-> tr2, add |-> must]
  IN IF n \notin validity THEN Queue(tr)
     ELSE IF /\ SKind[s] = "list" /\ Mode \notin {"FILTER", "GET", "GETCONFIG"}
             /\ ~lyv_keys(tr, n) THEN Fail
     ELSE IF /\ SKind[s] \in {"container", "list"}
             /\ Mode \notin {"FILTER", "EDIT", "GET", "GETCONFIG"}
             /\ MissingMandatory(tr, n) THEN Fail
     ELSE IF Mode # "FILTER" /\ CaseConflict(tr, n) THEN Fail
     ELSE IF d.res # "cont" THEN [res |-> d.res, t |-> d.t, add |-> {}]
     ELSE IF ObsoleteFail(n) \/ IdentStatusFail(n) THEN [res |-> "fail", t |-> d.t, add |-> {}]
     ELSE Queue(d.t)

-----------------------------------------------------------------------------
(* The producer (the parser) and the two calls it makes.                  *)

Init ==
  \E D \in Docs, Producer \in Producers :
    /\ events = IF Producer = "parser" THEN DocEvents(D) ELSE PreOrder(D)
    /\ pc = 1
    /\ \E v \in [{n \in D : Valued(n)} -> Vals \cup {NoValue}] :
         /\ \A n \in DOMAIN v : v[n] \in ValueSet(n)
         /\ value = [n \in Nodes |-> IF n \in DOMAIN v THEN v[n] ELSE NoValue]
    /\ t = [kids |-> [p \in Nodes \cup {Root} |->
                       IF Producer = "parser" THEN <<>> ELSE ChildrenIn(D, p)],
            parent |-> LParent, live |-> IF Producer = "parser" THEN {} ELSE D,
            freed |-> {}, uaf |-> FALSE, enomem |-> FALSE]
    /\ validity = IF Producer = "parser" THEN {} ELSE D
    /\ unres = {}
    /\ status = "parsing"
    \* a tree handed to lyd_validate may keep the flags of an earlier pass
    /\ flagged \in IF Producer = "parser" THEN {{}}
                   ELSE SUBSET {n \in D : NodeSchema[n] \in Leafref \cup InstId}

AfterStep == IF pc + 1 > Len(events) THEN "done" ELSE "parsing"

\* the parser creates node n and checks its context
Open(n) ==
  /\ status = "parsing"
  /\ pc <= Len(events) /\ events[pc] = <<"open", n>>
  /\ LET tr == Attach(t, n)
         r == lyv_data_context(tr, validity \cup {n}, flagged, n)
     IN /\ t' = tr
        /\ flagged' = flagged \ r.clear
        /\ validity' = validity \cup {n}
        /\ unres' = unres \cup r.add
        /\ status' = IF r.ok THEN AfterStep ELSE "error"
  /\ pc' = pc + 1
  /\ UNCHANGED <<events, value>>

\* the parser has read n's children and validates its content
Close(n) ==
  /\ status = "parsing"
  /\ pc <= Len(events) /\ events[pc] = <<"close", n>>
  /\ \E fx \in Faults :
       LET r == lyv_data_content(t, n, fx)
           \* EXIT_FAILURE with ly_errno set is an error, without it a discard
           failed == r.res = "fail" \/ r.t.enomem
       IN /\ t' = IF r.res = "discard" /\ ~failed THEN FreeTree(r.t, n) ELSE r.t
          /\ validity' = IF failed THEN validity ELSE validity \ {n}
          /\ unres' = unres \cup r.add
          /\ status' = IF failed THEN "error" ELSE AfterStep
  /\ pc' = pc + 1
  /\ UNCHANGED <<events, value, flagged>>

(* lyd_validate at a dirty node: lyv_data_context, and when it passes     *)
(* lyv_data_content, on a tree whose later nodes are built but dirty.     *)
Validate(n) ==
  /\ status = "parsing"
  /\ pc <= Len(events) /\ events[pc] = <<"validate", n>>
  /\ \E fx \in Faults :
       /\ fx.intact
       /\ LET c == lyv_data_context(t, validity, flagged, n)
              r == lyv_data_content(t, n, fx)
          IN /\ flagged' = flagged \ c.clear
             /\ IF ~c.ok
                  THEN /\ unres' = unres \cup c.add
                       /\ status' = "error"
                       /\ UNCHANGED <<t, validity>>
                  ELSE /\ t' = r.t
                       /\ validity' = IF r.res = "fail" THEN validity ELSE validity \ {n}
                       /\ unres' = unres \cup c.add \cup r.add
                       /\ status' = IF r.res = "fail" THEN "error" ELSE AfterStep
  /\ pc' = pc + 1
  /\ UNCHANGED <<events, value>>

Next == \E n \in Nodes : Open(n) \/ Close(n) \/ Validate(n)

Spec == Init /\ [][Next]_vars

-----------------------------------------------------------------------------
(* Properties.                                                            *)

TypeOK ==
  /\ pc \in 1..(Len(events) + 1)
  /\ status \in {"parsing", "done", "error"}
  /\ value \in [Nodes -> Vals \cup {NoValue}]
  /\ t.live \subseteq Nodes /\ t.freed \subseteq Nodes /\ t.live \cap t.freed = {}
  /\ \A p \in Nodes \cup {Root} : t.kids[p] \in Seq(Nodes)
  /\ t.parent \in [Nodes -> Nodes \cup {Root}]
  /\ t.uaf \in BOOLEAN /\ t.enomem \in BOOLEAN
  /\ validity \subseteq Nodes
  /\ unres \subseteq Nodes \X UnresKinds
  /\ flagged \subseteq Nodes

LiveSibs(p) == t.kids[p]

(* Memory safety of filter normalisation: lyv_data_content and            *)
(* filter_merge never read or free a node that was already freed.         *)
NoUseAfterFree == ~t.uaf

(* The spec's output contract (6, 7): a node is either fully validated,   *)
(* discarded or failed, with no partial success.  A call of               *)
(* lyv_data_content (or lyd_validate's pair of calls) that reports an     *)
(* error, including an allocation failure inside a nested filter_merge,   *)
(* leaves the tree as it found it: no node freed, moved or added.         *)
FailedCallLeavesTree ==
  [][(status' = "error" /\ events[pc][1] # "open")
       => t'.kids = t.kids /\ t'.live = t.live]_vars

(* Every entry the pass appended to the unres queue names a node that is  *)
(* still in the tree, so the later resolution pass reads no freed node    *)
(* (lyv_data_content and filter_merge free siblings that have entries).   *)
UnresNodesLive == \A e \in unres : e[1] \in t.live

(* Filter normalisation leaves no redundant sibling: among the validated  *)
(* instances of one leaf, leaf-list, list or anyxml schema under one      *)
(* parent no two select the same data (filter_compare) and no selection   *)
(* leaf/leaf-list stands beside a content match instance.                 *)
FilterNormalized ==
  ~t.uaf =>
    \A p \in t.live \cup {Root} :
      \A i, j \in DOMAIN t.kids[p] :
        LET a == t.kids[p][i]
            b == t.kids[p][j]
        IN (/\ i < j /\ a \notin validity /\ b \notin validity
            /\ NodeSchema[a] = NodeSchema[b]
            /\ SKind[NodeSchema[a]] \in {"leaf", "leaflist", "list", "anyxml"})
           => /\ ~filter_compare(t, a, b)
              /\ Leafish(NodeSchema[a]) => value[a] # NoValue /\ value[b] # NoValue

(* Spec section 8 lists filter_compare as symmetric.  Over two validated *)
(* same-schema siblings the pass has built, comparing them in either order *)
(* gives the same answer, so which of the two arrived first does not      *)
(* decide whether filter_merge runs (filter_compare counts every matching *)
(* pair at l. 94, which only the deduplication of earlier steps keeps     *)
(* equal to a count of matched nodes).                                    *)
FilterCompareSymmetric ==
  ~t.uaf =>
    \A a, b \in t.live \ validity :
      (a # b /\ t.parent[a] = t.parent[b] /\ NodeSchema[a] = NodeSchema[b])
        => (filter_compare(t, a, b) <=> filter_compare(t, b, a))

(* Filter normalisation of containers leaves the canonical minimal form   *)
(* the spec (1, 4.2) promises: no two validated sibling instances of one  *)
(* container select the same data, and a selection container (no         *)
(* children) stands alone, whatever the number and order of instances     *)
(* (lyv_data_content compares a new container with one earlier instance). *)
FilterContainersNormalized ==
  ~t.uaf =>
    \A a, b \in t.live \ validity :
      (/\ a # b /\ t.parent[a] = t.parent[b] /\ NodeSchema[a] = NodeSchema[b]
       /\ SKind[NodeSchema[a]] = "container")
        => /\ ~filter_compare(t, a, b)
           /\ t.kids[a] # <<>>

(* RPC input arguments end in schema order: lyv_data_context compares each *)
(* argument only with its data predecessor (l. 386-401), yet a pass over  *)
(* RPC data that ends without error has no pair of sibling arguments, at  *)
(* any distance, of which the earlier one's schema comes after the later. *)
ArgsInSchemaOrder ==
  status = "done" =>
    \A p \in t.live \cup {Root} :
      \A i, j \in DOMAIN t.kids[p] :
        (i < j /\ NodeSchema[t.kids[p][j]] \in RpcArgs)
          => NodeSchema[t.kids[p][i]] \notin LaterSiblings[NodeSchema[t.kids[p][j]]]

(* Reference definition of a valid data tree, written from the schema and *)
(* not from the checks: keys first and in order, one instance of a        *)
(* container, leaf or anyxml, pairwise distinct list keys and leaf-list   *)
(* values, one case of a choice among siblings, mandatory nodes present,  *)
(* no identity value of a status its leaf may not reference.              *)
RECURSIVE SchemaAncestors(_)
SchemaAncestors(s) ==
  IF SParent[s] = NoSchema THEN {} ELSE {SParent[s]} \cup SchemaAncestors(SParent[s])

CaseUnder(s, ch) == CHOOSE cs \in SchemaAncestors(s) \cup {s} :
                      SKind[cs] = "case" /\ SParent[cs] = ch

KeysFirst(n) ==
  LET keys == ListKeys[NodeSchema[n]] IN
  /\ Len(t.kids[n]) >= Len(keys)
  /\ \A i \in DOMAIN keys : NodeSchema[t.kids[n][i]] = keys[i]

SameInstance(a, b) ==
  IF SKind[NodeSchema[a]] = "list"
    THEN \A k \in ToSet(ListKeys[NodeSchema[a]]) :
           \E ka, kb \in ToSet(t.kids[a]) \cup ToSet(t.kids[b]) :
             /\ ka \in ToSet(t.kids[a]) /\ kb \in ToSet(t.kids[b])
             /\ NodeSchema[ka] = k /\ NodeSchema[kb] = k /\ value[ka] = value[kb]
    ELSE value[a] = value[b]

SiblingsValid(p) ==
  \A i, j \in DOMAIN t.kids[p] :
    LET a == t.kids[p][i]
        b == t.kids[p][j]
    IN i < j =>
       /\ NodeSchema[a] = NodeSchema[b] =>
            SKind[NodeSchema[a]] \in {"list", "leaflist"} /\ ~SameInstance(a, b)
       /\ \A ch \in SchemaAncestors(NodeSchema[a]) \cap SchemaAncestors(NodeSchema[b]) :
            SKind[ch] = "choice" => CaseUnder(NodeSchema[a], ch) = CaseUnder(NodeSchema[b], ch)

(* A pass over configuration data that ends without an error has left a  *)
(* valid tree: each pair of siblings was checked once, by the later of the *)
(* two, and each list's keys when the list was closed.                    *)
DataValid ==
  status = "done" =>
    /\ SiblingsValid(Root)
    /\ \A n \in t.live :
         /\ SiblingsValid(n)
         /\ SKind[NodeSchema[n]] = "list" => KeysFirst(n)
         /\ <<NodeSchema[n], value[n]>> \notin IdentClash
         /\ \A c \in Mandatory :
              DataParentSchema(c) = NodeSchema[n] =>
                \E k \in ToSet(t.kids[n]) : NodeSchema[k] = c

====
