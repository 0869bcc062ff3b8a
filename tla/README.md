# TLA+ models of libyang's data validation (`src/src/validation.c`)

This directory holds TLA+ models of the data-tree validator of libyang
(`src/src/validation.c`) and the TLC configurations that check them.

## 1. Inventory

### The parts of the system

| Part | Code | State it keeps / touches | Operations |
|---|---|---|---|
| Key/Order Checker | `lyv_keys` (l. 28-49) | reads a list node's children | checks that the first `keys_size` children are the keys, in order |
| Filter Comparator | `filter_compare` (l. 58-129) | none (pure) | decides whether two same-schema filter nodes select the same data |
| Filter Merger | `filter_merge` (l. 131-297) | mutates the tree: frees children of `to`, splices children of `from` into `to`; transient sets `s1`, `s2` | merges `from` into `to`, recursively |
| Value Validator | `lyv_data_value` (l. 299-339) | calls the resolver at once; reads the stored `value.leafref` | resolves leafref / instance-identifier values after a value change |
| Context Validator | `lyv_data_context` (l. 341-404) | appends to the unres queue; masks the unresolved flag off `value_type` | if-feature, leafref/instid/when registration, config-false data, RPC argument order |
| Content Validator | `lyv_data_content` (l. 406-669) | mutates the tree in filter mode (frees siblings, merges); appends must entries | keys, mandatory, choice/case, instance count and uniqueness or filter normalisation, status, must |
| Sibling set (`ly_set`), tree primitives (`lyd_free`, `lyd_unlink`), schema queries, resolver, producer | outside `src/` | the tree, the schema, the unres queue | used by the above; modelled from `spec.md` where needed |

### How they interact

A producer (the XML parser, or `lyd_validate` over a finished tree) visits
data nodes in document order. When it
creates a node it calls `lyv_data_context`; when it has read the node's
children it calls `lyv_data_content`. `lyv_data_content` returns
`EXIT_FAILURE` either with `ly_errno` set (a validation error: the pass stops)
or without it (filter mode: the node is redundant and the caller frees it).
`lyv_data_content` calls `lyv_keys`, and in filter mode `filter_compare` and
`filter_merge`, which frees and splices nodes of sibling subtrees that have
already been validated. Both validators append requests (leafref, instid,
when, must) to the caller's unres queue, which a later pass resolves
(`resolve_unres_data`). A caller that later changes the value of a
reference leaf calls `lyv_data_value`, which resolves it at once.

Everything is single-threaded and synchronous. What is hard is not concurrency
but the **order of calls and in-place mutation**: the result depends on the
order in which siblings arrive, nodes are freed while pointers to them are
still held (the sets `s1`/`s2`, the unres queue), and the checks of one node
rely on earlier siblings having been validated and their `validity` cleared.

### What makes each part correct

* `lyv_keys`, choice/case, instance count, uniqueness, mandatory: a pass over
  non-filter data that ends without error leaves a valid tree (every pair of
  siblings checked once, by the later one).
* `filter_compare`: symmetric; agrees with "same set of content match values".
* `filter_merge` and filter normalisation: no freed node is read or left
  linked; no redundant siblings remain; what the filter selects is unchanged
  (the merge is a union of selection criteria), except where spec 4.2 lets a
  content match leaf replace a selection leaf (l. 532), and never narrowed.
* unres queue: every queued entry names a node that is still in the tree.
* references: every leafref and required instance-identifier of an accepted
  document names an existing node once the queue is worked off, and still
  after a value change that `lyv_data_value` accepted.

## 2. Modules

| Module | What it models |
|---|---|
| `Validation.tla` | The whole validation pass of one document: the producers (the parser and `lyd_validate`, spec-modelled), `lyv_data_context`, `lyv_data_content`, `lyv_keys`, `filter_compare`, `filter_merge`, with the schema as CONSTANTS. Also the invariants and the mutants. |
| `FilterSemantics.tla` | What a subtree filter selects from a data tree (spec 4.3, 4.4 and glossary, after NETCONF subtree filtering), as constant operators over filter forests and the valid data trees of a small schema. |
| `FilterSelect.tla` | The abstract specification of filter normalisation: `written` (the filter as the document gives it) grows by reading, and `sel` (what the kept filter selects) is what `written` selects; with `Widen`, normalising may only make it select more. |
| `FilterRefinement.tla` | The refinement mapping from `Validation` to `FilterSelect` (`INSTANCE ... WITH`): `written` is read off the created nodes in their document places, `sel` off the live tree; `SelectionPreserved` and `SelectionNeverNarrows` are `FilterSelect!Spec` under the two settings of `Widen`. |
| `Resolution.tla` | `Validation` composed with the deferred resolver (`Resolve`, spec-modelled) and a caller that changes a reference's value and calls `lyv_data_value` (`ChangeValue`); new state `lref` (`value.leafref`) and `edits`; `RSpec` with weak fairness on the resolver. |
| `MCFilter.tla` | Filter data: two top-level containers `c { l { lk } x }`, `l` has a must. |
| `MCFilterSiblings.tla` | Filter data: `c` with three leaves `x`, three leaf-lists `ll`, two anyxml `a` (extends `FilterRefinement`), and the sub-layouts the runs take: the leaf-lists and anyxml, the three leaves, and `c { ll ll a }`. |
| `MCFilterLists.tla` | Filter data: `c` with three list instances `l { lk y }` (extends `FilterRefinement`). |
| `MCFilterTriple.tla` | Filter data: three top-level containers `c` holding 3, 2 and 1 leaves `x` (extends `FilterRefinement`). |
| `MCStrict.tla` | Configuration data: `c` with a choice of two cases, a list keyed by the identityref `k` (value `v2` names an identity of a status `k` may not use) with a leaf `m` that is an instance-identifier requiring an instance of `p`, a mandatory leafref leaf `r` to `k` with a when (extends `Resolution`). |
| `MCRpc.tla` | RPC data: the rpc node `op` with arguments `a`, `b` (leaf-list), `c`, offered out of schema order. |

### State and actions of `Validation`

* `t` is the tree as an arena over the node ids `Nodes`: `kids` (children
  lists, `Root` holding the top-level siblings), `parent`, `live`, `freed`,
  `uaf`, set when freed memory is read, and `enomem`, set when `LOGMEM`
  sets `ly_errno = LY_EMEM`. Freed nodes keep their old fields,
  so a stale pointer can still be followed, as in C.
* `value` is `value_str` (`NoValue` for a selection node) or the anyxml payload.
* `validity` is the set of nodes whose `validity` flag is set; `unres` the queue.
* `events`/`pc` are the producer's work list. `Init` picks a producer from
  `Producers`:
  * the parser: `Open(n)` creates `n`, links it as the last child and runs
    `lyv_data_context`; `Close(n)` runs `lyv_data_content` and then does what
    the caller does with its result (clear `validity`, free `n`, or stop with
    `status = "error"`);
  * `lyd_validate`: the tree is complete and every node dirty; `Validate(n)`
    runs `lyv_data_context` and then `lyv_data_content` at each node in
    document order, so later siblings are present but still dirty. It is not
    used for filter data (a discarded node would leave the steps of its
    subtree on freed nodes, which is the caller's business, outside `src/`).
* `lyv_data_content` is one operator following the code's order of checks and
  early returns; `Instances`, `FilterInstance` and `UniqueLoop` are its
  instance-count part, `filter_merge`/`MergeFrom`/`MatchIn` the nested loops
  of `filter_merge`, with the freed pointer left in `s1` read as either
  intact memory or a different schema (the two outcomes of the undefined read).
  `RpcOutOfOrder` is the RPC argument check of `lyv_data_context`, reading the
  data predecessor of the node wherever it stands.
* Allocation failure. `Faults` is the set of outcomes of the allocations
  one call may make: `merge` names the `to` nodes whose `ly_set_new`/
  `ly_set_add` in `filter_merge` fails (l. 164-203), `must` says whether
  `unres_data_add` of the must entry fails (l. 665), and `intact` is the
  outcome of the freed-pointer read. With `AllocFaults` at most one
  allocation fails per call; without it none does. A failing set
  allocation sets `enomem` and returns at once; the enclosing
  `filter_merge` ignores the result (l. 234) and goes on, and the caller
  of `lyv_data_content` sees `ly_errno` set and stops the pass.
* `IdentStatusFail` is `lyp_check_status` on an identityref value
  (l. 654-660): the pairs (schema, value) of `IdentClash` name an identity
  whose status the leaf may not reference.
* `flagged` holds the leaves whose `value_type` still carries the
  unresolved flag (`LY_TYPE_*_UNRES`) of an earlier pass. A tree given to
  `lyd_validate` may have any of its reference leaves flagged.
  `lyv_data_context` masks the flag off (l. 359) before it compares the type
  and queues the reference.
* `Init` takes every document the layout of the MC module allows (any subset
  of the layout's nodes closed under the parent relation) and every value.

### The resolver and value changes (`Resolution`)

`Resolve(e)` is one step of `resolve_unres_data` once the document is read
(`status = "done"`). A leafref or instance-identifier entry resolves when a
live node of its target schema `RefTarget` has the leaf's value; the leafref
keeps that node in `lref`. Otherwise the pass fails, except for an
instance-identifier without require-instance. A when or must entry may
hold or fail, since XPath is not interpreted. `ChangeValue(n, v)` is a caller
that gives a reference leaf of the resolved tree a new value, replaces its
stored pointer, and calls `lyv_data_value`; if the call fails, the caller
reports an error. `MaxEdits` bounds the changes.

Fairness. `RSpec` has `WF` on `Resolve` only. `resolve_unres_data` runs
over the whole queue once the parser returns, so a pending entry cannot wait
forever. The caller's changes are not fair: they may never come. The pass
itself needs no fairness for the property, which starts at the end of the
document.

### The refinement

`FilterSemantics` gives a filter forest a meaning: a function from every valid
data tree (over `DataSchemas`) to the set of data items selected. A data
item is `<<schema, value, parent item>>`; a list instance carries its key
value, so the instances of a list are told apart by their single key, and a
valid data tree has one key child per instance, with that value.
In a sibling set every content match node must match a data sibling, or
nothing is selected there; a set of content match nodes alone selects all the
data siblings with their subtrees; otherwise the matched content, the subtree
of every instance named by a selection node (leaf, leaf-list, anyxml, empty
container) and every instance under which its containment node selects
something are selected; filter nodes of one schema select the union of what
each selects. `FilterRefinement` maps the concrete state to `FilterSelect`:
`written` is the forest of every node the producer has created, whether kept
or discarded, and `sel` is the meaning of the forest left in `t`. A parser
step that creates a node is a `Read`; every other step, and in particular
every `Close` that merges, frees or discards, must be a `Normalise`, which
keeps `sel`.

## 3. Runs

| Run | cfg | Expect | What it shows |
|---|---|---|---|
| `filter_siblings` | `MCFilterSiblings.cfg` | pass | Leaf-list and anyxml duplicates (`c { ll a ll a ll }`) end `FilterNormalized` for every arrival order and value. |
| `filter_leaf_triple` | `MCFilterLeaves.cfg` | violation | `FilterNormalized`: over `c { x x x }`, `c{x=v1, x=v2, x=v2}` keeps both `x=v2`: a new leaf is compared only with the first earlier instance and the loop stops at l. 555, where spec 4.2 says equal content match leaves collapse to one. |
| `filter_lists` | `MCFilterLists.cfg` | pass | Three list instances `l { lk y }` under one `c`: `TypeOK`, `FilterNormalized` (merged into the first equal earlier instance) and `SelectionPreserved` (every merge, free and discard keeps what the filter selects from every data tree with two instances). |
| `strict_config` | `MCStrict.cfg` | pass | `DataValid`: a configuration pass, by the parser or by `lyd_validate`, that ends without error leaves a valid tree (compared with a reference written from the schema, not from the checks). `RefsResolved` (under `RSpec`): every leafref and required instance-identifier of a document read without error eventually names an existing node, or an error is reported, including after a value change. |
| `filter_triple_select` | `MCFilterTripleSel.cfg` | pass | `SelectionPreserved`: with up to three top-level containers, every merge, free and discard keeps what the filter selects from every data tree. |
| `rpc_order` | `MCRpc.cfg` | pass | `ArgsInSchemaOrder`: comparing each RPC argument with its data predecessor only is enough for the whole argument list to be in schema order, whether the parser reads the arguments or `lyd_validate` checks a complete RPC tree. |
| `filter_merge_uaf` | `MCFilterUaf.cfg` | violation | `NoUseAfterFree`: `filter_merge` reads `s1->set.d[i]` after freeing it (l. 239, read at l. 224): to `c{l{lk=v1}}`, from `c{l, x}`. |
| `filter_unres_dangling` | `MCFilterUnres.cfg` | violation | `UnresNodesLive`: a must entry (l. 665) outlives its node when a later empty `c` makes `filter_merge` free it (spec section 9 open question). |
| `filter_compare_asym` | `MCFilterAsym.cfg` | violation | `FilterCompareSymmetric`: `c{x=v1, x=v2, x=v2}` then `c{x=v1, x=v2}` are both kept, while the other order merges them (pair counting at l. 94, over the two equal `x=v2` that l. 541-555 let stand; spec section 8 lists the comparator as symmetric). |
| `filter_container_triple` | `MCFilterTriple.cfg` | violation | `FilterContainersNormalized`: `c{x}`, `c{x=v1}`, `c{}`: the third is merged into the first, which becomes a selection node, and the redundant second stays (l. 523). |
| `filter_alloc_partial` | `MCFilterAtomic.cfg` | violation | `FailedCallLeavesTree`: `c{l{lk}}` then `c{l{lk}, x}`; the set allocation of the nested merge of `l` fails, `filter_merge` ignores it (l. 234) and splices `x` into the kept `c`, and the call reports an error with the tree changed (spec 6/7: no partial success). |
| `filter_siblings_narrow` | `MCFilterSiblingsWide.cfg` | violation | `SelectionNeverNarrows`: `c{ll, ll=v1}` becomes `c{ll=v1}` (l. 614); with a following `a` the kept filter returns only `ll=v1` where the written one returns every `ll`. Checked over the sub-layout `c { ll ll a }` (`MCNodesNarrow`). |

Bounds. Two values `v1`, `v2` are enough to tell equal from different
values, and with `NoValue` give selection and content-match nodes. The layouts
have at most 10 nodes; every subset of them is a document, so one, two or
three instances of a schema arrive in every order the layout allows, and the
nested merges of `filter_merge` (a list inside a container) are reached. The
triple layout has three containers with three, two and one leaves: enough
for a container to meet an equal instance that is not the first, and for a
container to keep two leaves with one value. The data trees of the refinement
are all valid trees over the layout's schema, with both values (for lists,
up to two instances, one per key value). Allocation failure is enabled
only in `filter_alloc_partial`: with it, every step has up to a dozen fault
outcomes, which the refinement's action property evaluates one by one, and
the list run no longer finishes in minutes. Each pass
has at most two steps per node of the layout. The strict run allows one value change
(`MaxEdits = 1`). It is made after resolution and replaces the changed
leaf's pointer, so a second change starts from the same kind of state as
the first. Both values reach a change that keeps a target and one that
loses it.

Deadlock checking is off: the pass really ends (the document is consumed or
an error stops it). Termination of a pass is not stated: every call of the
code is synchronous and returns within the step that makes it, so it holds by
the producer's loop whatever `validation.c` does. What does depend on the
code is whether the references of an accepted document end up resolved.
That needs `lyv_data_context` to queue them and `lyv_data_value` to report a
failed resolution, so it is the liveness property `RefsResolved`.

Each property of a passing run has a mutant (PROJECT.json) that TLC catches:
a `lyd_free` that keeps the subtree live (`TypeOK`), a `copy` flag ignored
in `filter_merge` and a list loop that stops after the first instance
(`FilterNormalized`, over lists and over leaf-lists), a `filter_compare` that compares the
schemas but not the values of content match nodes (`SelectionPreserved` over
lists), a status check of identity values done only under
`LYD_OPT_OBSOLETE` (`DataValid`), a case comparison that ignores which case
and a key loop one key short (`DataValid`), a `filter_merge` that keeps `to`'s
children when `from` selects everything (`SelectionPreserved`), an RPC
check that reads the node itself as its predecessor (`ArgsInSchemaOrder`),
a `lyv_data_context` that compares `value_type` without masking the
unresolved flag, and a `lyv_data_value` that passes over a failed
resolution (`RefsResolved`).

## 4. Not modelled and why

* Callers of `lyv_data_value` other than a change of a reference's own
  value. A change of a leafref's target (`tree_data.c`) leaves the
  referrer's `value.leafref` stale, and `lyv_data_value` skips a leafref
  whose pointer is set (l. 313). That is the caller's business, outside
  `src/` and the spec.
* The XPath of when and must conditions, and the resolver's retry of
  entries that depend on each other. Each entry is resolved once, in any
  order.
* Allocation failure of `unres_data_add` in `lyv_data_context` (leafref,
  instid, when): it only makes the call fail before the node is used; the
  must entry's failure (l. 665) and the set allocations of `filter_merge`
  are modelled.
* Identities as schema objects: the status relation is the constant
  `IdentClash`, not derived from modules.
* `lyd_validate` over filter data (see above).
* Error kinds and messages (`LOGVAL`): only "error" vs "discard" vs "ok".
* Lists with more than one key in the selection semantics (the layouts have
  single-key lists).
* Two filter leaves with different content match values are both kept
  (l. 527-541) where spec 4.2 says the new one is discarded; under the
  selection semantics the code is right (both must match, so nothing is
  selected) and discarding one would widen the filter, so this is recorded
  here rather than checked as a violation.
* The pointer work of the splice in `filter_merge` (l. 270-276: `prev`,
  `next` and the `prev` ring of the first child). The model unlinks and
  appends a node in one operator (`Move`), so the tree shape holds by
  construction there and is not stated as a property; a slip in that
  pointer arithmetic is out of the model's reach.
* Spec 4.2 lets a content match leaf replace a selection leaf (l. 532)
  although the kept filter then selects all of the parent's children where
  the written one selected less; the spec endorses it, so only narrowing
  (`SelectionNeverNarrows`) is checked over that layout.

## 5. Plan

1. (done) `Validation`: the pass, the context and content validators, filter
   compare and merge; the parser and `lyd_validate` producers.
2. (done) `FilterSemantics`/`FilterSelect`/`FilterRefinement`: the abstract
   selection specification and the refinement.
3. (done) Lists in `FilterSemantics`; allocation failure; identity status.
4. A list nested in a list, to reach `filter_merge` two levels deep under
   the refinement.
5. (done) `Resolution`: the deferred resolver and `lyv_data_value`, with
   the unresolved flag of `lyd_validate`'s trees and weak fairness.
6. `EDIT`/`GET`/`GETCONFIG` modes with read-only and disabled schema nodes.
