\* Filter normalisation of leaves, leaf-lists and anyxml never narrows the selection.
\* under one container, over the sub-layout c { ll ll a }.


CONSTANTS
  Root = Root
  NoSchema = NoSchema
  NoValue = NoValue
  Schemas <- MCSchemas
  SKind <- MCSKind
  SParent <- MCSParent
  ListKeys <- MCListKeys
  LaterSiblings <- MCLater
  DataSchemas <- MCDataSchemas
  Disabled = {}
  ReadOnly = {}
  RpcArgs = {}
  WhenSchemas = {}
  MustSchemas = {}
  Leafref = {}
  InstId = {}
  Mandatory = {}
  ObsoleteStatus = {}
  ObsoleteTypeLeaves = {}
  IdentClash = {}
  Nodes <- MCNodesNarrow
  LParent <- MCLParentNarrow
  NodeSchema <- MCNodeSchemaNarrow
  Vals = {"v1", "v2"}
  Mode = "FILTER"
  ObsoleteOpt = FALSE
  Producers = {"parser"}
  AllocFaults = FALSE
SPECIFICATION Spec
CHECK_DEADLOCK FALSE
PROPERTY
  SelectionNeverNarrows
