\* Allocation failure inside filter normalisation: a failed call and
\* the tree it leaves.
CONSTANTS
  Root = Root
  NoSchema = NoSchema
  NoValue = NoValue
  Schemas <- MCSchemas
  SKind <- MCSKind
  SParent <- MCSParent
  ListKeys <- MCListKeys
  LaterSiblings <- MCLater
  Disabled = {}
  ReadOnly = {}
  RpcArgs = {}
  WhenSchemas = {}
  MustSchemas = {"l"}
  Leafref = {}
  InstId = {}
  Mandatory = {}
  ObsoleteStatus = {}
  ObsoleteTypeLeaves = {}
  IdentClash = {}
  Nodes <- MCNodes
  LParent <- MCLParent
  NodeSchema <- MCNodeSchema
  Vals = {"v1", "v2"}
  Mode = "FILTER"
  ObsoleteOpt = FALSE
  Producers = {"parser"}
  AllocFaults = TRUE
SPECIFICATION Spec
CHECK_DEADLOCK FALSE
PROPERTIES
  FailedCallLeavesTree
