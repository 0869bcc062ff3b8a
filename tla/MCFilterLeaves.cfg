\* Repeated filter leaves x under one container: equal content match values
\* collapse to one whatever values stand between them (spec 4.2).


CONSTANTS
  Root = Root
  NoSchema = NoSchema
  NoValue = NoValue
  Schemas <- MCSchemas
  SKind <- MCSKind
  SParent <- MCSParent
  ListKeys <- MCListKeys
  LaterSiblings <- MCLater
  DataSchemas <- MCDataSchemas
  Disabled = {}
  ReadOnly = {}
  RpcArgs = {}
  WhenSchemas = {}
  MustSchemas = {}
  Leafref = {}
  InstId = {}
  Mandatory = {}
  ObsoleteStatus = {}
  ObsoleteTypeLeaves = {}
  IdentClash = {}
  Nodes <- MCNodesLeaves
  LParent <- MCLParentLeaves
  NodeSchema <- MCNodeSchemaLeaves
  Vals = {"v1", "v2"}
  Mode = "FILTER"
  ObsoleteOpt = FALSE
  Producers = {"parser"}
  AllocFaults = FALSE
SPECIFICATION Spec
CHECK_DEADLOCK FALSE
INVARIANTS
  FilterNormalized
