\* Normalisation of repeated leaf-list and anyxml instances under one container.


CONSTANTS
  Root = Root
  NoSchema = NoSchema
  NoValue = NoValue
  Schemas <- MCSchemas
  SKind <- MCSKind
  SParent <- MCSParent
  ListKeys <- MCListKeys
  LaterSiblings <- MCLater
  DataSchemas <- MCDataSchemas
  Disabled = {}
  ReadOnly = {}
  RpcArgs = {}
  WhenSchemas = {}
  MustSchemas = {}
  Leafref = {}
  InstId = {}
  Mandatory = {}
  ObsoleteStatus = {}
  ObsoleteTypeLeaves = {}
  IdentClash = {}
  Nodes <- MCNodes
  LParent <- MCLParent
  NodeSchema <- MCNodeSchema
  Vals = {"v1", "v2"}
  Mode = "FILTER"
  ObsoleteOpt = FALSE
  Producers = {"parser"}
  AllocFaults = FALSE
SPECIFICATION Spec
CHECK_DEADLOCK FALSE
INVARIANTS
  FilterNormalized
