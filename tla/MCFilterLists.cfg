\* Normalisation of repeated list instances under one container, with
\* allocations never failing: tree shape, normal form and selection.


CONSTANTS
  Root = Root
  NoSchema = NoSchema
  NoValue = NoValue
  Schemas <- MCSchemas
  SKind <- MCSKind
  SParent <- MCSParent
  ListKeys <- MCListKeys
  LaterSiblings <- MCLater
  Disabled = {}
  ReadOnly = {}
  RpcArgs = {}
  WhenSchemas = {}
  MustSchemas = {}
  Leafref = {}
  InstId = {}
  Mandatory = {}
  ObsoleteStatus = {}
  ObsoleteTypeLeaves = {}
  IdentClash = {}
  DataSchemas <- MCDataSchemas
  Nodes <- MCNodes
  LParent <- MCLParent
  NodeSchema <- MCNodeSchema
  Vals = {"v1", "v2"}
  Mode = "FILTER"
  ObsoleteOpt = FALSE
  Producers = {"parser"}
  AllocFaults = FALSE
SPECIFICATION Spec
CHECK_DEADLOCK FALSE
INVARIANTS
  TypeOK
  FilterNormalized
PROPERTIES
  SelectionPreserved
