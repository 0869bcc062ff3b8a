\* A pass over configuration data, by the parser or by lyd_validate, that ends without error leaves a valid tree, and its
\* references resolve, through the deferred resolver and later value changes.
CONSTANTS
  Root = Root
  NoSchema = NoSchema
  NoValue = NoValue
  Schemas <- MCSchemas
  SKind <- MCSKind
  SParent <- MCSParent
  ListKeys <- MCListKeys
  LaterSiblings <- MCLater
  Disabled = {}
  ReadOnly = {}
  RpcArgs = {}
  WhenSchemas = {"r"}
  MustSchemas = {"l"}
  Leafref = {"r"}
  InstId = {"m"}
  Mandatory = {"r"}
  ObsoleteStatus = {}
  ObsoleteTypeLeaves = {}
  IdentClash <- MCIdentClash
  Nodes <- MCNodes
  LParent <- MCLParent
  NodeSchema <- MCNodeSchema
  Vals = {"v1", "v2"}
  Mode = "CONFIG"
  ObsoleteOpt = FALSE
  Producers = {"parser", "validate"}
  AllocFaults = FALSE
  RefTarget <- MCRefTarget
  InstReq = {"m"}
  MaxEdits = 1
SPECIFICATION RSpec
CHECK_DEADLOCK FALSE
INVARIANTS
  DataValid
PROPERTIES
  RefsResolved
