SPECIFICATION Spec
CONSTANT Paths <- MCPaths
INVARIANTS
  PreparedRight
  GrowthCounted
