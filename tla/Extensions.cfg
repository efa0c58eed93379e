SPECIFICATION PoolSpec
CONSTANTS
  Files = {"a", "b", "c", "d", "e"}
  NoFile = "nofile"
  Symbols = {"p", "p.M", "p.M.N", "M", "M.N", "q", "q.p", "q.p.M"}
  NoSymbol = "none"
  ParentOf <- MCParentOf
  Databases <- MCDatabases
  MaxLookups = 2
  MaxDepth = 6
INVARIANT ExtensionsKnown
\* lookups end at MaxLookups
CHECK_DEADLOCK FALSE
