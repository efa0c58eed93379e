SPECIFICATION NamesSpec
CONSTANTS
  UpperOf <- MCUpperOf
  Digit = {"2"}
  Service <- MCService
  Descriptor <- MCDescriptor
  Of <- MCOf
  ServiceName <- MCServiceName
  MethodNames <- MCMethodNames
  NULL = NULL
  MaxLen = 6
  \* the pool
  Files = {"a", "b", "c", "d", "e"}
  NoFile = "nofile"
  Symbols = {"p", "p.M", "p.M.N", "M", "M.N", "q", "q.p", "q.p.M"}
  NoSymbol = "none"
  ParentOf <- MCParentOf
  Databases <- MCDatabases
  MaxLookups = 2
  MaxDepth = 6
INVARIANTS
  CamelTwice
  DispatchOwn
  CallsArrive
  NothingDangles
  LinksAsWritten
  RefusedForAFault
PROPERTY LookupsEnd
\* a server that is destroyed stays so, names end at MaxLen, lookups at MaxLookups
CHECK_DEADLOCK FALSE
