SPECIFICATION RegistrySpec
CONSTANTS
  UpperOf <- MCUpperOf
  Digit = {"2"}
  Service <- MCService
  Descriptor <- MCDescriptor
  Of <- MCOf
  ServiceName <- MCServiceName
  MethodNames <- MCMethodNames
  NULL = NULL
  MaxLen = 2
INVARIANT CamelAsDocumented
\* a server that is destroyed stays so
CHECK_DEADLOCK FALSE
