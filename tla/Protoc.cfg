SPECIFICATION MCSpec
CONSTANTS
  Directives <- MCDirectives
  FileNames <- MCFileNames
  Texts <- MCTexts
  Points = {"p", "q"}
  NoPoint = "none"
  NoName = ""
  Manifest = "META-INF/MANIFEST.MF"
  Archives = {"a.jar"}
  Jars = {"a.jar"}
  MaxStreams = 3
  MaxText = 4
  \* the plugin
  InputLen = 5
  OutputLen = 4
  ParseableAt = {0, 2, 4}
  Capacity = 2
  ReadSize = 3
  ClosedAtStart = {2}
INVARIANTS
  FailureTouchesNothing
  SuccessIsWritten
  InsertedInPlace
  SuccessIsWhole
  PluginHasPipes
PROPERTY CommunicateReturns
\* Run returns, and a plugin that writes before it reads stops both processes
CHECK_DEADLOCK FALSE
