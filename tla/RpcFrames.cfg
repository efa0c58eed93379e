SPECIFICATION Spec
CONSTANTS
  \* the service
  Method <- MCMethod
  EmptyName = ""
  NameLen <- MCNameLen
  Body = {"b1"}
  Reply = {"r0", "r1"}
  NoReply = "r0"
  ErrText = {"", "byzero", "verbose"}
  NoErr = ""
  ErrLen <- MCErrLen
  Registered = {"div"}
  Handle <- MCHandle
  BodyParses <- MCBodyParses
  ReplyParses <- MCReplyParses
  \* the wire format
  MaxHeaderLen = 10
  HeaderOverhead = 4
  NotFoundLen = 2
  BodyAsHeader <- MCBodyAsHeader
  ReplyAsHeader <- MCReplyAsHeader
  HeaderAsBody = "b1"
  HeaderAsReply = "r1"
  \* sentinels
  NotFound = NotFound
  LocalErr = LocalErr
  NoSum = NoSum
  HeaderSum = HeaderSum
  Malformed = Malformed
  None = None
  NoConn = NoConn
  BadConn = BadConn
  \* bounds
  Conns = {k1}
  Backlog = 2
  MaxFaults = 0
  Client = {c1}
  MaxCalls = 1
  Workers = 1
INVARIANT FramesInRole
