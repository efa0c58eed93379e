SPECIFICATION FairSpec
CONSTANTS
  \* the service
  Method <- MCMethodFew
  EmptyName = ""
  NameLen <- MCNameLen
  Body = {"b2"}
  Reply = {"r0", "r1"}
  NoReply = "r0"
  ErrText = {"", "byzero", "verbose"}
  NoErr = ""
  ErrLen <- MCErrLen
  Registered = {"div"}
  Handle <- MCHandle
  BodyParses <- MCBodyParses
  ReplyParses <- MCReplyParses
  \* the wire format
  MaxHeaderLen = 10
  HeaderOverhead = 4
  NotFoundLen = 2
  BodyAsHeader <- MCBodyAsCall
  ReplyAsHeader <- MCReplyAsHeader
  HeaderAsBody = "b2"
  HeaderAsReply = "r1"
  \* sentinels
  NotFound = NotFound
  LocalErr = LocalErr
  NoSum = NoSum
  HeaderSum = HeaderSum
  Malformed = Malformed
  None = None
  NoConn = NoConn
  BadConn = BadConn
  \* bounds
  Conns = {k1, k2}
  Backlog = 2
  MaxFaults = 1
  Client = {c1, c2}
  MaxCalls = 1
  Workers = 1
PROPERTY CallReturnsInTurn
\* both sides may wait for each other once an answer was dropped
CHECK_DEADLOCK FALSE
