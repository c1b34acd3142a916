\* one connection, every pair of requests, every way to cut their stream
CONSTANTS
  Conn = {c1}
  Kinds = {"plain", "close", "body", "blank", "refused", "bare", "long"}
  MaxRequests = 2
  MaxChunk = 3
  MaxHeaderSize = 3
  PauseAt = 2
  HeadersTimeout = TRUE
  KeepAliveTimeout = TRUE
SPECIFICATION FairSpec
INVARIANTS
  Framing
  Answers
  NoStall
  HeaderClock
PROPERTIES
  ConnectionsEnd
