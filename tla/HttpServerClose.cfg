\* close() after an answer
CONSTANTS
  Conn = {c1}
  Kinds = {"plain"}
  MaxRequests = 1
  MaxChunk = 2
  MaxHeaderSize = 3
  PauseAt = 2
  HeadersTimeout = TRUE
  KeepAliveTimeout = TRUE
SPECIFICATION Spec
INVARIANTS
  IdleDestroyed
