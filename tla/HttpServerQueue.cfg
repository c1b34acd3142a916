\* requests shorter than a chunk, answered one by one
CONSTANTS
  Conn = {c1}
  Kinds = {"plain"}
  MaxRequests = 8
  MaxChunk = 4
  MaxHeaderSize = 3
  PauseAt = 1
  HeadersTimeout = TRUE
  KeepAliveTimeout = TRUE
SPECIFICATION Spec
INVARIANTS
  QueueBounded
