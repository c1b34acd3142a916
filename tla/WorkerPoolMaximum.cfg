\* a thread that shuts down beside its successor
CONSTANTS
  MaxTasks = 2
  MaxLive = 2
  Priority = {0}
  MinThreads = 0
  MaxThreads = 1
  IdleTimeout = TRUE
  Cloneable = {TRUE}
SPECIFICATION Spec
INVARIANTS
  ThreadsBounded
