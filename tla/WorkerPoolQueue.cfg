\* one thread, so that tasks queue: priorities, aborts, payloads that do not clone
CONSTANTS
  MaxTasks = 3
  MaxLive = 1
  Priority = {0, 1}
  MinThreads = 0
  MaxThreads = 1
  IdleTimeout = FALSE
  Cloneable = {TRUE, FALSE}
SPECIFICATION Spec
INVARIANTS
  AbortedCounted
  LoopsAgree
PROPERTIES
  QueueOrder
