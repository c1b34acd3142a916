\* a task waits for its thread to boot, a later one does not
CONSTANTS
  MaxTasks = 2
  MaxLive = 2
  Priority = {0}
  MinThreads = 0
  MaxThreads = 2
  IdleTimeout = TRUE
  Cloneable = {TRUE}
SPECIFICATION Spec
PROPERTIES
  SubmissionOrder
