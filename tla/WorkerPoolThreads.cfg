\* three equal tasks, two threads, one of them kept alive
CONSTANTS
  MaxTasks = 3
  MaxLive = 2
  Priority = {0}
  MinThreads = 1
  MaxThreads = 2
  IdleTimeout = TRUE
  Cloneable = {TRUE}
SPECIFICATION Spec
INVARIANTS
  TypeOK
  IdleSound
  WorkConserving
  NoTaskLost
  BooksAgree
PROPERTIES
  AbortedNeverSent
  CrashIsolated
  DrainTruthful
