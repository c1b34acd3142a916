\* a queue behind one thread, which may be shed and started again
CONSTANTS
  MaxTasks = 2
  MaxLive = 2
  Priority = {0}
  MinThreads = 0
  MaxThreads = 1
  IdleTimeout = TRUE
  Cloneable = {TRUE, FALSE}
SPECIFICATION FairSpec
PROPERTIES
  EveryTaskSettles
  DrainResolves
  DestroyResolves
  ExcessShed
