SPECIFICATION FairSpec
CONSTANTS
  Threads = {t1, t2}
  Functors = {f1, f2, f3}
  Channels = {c1, c2}
INVARIANTS
  TypeOK
  QueuedIsRunInOrder
  NoSilentBlock
PROPERTIES
  ImplementsTaskQueue
  QueuedIsEventuallyRun
  QuitEndsLoop
