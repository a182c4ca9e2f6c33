SPECIFICATION Spec
CONSTANTS
  Threads = {t1}
  Functors = {f1, f2}
  Channels = {c1}
INVARIANT
  WakeupWakesPoll
