SPECIFICATION FairSpec
CONSTANTS
  Timers = {1, 2, 3}
  Repeating = {2}
  Interval <- MCInterval
  Droppable = {1}
  Whens = {1, 2}
  MaxTime = 3
  MaxSets = 1
INVARIANTS
  EachTimerIsFiledOnce
  ArmedForEarliest
  DanglesOnlyIfDropped
PROPERTIES
  NeverEarly
  EveryTimerRuns
CHECK_DEADLOCK FALSE
