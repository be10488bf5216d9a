\* Two workers, two user threads; nested block_on, detached tasks, panics.
CONSTANTS
  a = a
  b = b
  d = d
  e = e
  main = main
  other = other
  Tasks = {a, b, d}
  Callers = {main, other}
  NoTask = NoTask
  NumWorkers = 2
  HelpLimit = 2
  Workloads <- SafetyPrograms
SPECIFICATION Spec
INVARIANTS
  TypeOK
  NothingMislaid
  NoTaskTwice
  OnlyShutdownDestroys
  BlockOnIsSafe
  DropIsFinal
  StealsOnlyWhenDry
  CountsNoMoreThanDone
PROPERTIES
  KeepsContract
  
