\* A queue with room for two, for programs of two tasks and of three.
CONSTANTS
  a = a
  b = b
  d = d
  main = main
  other = other
  Tasks = {a, b, d}
  Callers = {main, other}
  NoTask = NoTask
  Capacity = 2
  BatchLimit = 2
  Workloads <- AllPrograms
SPECIFICATION FairSpec
INVARIANTS
  TypeOK
  NothingMislaid
  NoTaskTwice
  RoomForAll
  LeftoversNeedCycle
PROPERTIES
  KeepsContract
  CallersReturn
