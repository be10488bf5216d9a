\* One user thread, two workers per runtime, up to three generations.
CONSTANTS
  a = a
  b = b
  d = d
  Tasks = {a, b, d}
  Callers = {1}
  NoTask = NoTask
  MaxThreads = 6
  NumWorkers = 2
  Workloads <- AllPrograms
SPECIFICATION FairSpec
INVARIANTS
  TypeOK
  TasksStayHome
  GoneIsFinal
  OnlyFailedStartsLeak
PROPERTIES
  KeepsContract
  UsersEnd
