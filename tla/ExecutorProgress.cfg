\* Liveness, without panics and without crossed block_on.
CONSTANTS
  a = a
  b = b
  d = d
  e = e
  main = main
  other = other
  Tasks = {a, b}
  Callers = {main}
  NoTask = NoTask
  NumWorkers = 2
  HelpLimit = 2
  Workloads <- ProgressPrograms
SPECIFICATION FairSpec
PROPERTIES
  TasksResolve
  CallersReturn
  DropCompletes
