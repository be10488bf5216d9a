\* Starting a worker thread fails.
CONSTANTS
  a = a
  b = b
  d = d
  Tasks = {a, b, d}
  Callers = {1}
  NoTask = NoTask
  MaxThreads = 6
  NumWorkers = 2
  Workloads <- NestedPrograms
SPECIFICATION Spec
PROPERTY
  FailedStartIsAnError
