\* The last clone of the Runtime is dropped by a worker.
CONSTANTS
  a = a
  b = b
  d = d
  e = e
  main = main
  other = other
  Tasks = {a, b, d}
  Callers = {main}
  NoTask = NoTask
  NumWorkers = 1
  HelpLimit = 2
  Workloads <- DetachedPrograms
SPECIFICATION Spec
INVARIANT
  DropWaitsForWorkers
