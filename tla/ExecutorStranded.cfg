\* A task in the deque of a worker that waits in block_on.
CONSTANTS
  a = a
  b = b
  d = d
  e = e
  main = main
  other = other
  Tasks = {a, b, d}
  Callers = {main}
  NoTask = NoTask
  NumWorkers = 2
  HelpLimit = 2
  Workloads <- WaitingPrograms
SPECIFICATION FairSpec
PROPERTY
  IdleWorkersSteal
