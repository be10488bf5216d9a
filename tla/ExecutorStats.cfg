\* Tasks that block_on completes.
CONSTANTS
  a = a
  b = b
  d = d
  e = e
  main = main
  other = other
  Tasks = {a, b}
  Callers = {main}
  NoTask = NoTask
  NumWorkers = 1
  HelpLimit = 2
  Workloads <- FanOutPrograms
SPECIFICATION Spec
INVARIANT
  CountsEveryTask
