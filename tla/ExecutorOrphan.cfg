\* A task that a worker polls panics while another awaits it.
CONSTANTS
  a = a
  b = b
  d = d
  e = e
  main = main
  other = other
  Tasks = {a, b}
  Callers = {main}
  NoTask = NoTask
  NumWorkers = 1
  HelpLimit = 2
  Workloads <- OrphanPrograms
SPECIFICATION FairSpec
PROPERTY
  BlockOnReturnsOrPanics
