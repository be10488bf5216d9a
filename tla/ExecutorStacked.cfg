\* block_on buries the code that it depends on.
CONSTANTS
  a = a
  b = b
  d = d
  e = e
  main = main
  other = other
  Tasks = {a, b, d, e}
  Callers = {main}
  NoTask = NoTask
  NumWorkers = 1
  HelpLimit = 2
  Workloads <- StackedPrograms
SPECIFICATION FairSpec
PROPERTY
  HelpingAvoidsDeadlock
