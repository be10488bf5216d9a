\* The slot of a task that is being polled is taken.
CONSTANTS
  a = a
  b = b
  d = d
  main = main
  other = other
  Tasks = {a, b, d}
  Callers = {main, other}
  NoTask = NoTask
  Capacity = 1
  BatchLimit = 2
  Workloads <- CrowdPrograms
SPECIFICATION Spec
PROPERTY
  PendingIsRequeued
