\* Two threads, three tasks, a queue that can be full.  A thread that locks
\* again in a destructor stops, and so may everything.
CONSTANTS
  a = a
  b = b
  d = d
  s = s
  t = t
  Threads = {s, t}
  Tasks = {a, b, d}
  Reentrant = {d}
  Boxes = {x1, x2, x3, x4}
  Capacity = 1
  NoThread = NoThread
  NoTask = NoTask
  Outside = Outside
SYMMETRY Symmetric
SPECIFICATION Spec
CHECK_DEADLOCK FALSE
INVARIANTS
  TypeOK
  WakersAreSound
  OnlyWakeLeaks
  DeadOwnNothing
  LeftoversNeedWaker
  LockedOnlyToReject
