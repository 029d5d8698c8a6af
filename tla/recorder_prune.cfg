\* One camera with a task, one notice at a time, two values that an unassigned
\* policy can have.
SPECIFICATION SafeSpec
CONSTANTS
  Camera = {c1}
  DemoCamera = {c1}
  Policy = {q1, q2}
  DemoPolicy = q1
  Pid = {p1, p2}
  Worker = {w1}
  PidReuse = FALSE
  None = None
PROPERTIES
  PruneOnlyGone
