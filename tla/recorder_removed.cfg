\* One camera, one notice thread: a task is removed while its recorder runs.
SPECIFICATION Spec
CONSTANTS
  Camera = {c1}
  DemoCamera = {c1}
  Policy = {q1, q2}
  DemoPolicy = q1
  Pid = {p1, p2}
  Worker = {w1}
  PidReuse = FALSE
  None = None
PROPERTIES
  RemovedIsStopped
