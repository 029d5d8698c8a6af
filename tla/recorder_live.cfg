\* Two cameras with a task each, two pids, no notice: dispatcher, signal thread
\* and kernel alone.
SPECIFICATION Spec
CONSTANTS
  Camera = {c1, c2}
  DemoCamera = {c1, c2}
  Policy = {q1}
  DemoPolicy = q1
  Pid = {p1, p2}
  Worker = {}
  PidReuse = FALSE
  None = None
PROPERTIES
  ZombiesReaped
  KeepsRecording
  StopsRecording
