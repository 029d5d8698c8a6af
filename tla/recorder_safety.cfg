\* Two cameras, both with a task, one notice thread, three pids.
SPECIFICATION SafeSpec
CONSTANTS
  Camera = {c1, c2}
  DemoCamera = {c1, c2}
  Policy = {q1}
  DemoPolicy = q1
  Pid = {p1, p2, p3}
  Worker = {w1}
  PidReuse = FALSE
  None = None
SYMMETRY PidCameraSymmetry
INVARIANTS
  RecorderInv
  AtMostOneRecorder
  NoLostRecorder
  ChildIsOwn
PROPERTIES
  OnlyMeantKilled
  ImplementsContract
