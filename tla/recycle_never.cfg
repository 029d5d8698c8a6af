\* The policy member of the camera is whatever it was; all policies keep
\* recordings for ever.
SPECIFICATION SafeSpec
CONSTANTS
  Camera = {c1}
  Policy = {q1}
  Stray = stray
  Retention = {0}
  MaxDay = 1
  Notice = {n1}
  None = None
PROPERTIES
  OnlyExpiredUnlinked
