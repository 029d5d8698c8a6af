\* The camera list is replaced while a pass copies it.
SPECIFICATION SafeSpec
CONSTANTS
  Camera = {c1}
  Policy = {q1}
  Stray = stray
  Retention = {0}
  MaxDay = 0
  Notice = {n1}
  None = None
PROPERTIES
  OnlyOrphansRemoved
