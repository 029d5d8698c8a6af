\* One camera, two notice threads that may run at any time, one policy besides
\* numbers of none, retentions 0 and 1, three days.
SPECIFICATION Spec
CONSTANTS
  Camera = {c1}
  Policy = {q1}
  Stray = stray
  Retention = {0, 1}
  MaxDay = 2
  Notice = {n1, n2}
  None = None
PROPERTIES
  
  
  ExpiredRecycled
  OrphansRecycled
