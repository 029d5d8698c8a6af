SPECIFICATION MCSpec
CONSTANTS
  Client = {c1, c2}
  Worker = {w1}
  Detached = {t1, t2}
  Expired = 1
  Half = 2000
  TickLength = 1000
  Prompt = TRUE
  Caller = {a, b, d}
  Nobody = Nobody
  Updater = {u1, u2}
  MainThread = main
  Item = {i1, i2}
  MaxVersion = 3
  Locked = TRUE
  SaveMayFail = TRUE
  None = None
  Absent = Absent
  Empty = Empty
  Torn = Torn
INVARIANTS
  ServerTypeOK
  ServiceDownFirst
  OnePass
  OwnAnswer
  ListIsWhole
PROPERTIES
  ShutsDown
  WaitingIsServed
  PassesRecur
  CallsEnd
