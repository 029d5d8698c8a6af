\* The camera list, one notice at a time, crashes anywhere, failing downloads
\* and failing saves.
SPECIFICATION SyncSpec
CONSTANTS
  Updater = {w1}
  MainThread = main
  Item = {i1, i2}
  MaxVersion = 4
  Locked = FALSE
  SaveMayFail = TRUE
  None = None
  Absent = Absent
  Empty = Empty
  Torn = Torn
INVARIANTS
  DurableBeforeUse
  CacheAgrees
PROPERTIES
  Converges
