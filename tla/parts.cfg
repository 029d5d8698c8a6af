SPECIFICATION MCSpec
CONSTANTS
  Server = {s1, s2, s3}
  Inode = {n1, n2, n3}
  Daemon = FALSE
  Nil = Nil
  Week <- MCWeek
  Instant <- MCInstant
  Root <- MCRoot
  DirName = {"d", "e"}
  FileName = {"f", ".h", "stop"}
  Dot = {".h"}
  Tilde = {}
  StopName = "stop"
  Expire = 1
  QueueLimit = 2
  MaxOps = 3
  MaxSeconds = 1
  ElemName = {"b"}
  PosName = {"p", "q", "r"}
  Docs <- MCDocs
  SubDocs <- MCSubDocs
  Contents <- MCContents
  MaxEdits = 4
  AttrName = {"a", "b"}
  Values <- MCValues
  Elements <- MCElements
  MaxSets = 2
  Chars <- MCChars
  Garbage <- MCGarbage
  Beyond = {65}
  MaxChars = 2
  MaxCalls = 4
INVARIANTS
  PartsTypeOK
  TwoOnlyWithoutFile
  NothingEscapes
  IndexAgrees
  SavedAgree
  ReadsBack
  OneElement
  LoadedIsText
  LoadedAsMeant
  WholeCharacters
PROPERTIES
  RefusedOnlyByOther
  RecordsAsConfigured
  SavedAsLoaded
CHECK_DEADLOCK FALSE
