\* Servers started with -b.
SPECIFICATION LockSpec
CONSTANTS
  Server = {s1, s2, s3}
  Inode = {n1, n2, n3}
  Daemon = TRUE
  Nil = Nil
INVARIANTS
  AtMostOneServing
