\* Servers in the foreground, which SIGTERM may reach.
SPECIFICATION LockSpec
CONSTANTS
  Server = {s1, s2, s3}
  Inode = {n1, n2, n3}
  Daemon = FALSE
  Nil = Nil
INVARIANTS
  AtMostOneServing
