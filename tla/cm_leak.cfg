\* A lost connection, fair scheduling.
CONSTANTS
  r1 = r1
  r2 = r2
  r3 = r3
  s1 = s1
  s2 = s2
  Commands = {"rlock_and_get", "wlock_and_get", "lock_get_and_unlock"}
  Request = {r1, r2}
  Server = {s1, s2}
  ServerOf <- MCServerOf2
  FirstSeq = 1
  MaxDisconnects = 1
  Impatient = {r1, r2}
  MaxCrashes = 0
SPECIFICATION FairSpec
PROPERTIES
  LocksReleased
\* The system stops when every client is served.
CHECK_DEADLOCK FALSE
