\* Three clients, two of them of one context manager, in a new directory.
CONSTANTS
  r1 = r1
  r2 = r2
  r3 = r3
  s1 = s1
  s2 = s2
  Commands = {"rlock_and_get", "wlock_and_get"}
  Request = {r1, r2, r3}
  Server = {s1, s2}
  ServerOf <- MCServerOf
  FirstSeq = 0
  MaxDisconnects = 0
  Impatient = {r1, r2}
  MaxCrashes = 0
SPECIFICATION Spec
INVARIANTS
  LockExclusion
  GrantedInOrder
SYMMETRY Symmetry
\* The system stops when every client is served.
CHECK_DEADLOCK FALSE
