\* Additions of a node with the right name, one of which fails.
CONSTANTS
  Null = Null
  a = a
  Id = {a}
  Client = {1, 2}
  Misnamed = {}
  Overlap = {}
  MaxCrashes = 0
  MaxFailures = 1
  MaxContainers = 3
SPECIFICATION Spec
INVARIANTS
  RolledBack
\* Every request is answered.
CHECK_DEADLOCK FALSE
