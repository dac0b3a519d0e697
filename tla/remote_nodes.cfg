\* The manager of the remote nodes with crashes and failures, the operations on
\* Kubernetes and docker, the messages to a remote node.
CONSTANTS
  Null = Null
  a = a
  b = b
  Id = {a, b}
  Client = {1, 2, 3}
  Misnamed = {a, b}
  Overlap = {"requests", "loads"}
  MaxCrashes = 1
  MaxFailures = 1
  MaxContainers = 4
  KubeHandler = {1, 2, 3}
  Concurrent = TRUE
  MaxErrors = 2
  Handler = {1, 2, 3}
  MaxRefused = 3
  Caller = {"c1", "c2"}
  MaxRequests = 4
  MaxFaults = 1
SPECIFICATION MCSpec
INVARIANTS
  NodesSound
  RemovedForGood
  ContainersSound
  RequestMapSound
PROPERTIES
  RemovedIsGone
  OperationsEnd
\* Every request is answered, every handler used, every call made.
CHECK_DEADLOCK FALSE
