\* An AMQP object that loses two connections and fails once; a task queue with
\* three events, failures and a crash (its other instances are in the module).
CONSTANTS
  MaxDrops = 2
  MaxFailures = 1
  Hop = {1, 2, 3}
  Heads = {1}
  Wires <- Fork
  NEvents = 3
  ConsumerDrops = 0
  ProducerDrops = 0
  NodeFails = TRUE
  NodeSlow = FALSE
  MaxCrashes = 1
SPECIFICATION MCSpec
INVARIANTS
  FieldsSound
  NotLost
  InOrder
PROPERTIES
  ServedInTheEnd
\* Nothing is left to happen once the queue runs empty.
CHECK_DEADLOCK FALSE
