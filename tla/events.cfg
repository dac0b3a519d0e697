\* The events of a device with faults of Redis, the device manager and the
\* process; requests on flows beside the events that start them.
CONSTANTS
  MaxVersion = 2
  MaxReadings = 1
  MaxConfigures = 0
  MaxLosses = 1
  MaxRefusals = 0
  MaxFailures = 1
  MaxDrops = 0
  MaxCrashes = 1
  Flow = {1, 2}
  Client = {1, 2}
  Label = {"a"}
  Red <- Configurations
  Event <- Events
  Null = Null
SPECIFICATION MCSpec
INVARIANTS
  NoOlderTemplates
  EventsAccountedFor
  IndexesMatch
  ServedAsStored
PROPERTIES
  RemovedForGood
  FaultsEnd
\* Nothing is left to do when the last event and request are handled.
CHECK_DEADLOCK FALSE
