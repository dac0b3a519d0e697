\* The nodes of a flow that decide, change, schedule, ask and publish: a message
\* of each kind of cron node, a batch of two, one failure or kill; every output
\* node, a failing publish, a record lost, the process killed twice; two uploads
\* to one file, a failure, a lost connection or a kill.
CONSTANTS
  Message = {"single", "several"}
  Batch = {"several"}
  BatchSize = 2
  MaxFailures = 1
  User = User
  Ftp = Ftp
  Config <- Outputs
  MaxThrows = 1
  MaxLost = 1
  SwitchMessages <- AnyMessage
  SwitchRules <- SomeRules
  MaxSwitchRules = 3
  ChangeMessages <- SmallMessages
  ChangeRules <- SetsAndDeletes
  MaxChangeRules = 3
  Fields = {"a", "b", "x"}
  MaxDepth = 3
  Numerals = {"7"}
  Lower <- InLowerCase
  HttpConfig <- Requests
  Parts <- Pieces
  Bodies <- Responses
  NMessages = 2
  FtpConfig <- Uploads
  FtpFailures = 1
  MaxLosses = 1
  MaxCrashes = 2
SPECIFICATION Spec
INVARIANTS
  RulesHold
  JobsAccountedFor
  RecordsAccountedFor
  TransfersAccountedFor
PROPERTIES
  HandlersEnd
\* Every message is handled.
CHECK_DEADLOCK FALSE
