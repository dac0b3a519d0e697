---------------------------- MODULE NodeHandlers ----------------------------
(***************************************************************************)
(* The nodes that handle a message on their own, side by side: CronNodes,  *)
(* OutputNodes and instances of SwitchNode, ChangeNode, HttpNode and       *)
(* FtpNode. The initial state says in part which of them the behaviour     *)
(* belongs to; the variables of the others stay.                           *)
(***************************************************************************)
EXTENDS CronNodes, OutputNodes

CONSTANTS
  SwitchMessages, SwitchRules, MaxSwitchRules,
  ChangeMessages, ChangeRules, MaxChangeRules,
  Fields, MaxDepth,        \* of the messages and paths of the change node
  Numerals, Lower,         \* what its texts read as
  HttpConfig,
  Parts, Bodies,           \* what servers answer, and the pieces it is made of
  NMessages, FtpConfig, FtpFailures, MaxLosses

VARIABLES
  part,  \* the module
  config,
  message, result, rules,
  request, sent, body, received, promise, reject, task,
  queue, channels, ftpMade, attempts, runs, open, stored, file, output,
  ftpFailures, drops, ftpCrashes

ruleVars == <<message, result, rules>>
httpVars == <<request, sent, body, received, promise, reject, task>>
ftpVars ==
  <<queue, channels, ftpMade, attempts, runs, open, stored, file, output, ftpFailures, drops, ftpCrashes>>
vars == <<part, config, ruleVars, cronVars, httpVars, outputVars, ftpVars>>

Switch == INSTANCE SwitchNode WITH
  Messages <- SwitchMessages, Rules <- SwitchRules, MaxRules <- MaxSwitchRules

Change == INSTANCE ChangeNode WITH
  Messages <- ChangeMessages, Rules <- ChangeRules, MaxRules <- MaxChangeRules

Http == INSTANCE HttpNode WITH Config <- HttpConfig

Files == INSTANCE FtpNode WITH
  Config <- FtpConfig, MaxFailures <- FtpFailures, made <- ftpMade, failures <- ftpFailures, crashes <- ftpCrashes

ASSUME DepthAssumption == MaxDepth \in Nat

\* Messages come from JSON (PersisterHandler.js).
ASSUME MessagesAssumption == \A m \in ChangeMessages : Change!IsTree(m)

\* A rule sets a field, and copies from paths that are looked at.
ASSUME RulesAssumption == \A rule \in ChangeRules : Change!IsRule(rule)

\* The pieces a server sends are no commas of the node's own, nor parsed yet.
ASSUME PartsAssumption == Parts \cap {"comma", "parsed"} = {} /\ Bodies \subseteq Seq(Parts)

ASSUME FilesAssumption == {NMessages, FtpFailures, MaxLosses} \subseteq Nat

-----------------------------------------------------------------------------
NoRules == message = <<>> /\ result = <<>> /\ rules = <<>>
NoMessages == CronInit
NoRequest ==
  /\ request = "none" /\ sent = <<>> /\ body = <<>> /\ received = <<>>
  /\ promise = Http!Pending /\ reject = FALSE /\ task = "waiting"
AnyNode == CHOOSE n \in Config : TRUE
NoRecords == node = AnyNode /\ OutputInit
NoFiles ==
  /\ queue = {} /\ channels = {} /\ ftpMade = 0 /\ attempts = 0 /\ runs = <<>>
  /\ open = {} /\ stored = {} /\ file = 0 /\ output = {}
  /\ ftpFailures = 0 /\ drops = 0 /\ ftpCrashes = 0

Init ==
  \/ /\ part = "switch" /\ Switch!Init
     /\ rules = <<>> /\ NoMessages /\ NoRequest /\ NoRecords /\ NoFiles
  \/ /\ part = "change" /\ Change!Init
     /\ config = <<>> /\ NoMessages /\ NoRequest /\ NoRecords /\ NoFiles
  \/ /\ part = "cron" /\ CronInit
     /\ config = <<>> /\ NoRules /\ NoRequest /\ NoRecords /\ NoFiles
  \/ /\ part = "http" /\ Http!Init
     /\ NoRules /\ NoMessages /\ NoRecords /\ NoFiles
  \/ /\ part = "output" /\ OutputInit
     /\ config = <<>> /\ NoRules /\ NoMessages /\ NoRequest /\ NoFiles
  \/ /\ part = "ftp" /\ Files!Init
     /\ NoRules /\ NoMessages /\ NoRequest /\ NoRecords

notSwitch == <<rules, cronVars, httpVars, outputVars, ftpVars>>
notChange == <<config, cronVars, httpVars, outputVars, ftpVars>>
notCron == <<config, ruleVars, httpVars, outputVars, ftpVars>>
notHttp == <<ruleVars, cronVars, outputVars, ftpVars>>
notOutput == <<config, ruleVars, cronVars, httpVars, ftpVars>>
notFtp == <<ruleVars, cronVars, httpVars, outputVars>>

Next ==
  /\ \/ part = "switch" /\ Switch!Next /\ UNCHANGED notSwitch
     \/ part = "change" /\ Change!Next /\ UNCHANGED notChange
     \/ part = "cron" /\ CronNext /\ UNCHANGED notCron
     \/ part = "http" /\ Http!Next /\ UNCHANGED notHttp
     \/ part = "output" /\ OutputNext /\ UNCHANGED notOutput
     \/ part = "ftp" /\ Files!Next /\ UNCHANGED notFtp
  /\ UNCHANGED part

\* The fairness of each module: the executor and its timers, the connection of
\* its consumer, the timer of a request.
Fairness ==
  /\ \A m \in Message :
       /\ WF_vars(part = "cron" /\ HandleMessage(m) /\ UNCHANGED <<part, notCron>>)
       /\ WF_vars(part = "cron" /\ TaskTimeout(m) /\ UNCHANGED <<part, notCron>>)
  /\ WF_vars(part = "http" /\ Http!HandleMessage /\ UNCHANGED <<part, notHttp>>)
  /\ WF_vars(part = "http" /\ Http!OnTimeout /\ UNCHANGED <<part, notHttp>>)
  /\ WF_vars(part = "http" /\ Http!TaskDone /\ UNCHANGED <<part, notHttp>>)
  /\ WF_vars(part = "http" /\ Http!TaskTimeout /\ UNCHANGED <<part, notHttp>>)
  /\ WF_vars(part = "output" /\ HandleOutput /\ UNCHANGED <<part, notOutput>>)
  /\ WF_vars(part = "output" /\ Ack /\ UNCHANGED <<part, notOutput>>)
  /\ WF_vars(part = "ftp" /\ Files!HandleMessage /\ UNCHANGED <<part, notFtp>>)
  /\ WF_vars(part = "ftp" /\ (\E h \in Files!Handlers : Files!Task(h)) /\ UNCHANGED <<part, notFtp>>)
  /\ WF_vars(part = "ftp" /\ Files!ConsumerConnects /\ UNCHANGED <<part, notFtp>>)

Spec == Init /\ [][Next]_vars /\ Fairness

-----------------------------------------------------------------------------
(* The properties of the modules, beside JobsAccountedFor and              *)
(* RecordsAccountedFor.                                                    *)

\* An output of a switch has the message exactly when its rules say so, and none
\* is lost or doubled; as long as plain values are copied, a change node does
\* what its rules describe one after the other.
RulesHold ==
  /\ part = "switch" => Switch!OutputsFollowRules /\ Switch!NeitherLostNorDoubled
  /\ part = "change" => Change!PlainSetsInTurn

\* What http hands on is what the server sent, in order, and all of it unless
\* the connection was cut off; an ftp node that resolves has stored its file,
\* and an older content comes back only from a handler that was given up, as
\* long as the consumer keeps its connection.
TransfersAccountedFor ==
  /\ part = "http" => Http!HandedOnInOrder
  /\ part = "ftp" => Files!UploadsAccountedFor

\* Every message leaves its last cron node or fails, and the tasks of the http,
\* output and ftp nodes end, whatever the services do; but for an http node
\* without a field for responses, whose exception may kill the process each time
\* the task is delivered.
HandlersEnd ==
  /\ part = "cron" => MessagesEnd
  /\ part = "http" => Http!HttpEnds
  /\ part = "output" => TaskEnds
  /\ part = "ftp" => Files!TasksEnd
=============================================================================
