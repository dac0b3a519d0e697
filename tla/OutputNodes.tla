---------------------------- MODULE OutputNodes -----------------------------
(***************************************************************************)
(* The nodes a flow ends with: device out, actuate, multi device out,      *)
(* multi actuate, notification and publish-ftp, on one task of the         *)
(* executor, which may be delivered again, and the messenger they publish  *)
(* with, whose records leave the process later.                            *)
(***************************************************************************)
EXTENDS Naturals, FiniteSets, Sequences, SequencesExt

CONSTANTS
  Config,       \* nodes and what the message has for them
  User, Ftp,    \* what a notification and a file are addressed to
  MaxThrows,    \* calls of publish that throw
  MaxLost,      \* records the producer drops after its retries
  MaxCrashes

VARIABLES
  node,      \* the node of the task, and what its message has for it
  attempt,   \* deliveries of the task
  answer,    \* of handleMessage in this delivery: "none", "resolved", "rejected"
  acked,     \* whether the task is acknowledged
  buffer,    \* records in the process: [to, attempt]
  log,       \* records in Kafka
  lost,      \* records the producer dropped
  throws, crashes

outputVars == <<node, attempt, answer, acked, buffer, log, lost, throws, crashes>>

OutputInit ==
  /\ node \in Config
  /\ attempt = 1 /\ answer = "none" /\ acked = FALSE
  /\ buffer = <<>> /\ log = <<>> /\ lost = 0
  /\ throws = 0 /\ crashes = 0

-----------------------------------------------------------------------------
(* What a configuration and a message determine.  A path of the message is *)
(* "unset", "absent" (_get throws) or leads to a value; for devices, the   *)
(* value is <<kind, sequence>>.                                            *)

SingleKinds == {"device out", "actuate"}
MultiKinds == {"multi device out", "multi actuate"}

\* What the editor stores and _get finds: a single node has one device at most,
\* and one value is one device.
WellFormed(c) ==
  \/ /\ c.kind \in SingleKinds \cup MultiKinds
     /\ c.configured \in Seq(STRING)
     /\ c.kind \in SingleKinds => Len(c.configured) <= 1
     /\ c.dynamic[1] \in {"unset", "absent", "one", "list"}
     /\ c.dynamic[1] \in {"one", "list"} => c.dynamic[2] \in Seq(STRING)
     /\ c.dynamic[1] = "one" => Len(c.dynamic[2]) = 1
  \/ c.kind = "notification" /\ c.meta \in {"unset", "absent", "object", "not an object"}
  \/ c.kind = "publish-ftp"

ASSUME MaxThrowsAssumption == MaxThrows \in Nat
ASSUME MaxCrashesAssumption == MaxCrashes \in Nat
ASSUME MaxLostAssumption == MaxLost \in Nat
ASSUME ConfigAssumption == \A c \in Config : WellFormed(c)

\* Devices of a single node: a list is taken for one identifier.
SingleDevices(c) ==
  CASE c.source = "configured" -> IF c.configured = <<>> THEN <<>> ELSE <<Head(c.configured)>>
    [] c.source = "self" -> <<c.origin>>
    [] c.source = "dynamic" /\ c.dynamic[1] = "one" -> c.dynamic[2]
    [] c.source = "dynamic" /\ c.dynamic[1] = "list" -> <<c.dynamic[2]>>
    [] OTHER -> <<>>

\* _getDevicesIds: every failure is an empty list.
DeviceIds(c) ==
  CASE c.source = "configured" -> c.configured
    [] c.source = "self" -> <<c.origin>>
    [] c.source = "dynamic" /\ c.dynamic[1] \in {"one", "list"} -> c.dynamic[2]
    [] OTHER -> <<>>

\* Mutant of Distinct: the devices as they are listed.
AsListed(devices) == devices

\* The set the devices are put into, in the order of insertion.
Distinct(devices) ==
  LET once[n \in 0..Len(devices)] ==
        IF n = 0 THEN <<>>
        ELSE IF Contains(once[n - 1], devices[n]) THEN once[n - 1]
             ELSE Append(once[n - 1], devices[n])
  IN  once[Len(devices)]

NotificationRefused(c) == c.meta \in {"absent", "not an object"} \/ c.text # "string"

FtpRefused(c) == c.filename = "absent" \/ c.content = "absent"

\* The records to publish, none when the handler rejects before it publishes.
Targets(c) ==
  CASE c.kind \in SingleKinds \cup MultiKinds /\ c.attrs # "there" -> <<>>
    [] c.kind \in SingleKinds /\ c.attrs = "there" -> SingleDevices(c)
    [] c.kind \in MultiKinds /\ c.attrs = "there" -> Distinct(DeviceIds(c))
    [] c.kind = "notification" -> IF NotificationRefused(c) THEN <<>> ELSE <<User>>
    [] c.kind = "publish-ftp" -> IF FtpRefused(c) THEN <<>> ELSE <<Ftp>>

-----------------------------------------------------------------------------
(* The task *)

\* The first n records.
Published(targets, n) == [i \in 1..n |-> [to |-> targets[i], attempt |-> attempt]]

\* Whatever is thrown is caught and rejects.
AnswerOf(targets, n) == IF n = Len(targets) /\ targets # <<>> THEN "resolved" ELSE "rejected"

\* handleMessage runs to its end: the messenger may throw at one of the records,
\* those before it are published.
HandleOutput ==
  /\ answer = "none" /\ ~acked
  /\ LET targets == Targets(node) IN
       \E n \in 0..Len(targets) :
         /\ buffer' = buffer \o Published(targets, n)
         /\ answer' = AnswerOf(targets, n)
         /\ IF n = Len(targets) THEN UNCHANGED throws
            ELSE throws < MaxThrows /\ throws' = throws + 1
  /\ UNCHANGED <<node, attempt, acked, log, lost, crashes>>

\* The executor: the nodes have no outputs, both answers lead to the
\* acknowledgement, which waits for no record.
Ack ==
  /\ answer \in {"resolved", "rejected"} /\ ~acked
  /\ acked' = TRUE
  /\ UNCHANGED <<node, attempt, answer, buffer, log, lost, throws, crashes>>

\* The messenger: records reach Kafka in order.
Flush ==
  /\ buffer # <<>>
  /\ log' = Append(log, Head(buffer)) /\ buffer' = Tail(buffer)
  /\ UNCHANGED <<node, attempt, answer, acked, lost, throws, crashes>>

\* The producer drops a record after its retries, and nobody is told.
Lose ==
  /\ buffer # <<>> /\ lost < MaxLost
  /\ buffer' = Tail(buffer) /\ lost' = lost + 1
  /\ UNCHANGED <<node, attempt, answer, acked, log, throws, crashes>>

\* The process is killed: what is buffered is lost, a task without its
\* acknowledgement is delivered again.
Crash ==
  /\ crashes < MaxCrashes /\ crashes' = crashes + 1
  /\ buffer' = <<>>
  /\ IF acked THEN UNCHANGED <<attempt, answer>>
     ELSE attempt' = attempt + 1 /\ answer' = "none"
  /\ UNCHANGED <<node, acked, log, lost, throws>>

OutputNext == HandleOutput \/ Ack \/ Flush \/ Lose \/ Crash

OutputSpec == OutputInit /\ [][OutputNext]_outputVars

\* The executor goes on; nothing is promised of the messenger.
OutputFairSpec == OutputSpec /\ WF_outputVars(HandleOutput) /\ WF_outputVars(Ack)

-----------------------------------------------------------------------------
(* Properties *)

Records == log \o buffer

Copies(to, a) == Cardinality({i \in DOMAIN Records : Records[i].to = to /\ Records[i].attempt = a})

\* The devices and services the author of the flow named, whatever the order and
\* the repetitions, or none when something the node needs is missing.
Named(c) ==
  CASE c.kind = "notification" ->
         IF c.meta \in {"unset", "object"} /\ c.text = "string" THEN {User} ELSE {}
    [] c.kind = "publish-ftp" ->
         IF "absent" \in {c.filename, c.content} THEN {} ELSE {Ftp}
    [] OTHER ->
         IF c.attrs # "there" THEN {}
         ELSE CASE c.source = "self" -> {c.origin}
                [] c.source = "configured" -> ToSet(c.configured)
                [] c.source = "dynamic" ->
                     IF c.dynamic[1] \in {"unset", "absent"} THEN {}
                     ELSE IF c.kind \in SingleKinds /\ c.dynamic[1] = "list" THEN {c.dynamic[2]}
                     ELSE ToSet(c.dynamic[2])
                [] OTHER -> {}

\* Type invariant.
TypeOK ==
  /\ node \in Config /\ attempt \in 1..(MaxCrashes + 1) /\ acked \in BOOLEAN
  /\ answer \in {"none", "resolved", "rejected"}
  /\ \A i \in DOMAIN Records : Records[i].attempt \in 1..attempt
  /\ throws \in 0..MaxThrows /\ crashes \in 0..MaxCrashes /\ lost \in 0..MaxLost

\* One delivery of the task publishes at most one record for a device, however
\* often the node's list or the message repeats it, and for nobody who is not
\* named ("avoid send the same event to the same device").
OncePerDelivery ==
  \A i \in DOMAIN Records :
    Records[i].to \in Named(node) /\ Copies(Records[i].to, Records[i].attempt) = 1

\* handleMessage answers for what it published: resolved, every one named has
\* its record; rejected without a failure of publish, nobody has.  A record of
\* the delivery may only be missing once the process has been killed or the
\* producer has dropped one.
AnswerTellsRecords ==
  crashes = 0 =>
    /\ answer = "resolved" =>
         /\ Named(node) # {}
         /\ lost = 0 => \A to \in Named(node) : Copies(to, attempt) = 1
    /\ answer = "rejected" /\ throws = 0 => Records = <<>> /\ Named(node) = {}

\* The executor is told what the devices got, and they got it once a delivery.
RecordsAccountedFor == TypeOK /\ OncePerDelivery /\ AnswerTellsRecords

\* The task ends with its acknowledgement.
TaskEnds == <>[]acked
=============================================================================
