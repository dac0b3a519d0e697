-------------------------- MODULE DeviceIngestor ---------------------------
(***************************************************************************)
(* The events of one device on their way into the flows: the device        *)
(* manager and the device publish them in Kafka, the ingestor              *)
(* (orchestrator/ingestor.js) puts them in the event queue of the device   *)
(* and takes them out one by one, with the templates of the device from    *)
(* the cache (orchestrator/DeviceCache.js), kept in Redis                  *)
(* (orchestrator/redisManager.js), or from the device manager.             *)
(*                                                                         *)
(* The templates of the device are abstracted to the version of its        *)
(* configuration at the device manager; of the connections of the event    *)
(* queue's consumer (AmqpClient has their steps) to what the executions    *)
(* tell apart: attempts under way and channels that live.                  *)
(***************************************************************************)
EXTENDS Integers, Sequences, FiniteSets

CONSTANTS
  MaxVersion,    \* configurations of the device
  MaxReadings,   \* messages it publishes
  MaxConfigures, \* messages sent to it
  MaxLosses,     \* lost connections to Redis
  MaxRefusals,   \* writes that Redis refuses
  MaxFailures,   \* requests the device manager, or the producer, fails
  MaxDrops,      \* connections lost by the consumer of the event queue
  MaxCrashes

ASSUME IngestAssumption ==
  {MaxVersion, MaxReadings, MaxConfigures, MaxLosses, MaxRefusals, MaxFailures, MaxDrops, MaxCrashes}
    \subseteq Nat

VARIABLES
  device,   \* the version at the device manager: 0 before it exists, Removed
  topics,   \* the messages of each Kafka subject
  queue,    \* the event queue: the events nobody has acknowledged
  channels, \* the channels of the consumer that live
  attempts, \* its attempts to connect that are under way
  handling, \* the executions of preProcessEvent, each with its event, the
            \* channel it came through, the version it knows and whether it
            \* asks from within a cache lookup
  cache,    \* the version in Redis, 0 without an entry
  redis,    \* the status of the client: "ready" or "down"
  start,    \* how far init is: "reading" and "writing" the cache, "done"
  snapshot, \* the version populate has read
  started,  \* the events that reached their flows, with the version used
  failed,   \* those given up for want of the templates
  counts    \* what has happened how often

consumer == <<channels, attempts>>
ingestVars ==
  <<device, topics, queue, consumer, handling, cache, redis, start, snapshot, started, failed, counts>>

Removed == -1
Nothing == 0

Subject == {"device-manager", "device"}
\* "changes", "readings" and "configures" are messages sent, "events" messages
\* put in the queue, "refused" those the producer refused, "channels" channels
\* made, "blind" processes that began to serve before they had Redis.
Counters ==
  {"changes", "readings", "configures", "events", "refused", "channels", "blind",
   "losses", "refusals", "failures", "drops", "crashes"}

Count(what) == counts' = [w \in Counters |-> IF w \in what THEN counts[w] + 1 ELSE counts[w]]

Happens(what, max) == counts[what] < max /\ Count({what})

IngestInit ==
  /\ device = 0
  /\ topics = [s \in Subject |-> <<>>]
  /\ queue = {} /\ channels = {} /\ attempts = 0 /\ handling = {}
  /\ cache = Nothing /\ redis = "down"
  /\ start = "reading" /\ snapshot = 0
  /\ started = <<>> /\ failed = {}
  /\ counts = [w \in Counters |-> 0]

-----------------------------------------------------------------------------
(* The device manager and the device *)

DeviceEvent(kind, version) == [kind |-> kind, version |-> version]

Send(subject, e) == topics' = [topics EXCEPT ![subject] = Append(@, e)]

ChangeDevice ==
  /\ \/ /\ device \in 0..(MaxVersion - 1)
        /\ device' = device + 1
        /\ Send("device-manager", DeviceEvent(IF device = 0 THEN "create" ELSE "update", device + 1))
     \/ /\ device > 0
        /\ device' = Removed
        /\ Send("device-manager", DeviceEvent("remove", 0))
  /\ Count({"changes"})
  /\ UNCHANGED <<queue, consumer, handling, cache, redis, start, snapshot, started, failed>>

Configure ==
  /\ device > 0 /\ Happens("configures", MaxConfigures)
  /\ Send("device-manager", DeviceEvent("configure", 0))
  /\ UNCHANGED <<device, queue, consumer, handling, cache, redis, start, snapshot, started, failed>>

PublishReading ==
  /\ device > 0 /\ Happens("readings", MaxReadings)
  /\ Send("device", DeviceEvent("publish", 0))
  /\ UNCHANGED <<device, queue, consumer, handling, cache, redis, start, snapshot, started, failed>>

-----------------------------------------------------------------------------
(* init and _enqueueEvent *)

ingress == <<device, topics>>
output == <<started, failed>>

PopulateReads ==
  /\ start = "reading"
  /\ start' = "writing"
  /\ snapshot' = device
  /\ UNCHANGED <<ingress, queue, consumer, handling, cache, redis, output, counts>>

\* The write waits for Redis and may be older than the connection, which
\* flushes it.  Without devices there is none, and nothing to wait for.
\* Then the consumer connects.
PopulateWrites ==
  /\ start = "writing" /\ (snapshot > 0 => redis = "ready")
  /\ start' = "done" /\ attempts' = 1
  /\ cache' \in IF snapshot > 0 THEN {snapshot, Nothing} ELSE {cache}
  /\ Count(IF redis = "ready" THEN {} ELSE {"blind"})
  /\ UNCHANGED <<ingress, queue, channels, handling, redis, snapshot, output>>

\* The messages of a subject go to the queue of their device in the order of
\* the subject; those of two subjects have none.
Enqueue(subject) ==
  /\ start = "done" /\ topics[subject] # <<>>
  /\ topics' = [topics EXCEPT ![subject] = Tail(@)]
  /\ Count({"events"})
  /\ queue' = queue \cup {[id |-> counts["events"] + 1, event |-> Head(topics[subject])]}
  /\ UNCHANGED <<device, consumer, handling, cache, redis, start, snapshot, output>>

\* A producer without a channel refuses the message: a warning, and whatever it
\* was, a change too, it never becomes an event.
EnqueueFailed(subject) ==
  /\ start = "done" /\ topics[subject] # <<>>
  /\ counts["failures"] < MaxFailures /\ Count({"failures", "refused"})
  /\ topics' = [topics EXCEPT ![subject] = Tail(@)]
  /\ UNCHANGED <<device, queue, consumer, handling, cache, redis, start, snapshot, output>>

-----------------------------------------------------------------------------
(* preProcessEvent *)

Change == {"create", "update"}

Become(x, y) == handling' = (handling \ {x}) \cup {y}

\* What follows once the templates are known.
Known(x, version) ==
  [x EXCEPT !.info = version, !.phase = IF x.event.kind = "remove" THEN "deleting" ELSE "handling"]

\* One unacknowledged event for each channel.
Prefetch(k) == \A x \in handling : x.via # k

\* The events nobody has in hand who can acknowledge them: those of a lost
\* channel return to their place.
Waiting == {d \in queue : \A x \in handling : x.via \in channels => x.id # d.id}

\* Creations and updates write the cache, the others look the device up: in
\* Redis if it is there, at the device manager if not.
Taken(d, k) ==
  [id |-> d.id, event |-> d.event, via |-> k, info |-> d.event.version, lookup |-> redis = "ready",
   phase |-> IF d.event.kind \in Change THEN "setting"
             ELSE IF redis = "ready" THEN "getting" ELSE "asking"]

Deliver ==
  /\ \E k \in channels, d \in Waiting :
       /\ Prefetch(k) /\ \A o \in Waiting : d.id <= o.id
       /\ handling' = handling \cup {Taken(d, k)}
  /\ UNCHANGED <<ingress, queue, consumer, cache, redis, start, snapshot, output, counts>>

\* No templates: the event ends here.
GiveUp(x) ==
  /\ failed' = failed \cup {[id |-> x.id, event |-> x.event]}
  /\ Become(x, [x EXCEPT !.phase = "given up"])
  /\ UNCHANGED <<cache, started>>

\* Mutant of Rejected: the lookup does not ask again.
RejectedForGood(x) ==
  IF x.phase \in {"setting", "deleting"}
  THEN Become(x, [x EXCEPT !.phase = "handling"]) /\ UNCHANGED <<cache, output>>
  ELSE GiveUp(x)

\* A command of Redis or a request to the device manager is rejected.  Writes
\* of a change are not cared for; the catch of the lookup asks the device
\* manager, for the second time if that, or keeping its answer, was the cause.
Rejected(x) ==
  IF x.phase \in {"setting", "deleting"}
  THEN Become(x, [x EXCEPT !.phase = "handling"]) /\ UNCHANGED <<cache, output>>
  ELSE IF x.lookup
       THEN Become(x, [x EXCEPT !.phase = "asking", !.lookup = FALSE]) /\ UNCHANGED <<cache, output>>
       ELSE GiveUp(x)

\* The execution once Redis has executed its command, a lookup on what it held.
Replied(x, held) ==
  IF x.phase = "getting"
  THEN IF held = Nothing THEN [x EXCEPT !.phase = "asking"] ELSE Known(x, held)
  ELSE IF x.phase = "filling" THEN Known(x, x.info) ELSE [x EXCEPT !.phase = "handling"]

\* What its command leaves in the cache.
Leaves(x) == CASE x.phase = "getting" -> cache [] x.phase = "deleting" -> Nothing [] OTHER -> x.info

Commands == {x \in handling : x.phase \in {"getting", "setting", "filling", "deleting"}}

RedisReply(x) ==
  /\ redis = "ready" /\ x \in Commands
  /\ Become(x, Replied(x, cache))
  /\ cache' = Leaves(x)
  /\ UNCHANGED <<ingress, queue, consumer, redis, start, snapshot, output, counts>>

\* A write that Redis answers with an error, or a command that has been tried
\* often enough without a connection.
RedisRefuses(x) ==
  /\ x \in Commands
  /\ \/ redis = "ready" /\ x.phase # "getting" /\ Happens("refusals", MaxRefusals)
     \/ redis = "down" /\ UNCHANGED counts
  /\ Rejected(x)
  /\ UNCHANGED <<ingress, queue, consumer, redis, start, snapshot>>

DeviceManagerAnswers(x) ==
  /\ x.phase = "asking" /\ device > 0
  /\ Become(x, IF redis = "ready" THEN [x EXCEPT !.info = device, !.phase = "filling"]
               ELSE Known(x, device))
  /\ UNCHANGED <<ingress, queue, consumer, cache, redis, start, snapshot, output, counts>>

\* It fails, or does not know the device.
DeviceManagerFails(x) ==
  /\ x.phase = "asking"
  /\ \/ device = Removed /\ UNCHANGED counts
     \/ Happens("failures", MaxFailures)
  /\ Rejected(x)
  /\ UNCHANGED <<ingress, queue, consumer, redis, start, snapshot>>

\* _handleEvent: the flows of the device and of its templates (EventFlows).
HandleEvent(x) ==
  /\ x.phase = "handling"
  /\ started' = Append(started, [id |-> x.id, kind |-> x.event.kind, version |-> x.info])
  /\ Become(x, [x EXCEPT !.phase = "handled"])
  /\ UNCHANGED <<ingress, queue, consumer, cache, redis, start, snapshot, failed, counts>>

\* The process dies: the event queue gives its events again to the next one.
Restart ==
  /\ channels' = {} /\ attempts' = 0 /\ handling' = {} /\ redis' = "down" /\ start' = "reading"
  /\ UNCHANGED <<ingress, queue, cache, snapshot, output>>

Acknowledge(x) ==
  /\ handling' = handling \ {x}
  /\ queue' = {d \in queue : d.id # x.id}
  /\ UNCHANGED <<ingress, consumer, cache, redis, start, snapshot, output, counts>>

Over == {"handled", "given up"}

\* Mutant of Ack: failures are not acknowledged.
AckHandled(x) == x.phase = "handled" /\ x.via \in channels /\ Acknowledge(x)

\* On a channel that is gone it throws, in the handler of that failure too: an
\* unhandled rejection, which kills the process.
Ack(x) ==
  /\ x.phase \in Over
  /\ \/ x.via \in channels /\ Acknowledge(x)
     \/ x.via \notin channels /\ Count({"crashes"}) /\ Restart

-----------------------------------------------------------------------------
(* Connections come and go, the process dies *)

\* A loss by "error" leaves two attempts to connect again, one by "close" one.
ConsumerDropped ==
  /\ Happens("drops", MaxDrops)
  /\ \E k \in channels, again \in {1, 2} :
       channels' = channels \ {k} /\ attempts' = attempts + again
  /\ UNCHANGED <<ingress, queue, handling, cache, redis, start, snapshot, output>>

ConsumerConnects ==
  /\ attempts > 0 /\ attempts' = attempts - 1
  /\ channels' = channels \cup {counts["channels"] + 1} /\ Count({"channels"})
  /\ UNCHANGED <<ingress, queue, handling, cache, redis, start, snapshot, output>>

RedisLost ==
  /\ redis = "ready" /\ Happens("losses", MaxLosses)
  /\ redis' = "down"
  /\ UNCHANGED <<ingress, queue, consumer, handling, cache, start, snapshot, output>>

\* Mutant of Flushed: the cache survives the connection.
FlushedNever == cache

\* What the cache holds after the handler of "connect".
Flushed == Nothing

\* The commands that wait are executed before the flush, a lookup among them
\* before or after writes of other executions, or they are executed after it.
RedisConnects ==
  /\ redis = "down"
  /\ redis' = "ready"
  /\ \E early \in SUBSET Commands :
       \E held \in [early -> {cache} \cup {Leaves(x) : x \in early}] :
         handling' = (handling \ early) \cup {Replied(x, held[x]) : x \in early}
  /\ cache' = Flushed
  /\ UNCHANGED <<ingress, queue, consumer, start, snapshot, output, counts>>

Crash == Happens("crashes", MaxCrashes) /\ Restart

-----------------------------------------------------------------------------

Step(x) ==
  \/ RedisReply(x) \/ DeviceManagerAnswers(x) \/ HandleEvent(x) \/ Ack(x)
  \/ RedisRefuses(x) \/ DeviceManagerFails(x)

IngestNext ==
  \/ ChangeDevice \/ Configure \/ PublishReading
  \/ PopulateReads \/ PopulateWrites
  \/ \E s \in Subject : Enqueue(s) \/ EnqueueFailed(s)
  \/ Deliver
  \/ \E x \in handling : Step(x)
  \/ ConsumerDropped \/ ConsumerConnects \/ RedisLost \/ RedisConnects \/ Crash

IngestSpec == IngestInit /\ [][IngestNext]_ingestVars

\* Kafka, the broker, Redis and the device manager answer in the end.
IngestFairSpec ==
  /\ IngestSpec
  /\ WF_ingestVars(PopulateReads) /\ WF_ingestVars(PopulateWrites)
  /\ \A s \in Subject : WF_ingestVars(Enqueue(s))
  /\ WF_ingestVars(Deliver) /\ WF_ingestVars(\E x \in handling : Step(x))
  /\ WF_ingestVars(ConsumerConnects) /\ WF_ingestVars(RedisConnects)

-----------------------------------------------------------------------------
(* Properties *)

\* Type invariant.  An execution that can acknowledge has its event in the queue.
IngestTypeOK ==
  /\ device \in Removed..MaxVersion
  /\ cache \in 0..MaxVersion /\ (device # Removed => cache <= device)
  /\ channels \subseteq 1..counts["channels"] /\ attempts \in Nat
  /\ \A x \in handling : x.info \in 0..MaxVersion /\ (x.phase = "handling" => x.info > 0)
  /\ \A x \in handling : x.via \in channels => \E d \in queue : d.id = x.id /\ d.event = x.event

\* As long as the consumer keeps its connection, an event is handled with
\* templates no older than those of the changes handled before it, whatever
\* happens to the cache: lost connections, the flush on connect, crashes and what
\* populate writes included, short of a refused write.  "It only affects
\* performance not the behavior" (ingestor.js).
NoOlderTemplates ==
  counts["refusals"] = 0 /\ counts["drops"] = 0 =>
    \A i, j \in DOMAIN started :
      i < j /\ started[i].kind \in Change => started[j].version >= started[i].version

\* As long as the consumer keeps its connection, the events of the device reach
\* their flows in the order of its queue: "queues that map kafka messages in
\* order to ensure order of tasks" (README).
StartedInOrder ==
  counts["drops"] = 0 =>
    \A i, j \in DOMAIN started : i < j => started[i].id <= started[j].id

\* Events come twice only after a crash or a lost connection of the consumer.
StartedOnce ==
  \A i \in DOMAIN started :
    Cardinality({j \in DOMAIN started : started[j].id = started[i].id})
      <= 1 + counts["crashes"] + counts["drops"]

Faults ==
  counts["losses"] + counts["refusals"] + counts["failures"] + counts["crashes"]
    + counts["drops"] + counts["blind"]

\* No event is given up but for a reason: changes never are; a removal, whose
\* device the device manager no longer has, when the cache was lost as well;
\* another event when its device is gone, or by two faults.
LostForAReason ==
  \A f \in failed :
    /\ f.event.kind \notin Change
    /\ f.event.kind = "remove" => Faults >= 1
    /\ f.event.kind # "remove" => device = Removed \/ Faults >= 2

OnTheWay(subject) == Len(topics[subject])

\* Every message sent is in its subject, has become an event or was refused by
\* the producer, by a fault; every event is in the queue, has started its flows
\* or was given up.
NoneMissing ==
  /\ counts["changes"] + counts["configures"] + counts["readings"] =
       OnTheWay("device-manager") + OnTheWay("device") + counts["events"] + counts["refused"]
  /\ counts["refused"] <= counts["failures"]
  /\ \A n \in 1..counts["events"] :
       \/ \E d \in queue : d.id = n
       \/ \E i \in DOMAIN started : started[i].id = n
       \/ \E f \in failed : f.id = n

\* Every event has started its flows, in its turn as long as the consumer keeps
\* its connection, or there is a reason why not.
EventsAccountedFor ==
  IngestTypeOK /\ StartedInOrder /\ StartedOnce /\ LostForAReason /\ NoneMissing

\* Every event of the device ends.
EventsEnd == <>[](queue = {} /\ \A s \in Subject : topics[s] = <<>>)
=============================================================================
