----------------------------- MODULE TaskQueue -----------------------------
(***************************************************************************)
(* One task queue: the RabbitMQ queue, its consumer and its producer       *)
(* (orchestrator/amqp.js, see AmqpClient) and the executor between them    *)
(* (orchestrator/executor.js).  calculateQueue gives all the events of a   *)
(* device one queue; here they are the events of one flow.                 *)
(***************************************************************************)
EXTENDS Naturals, FiniteSets

CONSTANTS
  Hop,          \* the nodes of the flow
  Heads,        \* those an event starts with
  Wires,        \* the nodes after each node
  NEvents,      \* events published
  ConsumerDrops, ProducerDrops,  \* connections lost
  NodeFails,    \* whether handlers may reject
  NodeSlow,     \* whether handlers may exceed taskTimeout
  MaxCrashes

ASSUME TaskQueueAssumption ==
  /\ Heads \subseteq Hop /\ Wires \in [Hop -> SUBSET Hop] /\ NEvents \in Nat
  /\ ConsumerDrops \in Nat /\ ProducerDrops \in Nat

VARIABLES
  cLink, cConnection, cChannel, cRetries, cDrops, cFailures,  \* the consumer
  pLink, pConnection, pChannel, pRetries, pDrops, pFailures,  \* the producer
  ready,     \* the messages of the queue nobody has taken
  published, \* events published so far
  nextSeq,   \* the order of publication
  running,   \* the executions of hop
  late,      \* handlers that go on after their timeout
  loaded,    \* whether the nodes of the tenant are there
  due,       \* tasks that an acknowledged task, or an event, asked for
  ended,     \* tasks acknowledged
  dropped,   \* tasks given up, with a line in the log
  crashes

Cons == INSTANCE AmqpClient WITH
  link <- cLink, connection <- cConnection, channel <- cChannel,
  retries <- cRetries, drops <- cDrops, failures <- cFailures,
  MaxDrops <- ConsumerDrops, MaxFailures <- 0

Prod == INSTANCE AmqpClient WITH
  link <- pLink, connection <- pConnection, channel <- pChannel,
  retries <- pRetries, drops <- pDrops, failures <- pFailures,
  MaxDrops <- ProducerDrops, MaxFailures <- 0

\* No channel.
Null == Cons!NoConn

consumerVars == <<cLink, cConnection, cChannel, cRetries, cDrops, cFailures>>
producerVars == <<pLink, pConnection, pChannel, pRetries, pDrops, pFailures>>
queueVars == <<ready, published, nextSeq>>
ledger == <<due, ended, dropped>>
vars == <<consumerVars, producerVars, queueVars, running, late, loaded, ledger, crashes>>

Init ==
  /\ Cons!AmqpInit /\ Prod!AmqpInit
  /\ ready = {} /\ published = 0 /\ nextSeq = 0
  /\ running = {} /\ late = {} /\ loaded = FALSE
  /\ due = {} /\ ended = {} /\ dropped = {}
  /\ crashes = 0

-----------------------------------------------------------------------------
(* The queue *)

Task(m) == <<m.event, m.hop>>

Message(e, h, priority, seq) == [event |-> e, hop |-> h, priority |-> priority, seq |-> seq]

\* The queue gives out higher priorities first, and then older messages; one
\* given back returns to its place.
Foremost(m) ==
  \A n \in ready :
    m.priority > n.priority \/ (m.priority = n.priority /\ m.seq <= n.seq)

\* Unacknowledged messages: those in the hands of executions whose channel lives.
Unacked == {x \in running : x.via # Null}

\* The ingestor starts the flow for the next event.
PublishEvent ==
  /\ published < NEvents
  /\ published' = published + 1
  /\ nextSeq' = nextSeq + 1
  /\ ready' = ready \cup {Message(published + 1, h, 0, nextSeq) : h \in Heads}
  /\ due' = due \cup {<<published + 1, h>> : h \in Heads}
  /\ UNCHANGED <<consumerVars, producerVars, running, late, loaded, ended, dropped, crashes>>

-----------------------------------------------------------------------------
(* Executor.hop *)

Execution(m, k) ==
  [message |-> m, via |-> k, phase |-> "handling", outs |-> {}, waiting |-> {}, through |-> Null]

\* One unacknowledged message for each channel.
Prefetch(k) == \A x \in running : x.via # k

\* A delivery.  A node the tenant does not have ends the flow at once.
Deliver(k) ==
  /\ cLink[k] = "ready" /\ Prefetch(k)
  /\ \E m \in ready :
       /\ Foremost(m)
       /\ ready' = ready \ {m}
       /\ IF loaded
          THEN /\ running' = running \cup {Execution(m, k)}
               /\ UNCHANGED <<ended, dropped>>
          ELSE /\ ended' = ended \cup {Task(m)}
               /\ dropped' = dropped \cup {Task(m)}
               /\ UNCHANGED running
  /\ UNCHANGED <<consumerVars, producerVars, published, nextSeq, late, loaded, due, crashes>>

\* The process is killed and started again: the channels are gone, their
\* messages return to the queue, and the tenants have to be loaded again.
Restart ==
  /\ crashes' = crashes + 1
  /\ running' = {} /\ late' = {} /\ loaded' = FALSE
  /\ ready' = ready \cup {x.message : x \in Unacked}
  /\ Cons!AmqpRestart /\ Prod!AmqpRestart
  /\ UNCHANGED <<cDrops, cFailures, pDrops, pFailures, published, nextSeq, ledger>>

\* The acknowledgement of x, with the tasks it leads to.  On a channel that is
\* gone it throws, in the handlers of its own failure too: an unhandled
\* rejection, which kills the process.
Ack(x, next) ==
  IF x.via = Null
  THEN Restart
  ELSE /\ running' = running \ {x}
       /\ ended' = ended \cup {Task(x.message)}
       /\ due' = due \cup {<<x.message.event, h>> : h \in next}
       /\ UNCHANGED <<consumerVars, producerVars, queueVars, loaded, crashes>>

\* What sendMessage sends through: nothing without both fields, which a superseded
\* connection may set and reset by turns.
Sender == IF pConnection = Null THEN Null ELSE pChannel

\* The handler resolves with messages for some of its outputs.  A producer
\* without a connection or a channel refuses each of them at once.
Handled(x) ==
  /\ x.phase = "handling"
  /\ \E outs \in SUBSET Wires[x.message.hop] :
       /\ running' = (running \ {x}) \cup
            {[x EXCEPT !.phase = "sending", !.outs = outs,
                       !.waiting = IF Sender = Null THEN {} ELSE outs,
                       !.through = Sender]}
       /\ dropped' = IF Sender = Null
                     THEN dropped \cup {<<x.message.event, h>> : h \in outs} ELSE dropped
  /\ UNCHANGED <<consumerVars, producerVars, queueVars, late, loaded, due, ended, crashes>>

\* The handler rejects: the task is acknowledged and the branch ends.
HandlerFailed(x) ==
  /\ NodeFails
  /\ x.phase = "handling"
  /\ Ack(x, {})
  /\ x.via # Null => UNCHANGED <<late, dropped>>

\* taskTimeout elapses first: the same, but the handler goes on.
TaskTimeout(x) ==
  /\ NodeSlow
  /\ x.phase = "handling"
  /\ Ack(x, {})
  /\ x.via # Null => late' = late \cup {x.message} /\ UNCHANGED dropped

LateEnds ==
  /\ \E m \in late : late' = late \ {m}
  /\ UNCHANGED <<consumerVars, producerVars, queueVars, running, loaded, ledger, crashes>>

\* Mutant of Priority: successors wait behind new events.
PriorityOfEvents == 0

\* Tasks of events in progress overtake new events.
Priority == 1

\* The broker takes a successor and confirms it.
Confirmed(x, h) ==
  /\ h \in x.waiting /\ x.through # Null
  /\ pLink[x.through] \in {"asserting", "ready"}
  /\ ready' = ready \cup {Message(x.message.event, h, Priority, nextSeq)}
  /\ nextSeq' = nextSeq + 1
  /\ running' = (running \ {x}) \cup {[x EXCEPT !.waiting = @ \ {h}]}
  /\ UNCHANGED <<consumerVars, producerVars, published, late, loaded, ledger, crashes>>

\* The channel is gone before the confirmation; the broker may have the
\* message.  Its line in the log names an undefined variable: the handler of
\* that failure acknowledges.
SendLost(x, h) ==
  /\ h \in x.waiting /\ x.through = Null
  /\ \/ /\ ready' = ready \cup {Message(x.message.event, h, Priority, nextSeq)}
        /\ nextSeq' = nextSeq + 1
        /\ UNCHANGED dropped
     \/ /\ dropped' = dropped \cup {<<x.message.event, h>>}
        /\ UNCHANGED <<ready, nextSeq>>
  /\ running' = (running \ {x}) \cup {[x EXCEPT !.waiting = @ \ {h}]}
  /\ UNCHANGED <<consumerVars, producerVars, published, late, loaded, due, ended, crashes>>

\* Mutant of Sent: acknowledges without waiting for the confirmations.
SentUnconfirmed(x) ==
  /\ x.phase = "sending"
  /\ Ack(x, x.outs)
  /\ x.via # Null => UNCHANGED <<late, dropped>>

\* Every message is settled.
Sent(x) ==
  /\ x.phase = "sending" /\ x.waiting = {}
  /\ Ack(x, x.outs)
  /\ x.via # Null => UNCHANGED <<late, dropped>>

\* The ingestor has loaded the nodes of the tenant.
Load ==
  /\ ~loaded
  /\ loaded' = TRUE
  /\ UNCHANGED <<consumerVars, producerVars, queueVars, running, late, ledger, crashes>>

\* The process dies by itself, or of the loss of a connection between channel
\* and queue (AmqpClient!AssertFailed).
Crash ==
  /\ crashes < MaxCrashes
  /\ Restart

-----------------------------------------------------------------------------
(* Connections *)

ConsumerStep ==
  /\ \E k \in Cons!Conn : Cons!Connected(k) \/ Cons!ChannelCreated(k) \/ Cons!QueueAsserted(k)
     \/ Cons!Reconnect
  /\ UNCHANGED <<producerVars, queueVars, running, late, loaded, ledger, crashes>>

\* The messages of a lost channel return to the queue; the executions go on.
ConsumerDropped ==
  /\ \E k \in Cons!Conn, kind \in Cons!DropKinds :
       /\ Cons!Dropped(k, kind)
       /\ ready' = ready \cup {x.message : x \in {y \in running : y.via = k}}
       /\ running' = {IF x.via = k THEN [x EXCEPT !.via = Null] ELSE x : x \in running}
  /\ UNCHANGED <<producerVars, published, nextSeq, late, loaded, ledger, crashes>>

ProducerStep ==
  /\ \E k \in Prod!Conn : Prod!Connected(k) \/ Prod!ChannelCreated(k) \/ Prod!QueueAsserted(k)
     \/ Prod!Reconnect
  /\ UNCHANGED <<consumerVars, queueVars, running, late, loaded, ledger, crashes>>

ProducerDropped ==
  /\ \E k \in Prod!Conn, kind \in Prod!DropKinds :
       /\ Prod!Dropped(k, kind)
       /\ running' = {IF x.through = k THEN [x EXCEPT !.through = Null] ELSE x : x \in running}
  /\ UNCHANGED <<consumerVars, queueVars, late, loaded, ledger, crashes>>

-----------------------------------------------------------------------------

Step(x) ==
  \/ Handled(x) \/ HandlerFailed(x) \/ TaskTimeout(x) \/ Sent(x)
  \/ \E h \in x.waiting : Confirmed(x, h) \/ SendLost(x, h)

Next ==
  \/ PublishEvent \/ Load \/ LateEnds \/ Crash
  \/ \E k \in Cons!Conn : Deliver(k)
  \/ \E x \in running : Step(x)
  \/ ConsumerStep \/ ConsumerDropped \/ ProducerStep \/ ProducerDropped

Spec == Init /\ [][Next]_vars

\* The event loop, the broker and the timers go on.  Nothing is promised of a
\* confirmation whose channel is gone.
FairSpec ==
  /\ Spec
  /\ WF_vars(PublishEvent) /\ WF_vars(Load)
  /\ WF_vars(ConsumerStep) /\ WF_vars(ProducerStep)
  /\ WF_vars(\E k \in Cons!Conn : Deliver(k))
  /\ WF_vars(\E x \in running :
       Handled(x) \/ Sent(x) \/ \E h \in x.waiting : Confirmed(x, h))

-----------------------------------------------------------------------------
(* Properties *)

Tasks(messages) == {Task(m) : m \in messages}

InHand == {x.message : x \in running}

Messages == [event : 1..published, hop : Hop, priority : {0, 1}, seq : Nat]

\* Type invariant.  What executions go through is up: the consumer channel of
\* one that can acknowledge, the producer channel of one whose messages are
\* not confirmed.
TypeOK ==
  /\ published \in 0..NEvents /\ nextSeq \in Nat
  /\ ready \subseteq Messages /\ late \subseteq Messages
  /\ running \subseteq
       [message : Messages, via : DOMAIN cLink \cup {Null}, phase : {"handling", "sending"},
        outs : SUBSET Hop, waiting : SUBSET Hop, through : DOMAIN pLink \cup {Null}]
  /\ \A m \in ready \cup InHand \cup late : m.seq < nextSeq
  /\ \A x \in running :
       /\ x.via # Null => cLink[x.via] = "ready"
       /\ x.through # Null => pLink[x.through] \in {"asserting", "ready"}
       /\ x.waiting \subseteq x.outs /\ x.outs \subseteq Wires[x.message.hop]
       /\ x.phase = "handling" => x.outs = {}
  /\ ended \subseteq (1..published) \X Hop

\* Where a task can have gone: the queue, an execution that has not acknowledged
\* it, the acknowledged ones, those given up in the log.
Accounted == ended \cup dropped \cup Tasks(ready) \cup Tasks({x.message : x \in Unacked})

\* Every task asked for is somewhere: no crash, lost connection or partial
\* publication makes one disappear.  (With the types.)
NotLost == TypeOK /\ due \subseteq Accounted

\* As long as the consumer keeps its connection, nothing of an earlier event of
\* the device is in the queue or in hand while a task is executed: "new coming
\* event will need to wait until the previous being processed" (executor.js),
\* and "only 1 unacked msg" (amqp.js).  (Handlers past their timeout go on.)
InOrder ==
  cDrops = 0 =>
    /\ \A x \in running : \A m \in ready \cup InHand : m.event >= x.message.event
    /\ Cardinality(Unacked) <= 1

\* Every event ends, and the queue with it.
Drained == <>[](published = NEvents /\ ready = {} /\ running = {})
=============================================================================
