----------------------------- MODULE MCTaskQueue -----------------------------
(***************************************************************************)
(* AmqpClient and TaskQueue for TLC, side by side: the initial state says  *)
(* in part which of them takes steps, and with which constants.  The cfg   *)
(* gives the constants of "client" and of "order"; the properties are      *)
(* those of the two modules, in every part.                                *)
(***************************************************************************)
EXTENDS AmqpClient, TaskQueue, TLC

VARIABLE part  \* "client", "order", "consumer", "redelivered", "producer"

mcVars == <<part, amqpVars, vars>>

\* Node 1 leads to nodes 2 and 3.
Fork == (1 :> {2, 3}) @@ (2 :> {}) @@ (3 :> {})
Chain == (1 :> {2}) @@ (2 :> {})

\* An event, the consumer's connection lost, failures, timeouts, a crash.
Consumer == INSTANCE TaskQueue WITH
  Hop <- {1, 2}, Heads <- {1}, Wires <- Chain, NEvents <- 1,
  ConsumerDrops <- 1, ProducerDrops <- 0, NodeFails <- TRUE, NodeSlow <- TRUE, MaxCrashes <- 1

\* Two events, the consumer's connection lost.
Redelivered == INSTANCE TaskQueue WITH
  Hop <- {1, 2}, Heads <- {1}, Wires <- Chain, NEvents <- 2,
  ConsumerDrops <- 1, ProducerDrops <- 0, NodeFails <- FALSE, NodeSlow <- FALSE, MaxCrashes <- 0

\* Two events, the producer's connection lost, failures and timeouts.
Producer == INSTANCE TaskQueue WITH
  Hop <- {1, 2}, Heads <- {1}, Wires <- Chain, NEvents <- 2,
  ConsumerDrops <- 0, ProducerDrops <- 1, NodeFails <- TRUE, NodeSlow <- TRUE, MaxCrashes <- 0

\* The part that takes no step stays as it starts.
MCInit ==
  /\ AmqpInit
  /\ \/ part \in {"client", "order"} /\ Init
     \/ part = "consumer" /\ Consumer!Init
     \/ part = "redelivered" /\ Redelivered!Init
     \/ part = "producer" /\ Producer!Init

InClient(A) == part = "client" /\ A /\ UNCHANGED <<part, vars>>
InConsumer(A) == part = "consumer" /\ A /\ UNCHANGED <<part, amqpVars>>

MCNext ==
  \/ InClient(AmqpNext)
  \/ part = "order" /\ Next /\ UNCHANGED <<part, amqpVars>>
  \/ InConsumer(Consumer!Next)
  \/ part = "redelivered" /\ Redelivered!Next /\ UNCHANGED <<part, amqpVars>>
  \/ part = "producer" /\ Producer!Next /\ UNCHANGED <<part, amqpVars>>

\* The fairness of AmqpClient by itself, and of the queue with one event.
MCFairness ==
  /\ \A k \in Conn :
       /\ WF_mcVars(InClient(Connected(k) \/ ConnectFailed(k)))
       /\ WF_mcVars(InClient(ChannelCreated(k))) /\ WF_mcVars(InClient(QueueAsserted(k)))
  /\ WF_mcVars(InClient(Reconnect))
  /\ WF_mcVars(InConsumer(Consumer!PublishEvent)) /\ WF_mcVars(InConsumer(Consumer!Load))
  /\ WF_mcVars(InConsumer(Consumer!ConsumerStep)) /\ WF_mcVars(InConsumer(Consumer!ProducerStep))
  /\ WF_mcVars(InConsumer(\E k \in Consumer!Cons!Conn : Consumer!Deliver(k)))
  /\ WF_mcVars(InConsumer(\E x \in running :
       \/ Consumer!Handled(x) \/ Consumer!Sent(x)
       \/ \E h \in x.waiting : Consumer!Confirmed(x, h)))

MCSpec == MCInit /\ [][MCNext]_mcVars /\ MCFairness

-----------------------------------------------------------------------------

\* When connections stop failing an AMQP object has a channel and keeps it;
\* every event ends, and the queue with it.
ServedInTheEnd ==
  /\ part = "client" => ConnectedInTheEnd
  /\ part = "consumer" => Consumer!Drained
=============================================================================
