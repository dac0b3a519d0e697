----------------------------- MODULE AmqpClient -----------------------------
(***************************************************************************)
(* The life cycle of an AMQPProducer or AMQPConsumer (orchestrator/amqp.js) *)
(* on top of amqplib: connections that come up in three steps, that are    *)
(* lost, and the handlers that reconnect.  Both classes go through the     *)
(* same steps; the last one starts the consumer or only asserts the queue. *)
(***************************************************************************)
EXTENDS Naturals, FiniteSets

CONSTANTS
  MaxDrops,    \* how many connections are lost
  MaxFailures  \* how many attempts fail

ASSUME AmqpAssumption == MaxDrops \in Nat /\ MaxFailures \in Nat

\* How connections are lost: "close", or "error" and then close.
DropKinds == {"close", "error"}

\* Identities for the connections that exist at the same time: every loss
\* leaves at most two more attempts behind, every failure one.
Conn == 1..(1 + 2 * MaxDrops + MaxFailures)

\* null, in place of a connection.
NoConn == 0

VARIABLES
  link,        \* each connection: free, connecting, opening its channel, idle
               \* (its channel failed), asserting the queue, ready
  connection,  \* this.connection
  channel,     \* the connection of this.channel
  retries,     \* the delays of reconnect that are running
  drops, failures

amqpVars == <<link, connection, channel, retries, drops, failures>>

Up(k) == link[k] \in {"opening", "idle", "asserting", "ready"}

\* The constructor and the first connect.
AmqpInit ==
  /\ link = [k \in Conn |-> IF k = 1 THEN "connecting" ELSE "free"]
  /\ connection = NoConn /\ channel = NoConn
  /\ retries = 0 /\ drops = 0 /\ failures = 0

NewConn == CHOOSE k \in Conn : link[k] = "free"

Forget == connection' = NoConn /\ channel' = NoConn

-----------------------------------------------------------------------------

Connected(k) ==
  /\ link[k] = "connecting"
  /\ link' = [link EXCEPT ![k] = "opening"]
  /\ connection' = k
  /\ UNCHANGED <<channel, retries, drops, failures>>

ChannelCreated(k) ==
  /\ link[k] = "opening"
  /\ link' = [link EXCEPT ![k] = "asserting"]
  /\ channel' = k
  /\ UNCHANGED <<connection, retries, drops, failures>>

QueueAsserted(k) ==
  /\ link[k] = "asserting"
  /\ link' = [link EXCEPT ![k] = "ready"]
  /\ UNCHANGED <<connection, channel, retries, drops, failures>>

\* Mutant of ConnectFailed: nothing is tried again.
ConnectFailedForGood(k) ==
  /\ failures < MaxFailures
  /\ link[k] \in {"connecting", "opening"}
  /\ failures' = failures + 1
  /\ link' = [link EXCEPT ![k] = IF @ = "connecting" THEN "free" ELSE "idle"]
  /\ Forget
  /\ UNCHANGED <<retries, drops>>

\* No connection, or no channel on it (the connection stays, unused): the
\* fields are cleared, whoever set them, and reconnect waits for its delay.
ConnectFailed(k) ==
  /\ failures < MaxFailures
  /\ link[k] \in {"connecting", "opening"}
  /\ failures' = failures + 1
  /\ link' = [link EXCEPT ![k] = IF @ = "connecting" THEN "free" ELSE "idle"]
  /\ Forget
  /\ retries' = retries + 1
  /\ UNCHANGED drops

\* reconnect, after its delay.
Reconnect ==
  /\ retries > 0
  /\ retries' = retries - 1
  /\ link' = [link EXCEPT ![NewConn] = "connecting"]
  /\ UNCHANGED <<connection, channel, drops, failures>>

\* Mutant of Dropped: the handlers leave the fields as they are.
DroppedKeepsFields(k, kind) ==
  /\ drops < MaxDrops
  /\ drops' = drops + 1
  /\ link[k] \in {"opening", "idle", "ready"}
  /\ link' = [link EXCEPT ![k] = "free", ![NewConn] = "connecting"]
  /\ retries' = retries + (IF kind = "error" THEN 1 ELSE 0)
                        + (IF link[k] = "opening" THEN 1 ELSE 0)
  /\ UNCHANGED <<connection, channel, failures>>

\* A connection is lost.  'close' clears the fields and connects at once; an
\* 'error' before it has started a reconnect as well; and a channel that was
\* being opened fails, which starts one more.
Dropped(k, kind) ==
  /\ drops < MaxDrops
  /\ drops' = drops + 1
  /\ link[k] \in {"opening", "idle", "ready"}
  /\ link' = [link EXCEPT ![k] = "free", ![NewConn] = "connecting"]
  /\ Forget
  /\ retries' = retries + (IF kind = "error" THEN 1 ELSE 0)
                        + (IF link[k] = "opening" THEN 1 ELSE 0)
  /\ UNCHANGED failures

\* A connection is lost, or its queue refused, between the channel and the
\* queue: nobody waits for that promise, and an unhandled rejection ends the
\* process (index.js).
AssertFailed(k) == drops < MaxDrops /\ link[k] = "asserting"

\* The process starts again.
AmqpRestart ==
  /\ link' = [k \in Conn |-> IF k = 1 THEN "connecting" ELSE "free"]
  /\ Forget
  /\ retries' = 0

AmqpNext ==
  \/ \E k \in Conn : Connected(k) \/ ChannelCreated(k) \/ QueueAsserted(k) \/ ConnectFailed(k)
  \/ \E k \in Conn, kind \in DropKinds : Dropped(k, kind)
  \/ Reconnect
  \/ /\ \E k \in Conn : AssertFailed(k)
     /\ AmqpRestart
     /\ drops' = drops + 1
     /\ UNCHANGED failures

AmqpSpec == AmqpInit /\ [][AmqpNext]_amqpVars

\* The broker and amqplib answer, delays elapse.
AmqpFairness ==
  /\ \A k \in Conn : WF_amqpVars(Connected(k) \/ ConnectFailed(k))
                  /\ WF_amqpVars(ChannelCreated(k)) /\ WF_amqpVars(QueueAsserted(k))
  /\ WF_amqpVars(Reconnect)

AmqpFairSpec == AmqpSpec /\ AmqpFairness

-----------------------------------------------------------------------------
(* Properties *)

\* Type invariant.
AmqpTypeOK ==
  /\ link \in [Conn -> {"free", "connecting", "opening", "idle", "asserting", "ready"}]
  /\ connection \in Conn \cup {NoConn} /\ channel \in Conn \cup {NoConn}
  /\ retries \in 0..(2 * MaxDrops + MaxFailures)
  /\ drops \in 0..MaxDrops /\ failures \in 0..MaxFailures

\* What the object sends through is a connection that is up, although the
\* handlers of several connections, old and new, write the fields.
FieldsAreUp ==
  /\ connection # NoConn => Up(connection)
  /\ channel # NoConn => link[channel] \in {"asserting", "ready"}

\* An object without a channel is on its way to one: whatever cleared the
\* fields has left an attempt behind it.
NoChannelMeansTrying ==
  channel = NoConn => retries > 0 \/ \E k \in Conn : link[k] \in {"connecting", "opening"}

\* Connections pile up, but only by failures: a loss adds two attempts at most
\* to the one it replaces, a failed attempt one.
ConnectionsBounded ==
  Cardinality({k \in Conn : link[k] # "free"}) + retries <= 1 + 2 * drops + failures

\* The fields tell what the connections are, or an attempt to get one is under
\* way, whichever handlers ran in whichever order.
FieldsSound == AmqpTypeOK /\ FieldsAreUp /\ NoChannelMeansTrying /\ ConnectionsBounded

\* When connections stop failing the object has a channel and keeps it.
ConnectedInTheEnd == <>[](channel # NoConn /\ link[channel] = "ready")
=============================================================================
