--------------------------- MODULE TaskQueueProofs ---------------------------
(***************************************************************************)
(* No task of a queue is lost without a line in the log, and tasks are     *)
(* executed in the order of the events as long as the consumer keeps its   *)
(* connection, for every flow, number of events, losses and crashes.       *)
(***************************************************************************)
EXTENDS TaskQueue, FiniteSetTheorems, TLAPS

ConsP == INSTANCE AmqpProofs WITH
  link <- cLink, connection <- cConnection, channel <- cChannel,
  retries <- cRetries, drops <- cDrops, failures <- cFailures,
  MaxDrops <- ConsumerDrops, MaxFailures <- 0

ProdP == INSTANCE AmqpProofs WITH
  link <- pLink, connection <- pConnection, channel <- pChannel,
  retries <- pRetries, drops <- pDrops, failures <- pFailures,
  MaxDrops <- ProducerDrops, MaxFailures <- 0

-----------------------------------------------------------------------------
(* The inductive invariant *)

\* The fields of the consumer and of the producer agree with their connections.
Links == ConsP!IndInv /\ ProdP!IndInv

\* Of an execution that sends, the tasks that are settled are accounted for,
\* those it still waits for will be.
Settled ==
  \A x \in running : \A h \in x.outs \ x.waiting : <<x.message.event, h>> \in Accounted

Alive == ready \cup InHand

\* A consumer that has lost no connection has one, the first, and one execution
\* on it at most.
OneChannel ==
  /\ cRetries = 0 /\ \A k \in DOMAIN cLink : k # 1 => cLink[k] = "free"
  /\ \A x, y \in running : x.via # Null /\ x = y

\* The tasks of an event in progress precede, by their priority or by their
\* order, those of later events.
Ranked ==
  \A m, n \in Alive :
    /\ m.priority = 1 => m.event <= n.event
    /\ m.priority = 0 /\ n.priority = 0 /\ m.event < n.event => m.seq < n.seq

Eldest == \A x \in running : \A m \in Alive : m.event >= x.message.event

Ordered == cDrops = 0 => OneChannel /\ Ranked /\ Eldest

IndInv == Links /\ TypeOK /\ due \subseteq Accounted /\ Settled /\ Ordered

-----------------------------------------------------------------------------
(* The connections *)

\* A queue has the connections its process starts with.
LEMMA LinksInit == Init => Links
<1> SUFFICES ASSUME Init PROVE Links
  OBVIOUS
<1>1. ConsumerDrops \in Nat /\ 0 \in Nat /\ ProducerDrops \in Nat
  BY TaskQueueAssumption
<1>2. ConsP!AmqpInit /\ ProdP!AmqpInit
  BY DEF Init, Cons!AmqpInit, Prod!AmqpInit, ConsP!AmqpInit, ProdP!AmqpInit, Cons!Conn, ConsP!Conn,
     Prod!Conn, ProdP!Conn, Cons!NoConn, ConsP!NoConn, Prod!NoConn, ProdP!NoConn
<1> QED
  BY <1>1, <1>2, ConsP!InitInd, ProdP!InitInd DEF Links

\* The consumer is an AmqpClient of its own.
LEMMA ConsumerSame ==
  /\ Cons!Conn = ConsP!Conn /\ Cons!DropKinds = ConsP!DropKinds
  /\ \A k : /\ Cons!Connected(k) <=> ConsP!Connected(k)
            /\ Cons!ChannelCreated(k) <=> ConsP!ChannelCreated(k)
            /\ Cons!QueueAsserted(k) <=> ConsP!QueueAsserted(k)
  /\ \A k, kind : Cons!Dropped(k, kind) <=> ConsP!Dropped(k, kind)
  /\ Cons!Reconnect <=> ConsP!Reconnect
  /\ Cons!AmqpRestart <=> ConsP!AmqpRestart
<1>1. Cons!Conn = ConsP!Conn /\ Cons!DropKinds = ConsP!DropKinds /\ Cons!NewConn = ConsP!NewConn
      /\ (Cons!Forget <=> ConsP!Forget)
  BY DEF Cons!Conn, ConsP!Conn, Cons!DropKinds, ConsP!DropKinds, Cons!NewConn, ConsP!NewConn,
     Cons!Forget, ConsP!Forget, Cons!NoConn, ConsP!NoConn
<1>2. \A k : /\ Cons!Connected(k) <=> ConsP!Connected(k)
             /\ Cons!ChannelCreated(k) <=> ConsP!ChannelCreated(k)
             /\ Cons!QueueAsserted(k) <=> ConsP!QueueAsserted(k)
  BY DEF Cons!Connected, ConsP!Connected, Cons!ChannelCreated, ConsP!ChannelCreated,
     Cons!QueueAsserted, ConsP!QueueAsserted
<1>3. \A k, kind : Cons!Dropped(k, kind) <=> ConsP!Dropped(k, kind)
  BY <1>1 DEF Cons!Dropped, ConsP!Dropped
<1>4. Cons!Reconnect <=> ConsP!Reconnect
  BY <1>1 DEF Cons!Reconnect, ConsP!Reconnect
<1>5. Cons!AmqpRestart <=> ConsP!AmqpRestart
  BY <1>1 DEF Cons!AmqpRestart, ConsP!AmqpRestart
<1> QED
  BY <1>1, <1>2, <1>3, <1>4, <1>5

\* Its steps are steps of AmqpClient; a process that starts again has the
\* invariant as well.
LEMMA ConsumerLinks ==
  ASSUME ConsP!IndInv,
         \/ UNCHANGED consumerVars
         \/ ConsumerStep \/ ConsumerDropped
         \/ Cons!AmqpRestart /\ UNCHANGED <<cDrops, cFailures>>
  PROVE  ConsP!IndInv'
<1> USE TaskQueueAssumption
<1>1. CASE UNCHANGED consumerVars
  <2>1. UNCHANGED ConsP!amqpVars
    BY <1>1 DEF consumerVars, ConsP!amqpVars
  <2> QED
    BY <2>1, ConsP!StepInd
<1>2. CASE ConsumerStep \/ ConsumerDropped
  <2>1. ConsP!AmqpNext
    BY <1>2, ConsumerSame DEF ConsumerStep, ConsumerDropped, ConsP!AmqpNext
  <2> QED
    BY <2>1, ConsP!StepInd
<1>3. CASE Cons!AmqpRestart /\ UNCHANGED <<cDrops, cFailures>>
  <2>1. ConsP!Typed /\ cDrops' \in 0..ConsumerDrops
    BY <1>3 DEF ConsP!IndInv, ConsP!Typed
  <2> QED
    BY <1>3, <2>1, ConsumerSame, ConsP!RestartInd
<1> QED
  BY <1>1, <1>2, <1>3

\* A consumer that is ready stays so until its own connection is lost.
LEMMA ConsumerStaysUp ==
  ASSUME ConsP!IndInv, NEW j \in DOMAIN cLink, cLink[j] = "ready",
         ConsumerStep \/ \E k \in Cons!Conn, kind \in Cons!DropKinds : k # j /\ Cons!Dropped(k, kind)
  PROVE  cLink'[j] = "ready"
<1>1. j \in ConsP!Conn /\ ConsumerDrops \in Nat
  BY TaskQueueAssumption DEF ConsP!IndInv, ConsP!Typed
<1> QED
  BY <1>1, ConsumerSame, ConsP!UpStaysUp DEF ConsumerStep

\* So is the producer.
LEMMA ProducerSame ==
  /\ Prod!Conn = ProdP!Conn /\ Prod!DropKinds = ProdP!DropKinds
  /\ \A k : /\ Prod!Connected(k) <=> ProdP!Connected(k)
            /\ Prod!ChannelCreated(k) <=> ProdP!ChannelCreated(k)
            /\ Prod!QueueAsserted(k) <=> ProdP!QueueAsserted(k)
  /\ \A k, kind : Prod!Dropped(k, kind) <=> ProdP!Dropped(k, kind)
  /\ Prod!Reconnect <=> ProdP!Reconnect
  /\ Prod!AmqpRestart <=> ProdP!AmqpRestart
<1>1. Prod!Conn = ProdP!Conn /\ Prod!DropKinds = ProdP!DropKinds /\ Prod!NewConn = ProdP!NewConn
      /\ (Prod!Forget <=> ProdP!Forget)
  BY DEF Prod!Conn, ProdP!Conn, Prod!DropKinds, ProdP!DropKinds, Prod!NewConn, ProdP!NewConn,
     Prod!Forget, ProdP!Forget, Prod!NoConn, ProdP!NoConn
<1>2. \A k : /\ Prod!Connected(k) <=> ProdP!Connected(k)
             /\ Prod!ChannelCreated(k) <=> ProdP!ChannelCreated(k)
             /\ Prod!QueueAsserted(k) <=> ProdP!QueueAsserted(k)
  BY DEF Prod!Connected, ProdP!Connected, Prod!ChannelCreated, ProdP!ChannelCreated,
     Prod!QueueAsserted, ProdP!QueueAsserted
<1>3. \A k, kind : Prod!Dropped(k, kind) <=> ProdP!Dropped(k, kind)
  BY <1>1 DEF Prod!Dropped, ProdP!Dropped
<1>4. Prod!Reconnect <=> ProdP!Reconnect
  BY <1>1 DEF Prod!Reconnect, ProdP!Reconnect
<1>5. Prod!AmqpRestart <=> ProdP!AmqpRestart
  BY <1>1 DEF Prod!AmqpRestart, ProdP!AmqpRestart
<1> QED
  BY <1>1, <1>2, <1>3, <1>4, <1>5

\* The same of its steps.
LEMMA ProducerLinks ==
  ASSUME ProdP!IndInv,
         \/ UNCHANGED producerVars
         \/ ProducerStep \/ ProducerDropped
         \/ Prod!AmqpRestart /\ UNCHANGED <<pDrops, pFailures>>
  PROVE  ProdP!IndInv'
<1> USE TaskQueueAssumption
<1>1. CASE UNCHANGED producerVars
  <2>1. UNCHANGED ProdP!amqpVars
    BY <1>1 DEF producerVars, ProdP!amqpVars
  <2> QED
    BY <2>1, ProdP!StepInd
<1>2. CASE ProducerStep \/ ProducerDropped
  <2>1. ProdP!AmqpNext
    BY <1>2, ProducerSame DEF ProducerStep, ProducerDropped, ProdP!AmqpNext
  <2> QED
    BY <2>1, ProdP!StepInd
<1>3. CASE Prod!AmqpRestart /\ UNCHANGED <<pDrops, pFailures>>
  <2>1. ProdP!Typed /\ pDrops' \in 0..ProducerDrops
    BY <1>3 DEF ProdP!IndInv, ProdP!Typed
  <2> QED
    BY <1>3, <2>1, ProducerSame, ProdP!RestartInd
<1> QED
  BY <1>1, <1>2, <1>3

\* A channel of the producer lives until its own connection is lost.
LEMMA ProducerStaysUp ==
  ASSUME ProdP!IndInv, NEW j \in DOMAIN pLink, pLink[j] \in {"asserting", "ready"},
         ProducerStep \/ \E k \in Prod!Conn, kind \in Prod!DropKinds : k # j /\ Prod!Dropped(k, kind)
  PROVE  pLink'[j] \in {"asserting", "ready"}
<1>1. j \in ProdP!Conn /\ ProducerDrops \in Nat
  BY TaskQueueAssumption DEF ProdP!IndInv, ProdP!Typed
<1> QED
  BY <1>1, ProducerSame, ProdP!UpStaysUp DEF ProducerStep

\* An acknowledgement is carried out, or the process starts again.
Acked(x, next) ==
  /\ x.via # Null
  /\ running' = running \ {x}
  /\ ended' = ended \cup {Task(x.message)}
  /\ due' = due \cup {<<x.message.event, h>> : h \in next}
  /\ late' \subseteq late \cup {x.message}
  /\ UNCHANGED <<consumerVars, producerVars, queueVars, dropped>>

\* An execution goes on as y; what has become of its outputs in S is known.
GoesOn(x, y, S) ==
  /\ running' = (running \ {x}) \cup {y}
  /\ y.message = x.message /\ y.via = x.via
  /\ y.outs \ y.waiting \subseteq (x.outs \ x.waiting) \cup S
  /\ \/ /\ dropped' = dropped \cup {<<x.message.event, h>> : h \in S}
        /\ UNCHANGED <<ready, nextSeq>>
     \/ /\ \E h \in Hop : /\ S = {h}
                          /\ ready' = ready \cup {Message(x.message.event, h, 1, nextSeq)}
        /\ nextSeq' = nextSeq + 1
        /\ UNCHANGED dropped
  /\ UNCHANGED <<consumerVars, producerVars, published, late, due, ended>>

\* What the steps that end an execution do.
LEMMA AckCases ==
  ASSUME NEW x, HandlerFailed(x) \/ TaskTimeout(x) \/ Sent(x)
  PROVE  \/ Restart
         \/ Acked(x, {})
         \/ Acked(x, x.outs) /\ x.phase = "sending" /\ x.waiting = {}
BY DEF HandlerFailed, TaskTimeout, Sent, Ack, Acked, ledger

LEMMA LinksStep == ASSUME Links, [Next]_vars PROVE Links'
<1>1. CASE UNCHANGED <<consumerVars, producerVars>>
  BY <1>1, ConsumerLinks, ProducerLinks DEF Links
<1>2. CASE Restart
  <2>1. Cons!AmqpRestart /\ UNCHANGED <<cDrops, cFailures>>
    BY <1>2 DEF Restart
  <2>2. Prod!AmqpRestart /\ UNCHANGED <<pDrops, pFailures>>
    BY <1>2 DEF Restart
  <2> QED
    BY <2>1, <2>2, ConsumerLinks, ProducerLinks DEF Links
<1>3. CASE ConsumerStep
  BY <1>3, ConsumerLinks, ProducerLinks DEF Links, ConsumerStep
<1>4. CASE ConsumerDropped
  BY <1>4, ConsumerLinks, ProducerLinks DEF Links, ConsumerDropped
<1>5. CASE ProducerStep
  BY <1>5, ConsumerLinks, ProducerLinks DEF Links, ProducerStep
<1>6. CASE ProducerDropped
  BY <1>6, ConsumerLinks, ProducerLinks DEF Links, ProducerDropped
<1>7. ASSUME NEW x \in running, Step(x)
      PROVE  Restart \/ UNCHANGED <<consumerVars, producerVars>>
  <2>1. CASE HandlerFailed(x) \/ TaskTimeout(x) \/ Sent(x)
    BY <2>1, AckCases DEF Acked
  <2>2. CASE Handled(x)
    BY <2>2 DEF Handled
  <2>3. ASSUME NEW h \in x.waiting, Confirmed(x, h) \/ SendLost(x, h)
        PROVE  UNCHANGED <<consumerVars, producerVars>>
    BY <2>3 DEF Confirmed, SendLost
  <2> QED
    BY <1>7, <2>1, <2>2, <2>3 DEF Step
<1>8. CASE PublishEvent \/ Load \/ LateEnds \/ \E k \in Cons!Conn : Deliver(k)
  BY <1>8, <1>1 DEF PublishEvent, Load, LateEnds, Deliver
<1>9. CASE Crash
  BY <1>9, <1>2 DEF Crash
<1>10. CASE UNCHANGED vars
  BY <1>10, <1>1 DEF vars
<1> QED
  BY <1>1, <1>2, <1>3, <1>4, <1>5, <1>6, <1>7, <1>8, <1>9, <1>10 DEF Next

\* What they are used for.
LEMMA LinkFacts ==
  ASSUME Links
  PROVE  /\ DOMAIN cLink = Cons!Conn /\ DOMAIN pLink = Prod!Conn
         /\ Null \notin Cons!Conn /\ Null \notin Prod!Conn
         /\ pChannel \in DOMAIN pLink \cup {Null}
         /\ pChannel # Null => pLink[pChannel] \in {"asserting", "ready"}
<1>1. Cons!Conn = ConsP!Conn /\ Prod!Conn = ProdP!Conn
  BY ConsumerSame, ProducerSame
<1>2. Null \notin ConsP!Conn /\ Null \notin ProdP!Conn /\ Null = ProdP!NoConn
  BY DEF Null, Cons!NoConn, ConsP!Conn, ProdP!Conn, ProdP!NoConn
<1>3. DOMAIN cLink = ConsP!Conn /\ DOMAIN pLink = ProdP!Conn
  BY DEF Links, ConsP!IndInv, ConsP!Typed, ProdP!IndInv, ProdP!Typed
<1>4. pChannel \in ProdP!Conn \cup {Null}
      /\ (pChannel # Null => pLink[pChannel] \in {"asserting", "ready"})
  BY <1>2 DEF Links, ProdP!IndInv, ProdP!Typed, ProdP!FieldsAreUp
<1> QED
  BY <1>1, <1>2, <1>3, <1>4

-----------------------------------------------------------------------------
(* The types *)

\* What the type invariant says of one execution.
ExecutionOK(x) ==
  /\ x \in [message : Messages, via : DOMAIN cLink \cup {Null}, phase : {"handling", "sending"},
            outs : SUBSET Hop, waiting : SUBSET Hop, through : DOMAIN pLink \cup {Null}]
  /\ x.message.seq < nextSeq
  /\ x.via # Null => cLink[x.via] = "ready"
  /\ x.through # Null => pLink[x.through] \in {"asserting", "ready"}
  /\ x.waiting \subseteq x.outs /\ x.outs \subseteq Wires[x.message.hop]
  /\ x.phase = "handling" => x.outs = {}

MessageOK(m) == m \in Messages /\ m.seq < nextSeq

Types ==
  /\ published \in 0..NEvents /\ nextSeq \in Nat
  /\ \A m \in ready \cup late : MessageOK(m)
  /\ \A x \in running : ExecutionOK(x)
  /\ ended \subseteq (1..published) \X Hop

LEMMA TypeByParts == (TypeOK <=> Types) /\ (TypeOK' <=> Types')
BY DEF TypeOK, Types, MessageOK, ExecutionOK, InHand

\* Messages stay messages while events are published.
LEMMA MessagesGrow ==
  ASSUME published \in Nat, nextSeq \in Nat, published' \in Nat, nextSeq' \in Nat,
         published <= published', nextSeq <= nextSeq'
  PROVE  /\ \A m : MessageOK(m) => MessageOK(m)'
         /\ (1..published) \X Hop \subseteq (1..(published')) \X Hop
BY DEF MessageOK, Messages

\* An execution stays one while its channels live.
LEMMA ExecutionStays ==
  ASSUME published \in Nat, nextSeq \in Nat, published' \in Nat, nextSeq' \in Nat,
         published <= published', nextSeq <= nextSeq', UNCHANGED <<cLink, pLink>>
  PROVE  \A x : ExecutionOK(x) => ExecutionOK(x)'
BY DEF ExecutionOK, Messages

\* The first or a further message of an event is one.
LEMMA NewMessage ==
  ASSUME published' \in Nat, NEW e \in 1..(published'), NEW h \in Hop, NEW pr \in {0, 1},
         NEW q \in Nat, nextSeq' = q + 1
  PROVE  MessageOK(Message(e, h, pr, q))'
BY DEF MessageOK, Messages, Message

\* What is known of an execution when it takes a step.
LEMMA ExecutionFacts ==
  ASSUME TypeOK, NEW x \in running
  PROVE  /\ ExecutionOK(x) /\ x.message \in Messages /\ x.message.hop \in Hop
         /\ x.message.event \in 1..published /\ published \in Nat
         /\ nextSeq \in Nat /\ x.message.seq < nextSeq
         /\ Wires[x.message.hop] \in SUBSET Hop
BY TypeByParts, TaskQueueAssumption DEF Types, ExecutionOK, Messages

\* The steps of an execution are of three kinds.
LEMMA StepCases ==
  ASSUME Links, TypeOK, NEW x \in running, Step(x)
  PROVE  \/ Restart
         \/ Acked(x, {})
         \/ Acked(x, x.outs) /\ x.phase = "sending" /\ x.waiting = {}
         \/ \E y, S : GoesOn(x, y, S) /\ ExecutionOK(y)
<1>1. CASE HandlerFailed(x) \/ TaskTimeout(x) \/ Sent(x)
  BY <1>1, AckCases
<1>2. CASE Handled(x)
  <2>1. PICK outs \in SUBSET Wires[x.message.hop] :
          /\ running' = (running \ {x}) \cup
               {[x EXCEPT !.phase = "sending", !.outs = outs,
                          !.waiting = IF Sender = Null THEN {} ELSE outs,
                          !.through = Sender]}
          /\ dropped' = IF Sender = Null
                        THEN dropped \cup {<<x.message.event, h>> : h \in outs} ELSE dropped
    BY <1>2 DEF Handled
  <2> DEFINE w == IF Sender = Null THEN {} ELSE outs
             y == [x EXCEPT !.phase = "sending", !.outs = outs, !.waiting = w, !.through = Sender]
  <2>2. ExecutionOK(y)
    BY ExecutionFacts, LinkFacts DEF ExecutionOK, Sender
  <2>3. y.message = x.message /\ y.via = x.via /\ y.outs = outs /\ y.waiting = w
    BY ExecutionFacts DEF ExecutionOK
  <2>4. GoesOn(x, y, outs \ w)
    BY <1>2, <2>1, <2>3 DEF Handled, GoesOn, queueVars
  <2> QED
    BY <2>2, <2>4
<1>3. ASSUME NEW h \in x.waiting, Confirmed(x, h) \/ SendLost(x, h)
      PROVE  \E y, S : GoesOn(x, y, S) /\ ExecutionOK(y)
  <2> DEFINE y == [x EXCEPT !.waiting = @ \ {h}]
  <2>1. ExecutionOK(y) /\ y.message = x.message /\ y.via = x.via /\ y.outs = x.outs
        /\ y.waiting = x.waiting \ {h} /\ h \in Hop
    BY ExecutionFacts DEF ExecutionOK
  <2>2. /\ y.outs \ y.waiting \subseteq (x.outs \ x.waiting) \cup {h}
        /\ {<<x.message.event, g>> : g \in {h}} = {<<x.message.event, h>>}
    BY <2>1
  <2>3. /\ running' = (running \ {x}) \cup {y}
        /\ UNCHANGED <<consumerVars, producerVars, published, late, due, ended>>
    BY <1>3 DEF Confirmed, SendLost, ledger
  <2>4. \/ /\ dropped' = dropped \cup {<<x.message.event, h>>}
           /\ UNCHANGED <<ready, nextSeq>>
        \/ /\ ready' = ready \cup {Message(x.message.event, h, 1, nextSeq)}
           /\ nextSeq' = nextSeq + 1
           /\ UNCHANGED dropped
    BY <1>3 DEF Confirmed, SendLost, Priority, ledger
  <2> HIDE DEF y
  <2>5. GoesOn(x, y, {h})
    BY <2>1, <2>2, <2>3, <2>4 DEF GoesOn
  <2> QED
    BY <2>1, <2>5
<1> QED
  BY <1>1, <1>2, <1>3 DEF Step

LEMMA TypesInit == ASSUME Init PROVE TypeOK
BY TaskQueueAssumption DEF Init, TypeOK, InHand

\* A step of an execution keeps the types.
LEMMA TypesExecution ==
  ASSUME Links, TypeOK, NEW x \in running, Step(x), ~ Restart PROVE TypeOK'
<1>0. Types /\ published \in Nat /\ nextSeq \in Nat
  BY TypeByParts DEF Types
<1>1. ASSUME NEW next, Acked(x, next) PROVE Types'
  <2>1. /\ UNCHANGED <<published, nextSeq, ready, cLink, pLink>> /\ running' \subseteq running
        /\ late' \subseteq late \cup {x.message} /\ ended' = ended \cup {Task(x.message)}
    BY <1>1 DEF Acked, queueVars, consumerVars, producerVars
  <2>2. \A y \in running' : ExecutionOK(y)'
    BY <1>0, <2>1, ExecutionStays DEF Types
  <2>3. MessageOK(x.message)
    BY ExecutionFacts DEF MessageOK
  <2>4. \A m \in ready' \cup late' : MessageOK(m)'
    BY <1>0, <2>1, <2>3, MessagesGrow DEF Types
  <2>5. ended' \subseteq (1..(published')) \X Hop
    BY <1>0, <2>1, ExecutionFacts DEF Types, Task
  <2> QED
    BY <1>0, <2>1, <2>2, <2>4, <2>5 DEF Types
<1>2. ASSUME NEW y, NEW S, GoesOn(x, y, S), ExecutionOK(y) PROVE Types'
  <2>1. UNCHANGED <<published, late, ended, cLink, pLink>>
    BY <1>2 DEF GoesOn, consumerVars, producerVars
  <2>2. nextSeq' \in Nat /\ nextSeq <= nextSeq'
    BY <1>0, <1>2 DEF GoesOn
  <2>3. \A z \in running' : ExecutionOK(z)'
    BY <1>0, <1>2, <2>1, <2>2, ExecutionStays DEF Types, GoesOn
  <2>4. \A m \in ready' \cup late' : MessageOK(m)'
    BY <1>0, <1>2, <2>1, <2>2, MessagesGrow, NewMessage, ExecutionFacts DEF Types, GoesOn
  <2> QED
    BY <1>0, <2>1, <2>2, <2>3, <2>4 DEF Types
<1> QED
  BY <1>1, <1>2, StepCases, TypeByParts

\* A process that starts again has no execution; its messages are in the queue.
LEMMA TypesRestart == ASSUME TypeOK, Restart PROVE TypeOK'
<1>1. /\ UNCHANGED <<published, nextSeq, ended>> /\ running' = {} /\ late' = {}
      /\ ready' = ready \cup {x.message : x \in Unacked} /\ Messages' = Messages
  BY DEF Restart, ledger, Messages
<1>2. \A x \in Unacked : x.message \in Messages /\ x.message.seq < nextSeq
  BY ExecutionFacts DEF Unacked
<1>3. \A m \in ready' \cup late' : MessageOK(m)'
  BY <1>1, <1>2, TypeByParts DEF Types, MessageOK
<1> QED
  BY <1>1, <1>3, TypeByParts DEF Types

\* The channels an execution goes through live until they are taken from it.
LEMMA TypesConnections ==
  ASSUME Links, Links', TypeOK,
         ConsumerStep \/ ConsumerDropped \/ ProducerStep \/ ProducerDropped
  PROVE  TypeOK'
<1> DEFINE C(x) == x.via # Null => cLink[x.via] = "ready"
           P(x) == x.through # Null => pLink[x.through] \in {"asserting", "ready"}
           Rest(x) == /\ x.message.seq < nextSeq
                      /\ x.waiting \subseteq x.outs /\ x.outs \subseteq Wires[x.message.hop]
                      /\ x.phase = "handling" => x.outs = {}
           Record(x) == x \in [message : Messages, via : Cons!Conn \cup {Null},
                               phase : {"handling", "sending"}, outs : SUBSET Hop,
                               waiting : SUBSET Hop, through : Prod!Conn \cup {Null}]
<1>0. /\ DOMAIN cLink = Cons!Conn /\ DOMAIN pLink = Prod!Conn
      /\ DOMAIN cLink' = Cons!Conn /\ DOMAIN pLink' = Prod!Conn
  BY LinkFacts, ConsumerSame, ProducerSame
     DEF Links, ConsP!IndInv, ConsP!Typed, ProdP!IndInv, ProdP!Typed
<1>1. UNCHANGED <<published, nextSeq, late, ended>> /\ Messages' = Messages
  BY DEF ConsumerStep, ConsumerDropped, ProducerStep, ProducerDropped, queueVars, ledger, Messages
<1>2. /\ Types /\ \A x : ExecutionOK(x) <=> C(x) /\ P(x) /\ Rest(x) /\ Record(x)
      /\ \A x : ExecutionOK(x)' <=> C(x)' /\ P(x)' /\ Rest(x) /\ Record(x)
  BY <1>0, <1>1, TypeByParts DEF ExecutionOK
<1>3. ASSUME ready' = ready, \A x \in running' : ExecutionOK(x)' PROVE TypeOK'
  BY <1>1, <1>2, <1>3, TypeByParts DEF Types, MessageOK
<1>4. CASE ConsumerStep
  <2>1. UNCHANGED <<running, ready, pLink>>
    BY <1>4 DEF ConsumerStep, queueVars, producerVars
  <2>2. \A x \in running : C(x)'
    BY <1>0, <1>2, <1>4, ConsumerStaysUp DEF Types, Links
  <2> QED
    BY <1>2, <1>3, <2>1, <2>2 DEF Types
<1>5. CASE ProducerStep
  <2>1. UNCHANGED <<running, ready, cLink>>
    BY <1>5 DEF ProducerStep, queueVars, consumerVars
  <2>2. \A x \in running : P(x)'
    BY <1>0, <1>2, <1>5, ProducerStaysUp DEF Types, Links
  <2> QED
    BY <1>2, <1>3, <2>1, <2>2 DEF Types
<1>6. CASE ConsumerDropped
  <2>1. PICK k \in Cons!Conn, kind \in Cons!DropKinds :
          /\ Cons!Dropped(k, kind)
          /\ ready' = ready \cup {x.message : x \in {y \in running : y.via = k}}
          /\ running' = {IF x.via = k THEN [x EXCEPT !.via = Null] ELSE x : x \in running}
    BY <1>6 DEF ConsumerDropped
  <2>2. UNCHANGED pLink
    BY <1>6 DEF ConsumerDropped, producerVars
  <2>3. ASSUME NEW x \in running, x.via # k PROVE ExecutionOK(x)'
    <3>1. C(x)'
      BY <1>0, <1>2, <2>1, <2>3, ConsumerStaysUp DEF Types, Links
    <3> QED
      BY <1>2, <2>2, <3>1 DEF Types
  <2>4. ASSUME NEW x \in running PROVE ExecutionOK([x EXCEPT !.via = Null])'
    <3> DEFINE y == [x EXCEPT !.via = Null]
    <3>1. Record(y) /\ Rest(y) /\ y.via = Null /\ y.through = x.through
      BY <1>2 DEF Types
    <3>2. C(y)' /\ P(y)'
      BY <1>2, <2>2, <3>1 DEF Types
    <3> HIDE DEF y
    <3>3. ExecutionOK(y)'
      BY <1>2, <3>1, <3>2
    <3> QED
      BY <3>3 DEF y, Null, Cons!NoConn
  <2>5. \A m \in ready' \cup late' : MessageOK(m)'
    BY <1>1, <1>2, <2>1, ExecutionFacts DEF Types, MessageOK
  <2> QED
    BY <1>1, <1>2, <2>1, <2>3, <2>4, <2>5, TypeByParts DEF Types
<1>7. CASE ProducerDropped
  <2>1. PICK k \in Prod!Conn, kind \in Prod!DropKinds :
          /\ Prod!Dropped(k, kind)
          /\ running' = {IF x.through = k THEN [x EXCEPT !.through = Null] ELSE x : x \in running}
    BY <1>7 DEF ProducerDropped
  <2>2. UNCHANGED <<cLink, ready>>
    BY <1>7 DEF ProducerDropped, consumerVars, queueVars
  <2>3. ASSUME NEW x \in running, x.through # k PROVE ExecutionOK(x)'
    <3>1. P(x)'
      BY <1>0, <1>2, <2>1, <2>3, ProducerStaysUp DEF Types, Links
    <3> QED
      BY <1>2, <2>2, <3>1 DEF Types
  <2>4. ASSUME NEW x \in running PROVE ExecutionOK([x EXCEPT !.through = Null])'
    <3> DEFINE y == [x EXCEPT !.through = Null]
    <3>1. Record(y) /\ Rest(y) /\ y.via = x.via /\ y.through = Null
      BY <1>2 DEF Types
    <3>2. C(y)' /\ P(y)'
      BY <1>2, <2>2, <3>1 DEF Types
    <3> HIDE DEF y
    <3>3. ExecutionOK(y)'
      BY <1>2, <3>1, <3>2
    <3> QED
      BY <3>3 DEF y, Null, Cons!NoConn
  <2> QED
    BY <1>3, <2>1, <2>2, <2>3, <2>4
<1> QED
  BY <1>4, <1>5, <1>6, <1>7

LEMMA TypesStep == ASSUME Links, Links', TypeOK, [Next]_vars PROVE TypeOK'
<1>0. Types /\ published \in Nat /\ nextSeq \in Nat
  BY TypeByParts DEF Types
<1>1. CASE PublishEvent
  <2>1. /\ published' = published + 1 /\ nextSeq' = nextSeq + 1
        /\ published' \in 0..NEvents /\ nextSeq' \in Nat /\ published' \in 1..(published')
        /\ ready' = ready \cup {Message(published', h, 0, nextSeq) : h \in Heads}
        /\ UNCHANGED <<cLink, pLink, running, late, ended>>
    BY <1>0, <1>1, TaskQueueAssumption DEF PublishEvent, consumerVars, producerVars, Types
  <2>2. \A x \in running' : ExecutionOK(x)'
    BY <1>0, <2>1, ExecutionStays DEF Types
  <2>3. PICK e, q : e = published' /\ q = nextSeq
    OBVIOUS
  <2>4. \A h \in Heads : MessageOK(Message(e, h, 0, q))'
    BY <1>0, <2>1, <2>3, NewMessage, TaskQueueAssumption
  <2>5. \A m \in ready' \cup late' : MessageOK(m)'
    BY <1>0, <2>1, <2>3, <2>4, MessagesGrow DEF Types
  <2> QED
    BY <1>0, <2>1, <2>2, <2>5, MessagesGrow, TypeByParts DEF Types
<1>2. ASSUME NEW k \in Cons!Conn, Deliver(k) PROVE TypeOK'
  <2>1. PICK m \in ready :
          /\ ready' = ready \ {m}
          /\ \/ running' = running \cup {Execution(m, k)} /\ UNCHANGED ended
             \/ UNCHANGED running /\ ended' = ended \cup {Task(m)}
    BY <1>2 DEF Deliver
  <2>2. /\ UNCHANGED <<published, nextSeq, late, cLink, pLink>> /\ cLink[k] = "ready"
        /\ Messages' = Messages
    BY <1>2 DEF Deliver, consumerVars, producerVars, Messages
  <2>3. MessageOK(m) /\ Wires[m.hop] \in SUBSET Hop /\ Task(m) \in (1..published) \X Hop
    BY <1>0, <2>1, TaskQueueAssumption DEF Types, MessageOK, Messages, Task
  <2>4. ExecutionOK(Execution(m, k))
    BY <2>2, <2>3, LinkFacts DEF ExecutionOK, Execution, MessageOK, Null, Cons!NoConn
  <2>5. ExecutionOK(Execution(m, k))' /\ \A x \in running : ExecutionOK(x)'
    <3>1. \A x : ExecutionOK(x) => ExecutionOK(x)'
      BY <1>0, <2>2, ExecutionStays
    <3> QED
      BY <1>0, <2>4, <3>1 DEF Types, Execution, Null, Cons!NoConn
  <2>6. \A n \in ready' \cup late' : MessageOK(n)'
    BY <1>0, <2>1, <2>2 DEF Types, MessageOK
  <2> QED
    BY <1>0, <2>1, <2>2, <2>3, <2>5, <2>6, TypeByParts DEF Types
<1>3. CASE Load \/ LateEnds \/ UNCHANGED vars
  <2>1. /\ UNCHANGED <<published, nextSeq, ready, running, ended, cLink, pLink>>
        /\ late' \subseteq late /\ Messages' = Messages
    BY <1>3 DEF Load, LateEnds, vars, queueVars, consumerVars, producerVars, ledger, Messages
  <2> QED
    BY <1>0, <2>1, TypeByParts DEF Types, MessageOK, ExecutionOK
<1>4. ASSUME NEW x \in running, Step(x) PROVE TypeOK'
  BY <1>4, TypesExecution, TypesRestart
<1> QED
  BY <1>1, <1>2, <1>3, <1>4, TypesRestart, TypesConnections DEF Next, Crash

-----------------------------------------------------------------------------
(* No task disappears *)

\* An execution that can acknowledge answers for its task, the queue for its
\* messages.
LEMMA AccountedBy ==
  /\ \A t : t \in Accounted <=> \/ t \in ended \/ t \in dropped
                                \/ \E m \in ready : t = Task(m)
                                \/ \E x \in running : x.via # Null /\ t = Task(x.message)
  /\ \A t : t \in Accounted' <=> \/ t \in ended' \/ t \in dropped'
                                 \/ \E m \in ready' : t = Task(m)
                                 \/ \E x \in running' : x.via # Null /\ t = Task(x.message)
BY DEF Accounted, Tasks, Unacked, Null, Cons!NoConn

\* No step makes a task disappear.
LEMMA AccountedGrows ==
  ASSUME Links, TypeOK, [Next]_vars PROVE Accounted \subseteq Accounted'
<1> SUFFICES ASSUME NEW t \in Accounted PROVE t \in Accounted'
  OBVIOUS
<1>1. CASE Restart
  BY <1>1, AccountedBy DEF Restart, ledger, Unacked
<1>2. ASSUME NEW x \in running, Step(x), ~ Restart PROVE t \in Accounted'
  <2>1. ASSUME NEW next, Acked(x, next) PROVE t \in Accounted'
    BY <2>1, AccountedBy DEF Acked, queueVars
  <2>2. ASSUME NEW y, NEW S, GoesOn(x, y, S) PROVE t \in Accounted'
    <3>1. ended' = ended /\ dropped \subseteq dropped' /\ ready \subseteq ready'
      BY <2>2 DEF GoesOn
    <3>2. y.message = x.message /\ y.via = x.via /\ running' = (running \ {x}) \cup {y}
      BY <2>2 DEF GoesOn
    <3> QED
      BY <3>1, <3>2, AccountedBy
  <2> QED
    BY <1>2, <2>1, <2>2, StepCases
<1>3. CASE PublishEvent \/ Load \/ LateEnds \/ UNCHANGED vars \/ ConsumerStep \/ ProducerStep
  <2>1. UNCHANGED <<running, ended, dropped>> /\ ready \subseteq ready'
    BY <1>3 DEF PublishEvent, Load, LateEnds, vars, ConsumerStep, ProducerStep, queueVars, ledger
  <2> QED
    BY <2>1, AccountedBy
<1>4. ASSUME NEW k \in Cons!Conn, Deliver(k) PROVE t \in Accounted'
  <2>1. PICK m \in ready :
          /\ ready' = ready \ {m}
          /\ \/ running' = running \cup {Execution(m, k)} /\ UNCHANGED <<ended, dropped>>
             \/ /\ UNCHANGED running /\ ended' = ended \cup {Task(m)}
                /\ dropped' = dropped \cup {Task(m)}
    BY <1>4 DEF Deliver
  <2>2. Execution(m, k).message = m /\ Execution(m, k).via # Null
    BY LinkFacts DEF Execution
  <2> QED
    BY <2>1, <2>2, AccountedBy
<1>5. CASE ConsumerDropped
  <2>1. PICK k \in Cons!Conn :
          /\ ready' = ready \cup {x.message : x \in {y \in running : y.via = k}}
          /\ running' = {IF x.via = k THEN [x EXCEPT !.via = Null] ELSE x : x \in running}
          /\ UNCHANGED <<ended, dropped>>
    BY <1>5 DEF ConsumerDropped, ledger
  <2> QED
    BY <2>1, AccountedBy
<1>6. CASE ProducerDropped
  <2>1. PICK k \in Prod!Conn :
          /\ running' = {IF x.through = k THEN [x EXCEPT !.through = Null] ELSE x : x \in running}
          /\ UNCHANGED <<ready, ended, dropped>>
    BY <1>6 DEF ProducerDropped, ledger, queueVars
  <2>2. ASSUME NEW x \in running PROVE \E y \in running' : y.message = x.message /\ y.via = x.via
    <3> DEFINE y == [x EXCEPT !.through = Null]
    <3>1. y.message = x.message /\ y.via = x.via
      BY ExecutionFacts DEF ExecutionOK
    <3>2. x.through = k => y \in running'
      BY <2>1
    <3>3. x.through # k => x \in running'
      BY <2>1
    <3> QED
      BY <3>1, <3>2, <3>3
  <2>3. CASE \E x \in running : x.via # Null /\ t = Task(x.message)
    BY <2>2, <2>3, AccountedBy
  <2> QED
    BY <2>1, <2>3, AccountedBy
<1> QED
  BY <1>1, <1>2, <1>3, <1>4, <1>5, <1>6 DEF Next, Crash

\* A loss of a connection takes a channel from executions, nothing else.
LEMMA DroppedKeeps ==
  ASSUME TypeOK, ConsumerDropped \/ ProducerDropped, NEW y \in running'
  PROVE  \E x \in running : /\ y.message = x.message /\ y.outs = x.outs /\ y.waiting = x.waiting
                            /\ y.via \in {x.via, Null}
                            /\ ProducerDropped => y.via = x.via
<1>1. CASE ProducerDropped
  <2>0. PICK k : running' = {IF x.through = k THEN [x EXCEPT !.through = Null] ELSE x : x \in running}
    BY <1>1 DEF ProducerDropped
  <2>1. PICK x \in running : y = IF x.through = k THEN [x EXCEPT !.through = Null] ELSE x
    BY <2>0
  <2>2. y.message = x.message /\ y.outs = x.outs /\ y.waiting = x.waiting /\ y.via = x.via
    BY <2>1, ExecutionFacts DEF ExecutionOK
  <2> QED
    BY <2>2
<1>2. CASE ConsumerDropped /\ ~ ProducerDropped
  <2>0. PICK k : running' = {IF x.via = k THEN [x EXCEPT !.via = Null] ELSE x : x \in running}
    BY <1>2 DEF ConsumerDropped
  <2>1. PICK x \in running : y = IF x.via = k THEN [x EXCEPT !.via = Null] ELSE x
    BY <2>0
  <2>2. y.message = x.message /\ y.outs = x.outs /\ y.waiting = x.waiting /\ y.via \in {x.via, Null}
    BY <2>1, ExecutionFacts DEF ExecutionOK
  <2> QED
    BY <1>2, <2>2
<1> QED
  BY <1>1, <1>2

\* What is asked for is accounted for.
LEMMA DueStep ==
  ASSUME Links, TypeOK, due \subseteq Accounted, Settled, [Next]_vars PROVE due' \subseteq Accounted'
<1>0. Accounted \subseteq Accounted'
  BY AccountedGrows
<1>1. CASE due' = due
  BY <1>0, <1>1
<1>2. CASE PublishEvent
  <2>1. \A h \in Heads : <<published + 1, h>> = Task(Message(published + 1, h, 0, nextSeq))
    BY DEF Task, Message
  <2>2. \A h \in Heads : <<published + 1, h>> \in Accounted'
    BY <1>2, <2>1, AccountedBy DEF PublishEvent
  <2> QED
    BY <1>0, <1>2, <2>2 DEF PublishEvent
<1>3. ASSUME NEW x \in running, Step(x), ~ Restart PROVE due' \subseteq Accounted'
  <2>1. CASE Acked(x, {})
    BY <1>1, <2>1 DEF Acked
  <2>2. CASE Acked(x, x.outs) /\ x.waiting = {}
    BY <1>0, <2>2 DEF Acked, Settled
  <2>3. CASE \E y, S : GoesOn(x, y, S)
    BY <1>1, <2>3 DEF GoesOn
  <2> QED
    BY <1>3, <2>1, <2>2, <2>3, StepCases
<1>4. CASE Restart \/ Load \/ LateEnds \/ ConsumerStep \/ ConsumerDropped \/ ProducerStep
           \/ ProducerDropped \/ UNCHANGED vars
  BY <1>1, <1>4 DEF Restart, Load, LateEnds, ConsumerStep, ConsumerDropped, ProducerStep,
     ProducerDropped, vars, ledger
<1>5. CASE \E k \in Cons!Conn : Deliver(k)
  BY <1>1, <1>5 DEF Deliver
<1> QED
  BY <1>2, <1>3, <1>4, <1>5 DEF Next, Crash

\* What an execution no longer waits for has a place.
LEMMA SettledStep == ASSUME Links, TypeOK, Settled, [Next]_vars PROVE Settled'
<1>0. Accounted \subseteq Accounted'
  BY AccountedGrows
<1>1. CASE running' \subseteq running
  BY <1>0, <1>1 DEF Settled
<1>2. ASSUME NEW x \in running, Step(x), ~ Restart PROVE Settled'
  <2>1. ASSUME NEW next, Acked(x, next) PROVE Settled'
    BY <1>1, <2>1 DEF Acked
  <2>2. ASSUME NEW y, NEW S, GoesOn(x, y, S) PROVE Settled'
    <3>1. ASSUME NEW h \in S PROVE <<x.message.event, h>> \in Accounted'
      <4>1. CASE dropped' = dropped \cup {<<x.message.event, g>> : g \in S}
        BY <4>1, AccountedBy
      <4>2. CASE S = {h} /\ ready' = ready \cup {Message(x.message.event, h, 1, nextSeq)}
        <5>1. Task(Message(x.message.event, h, 1, nextSeq)) = <<x.message.event, h>>
          BY DEF Task, Message
        <5> QED
          BY <4>2, <5>1, AccountedBy
      <4> QED
        BY <2>2, <4>1, <4>2 DEF GoesOn
    <3>2. \A h \in y.outs \ y.waiting : <<y.message.event, h>> \in Accounted'
      BY <1>0, <2>2, <3>1 DEF GoesOn, Settled
    <3> QED
      BY <1>0, <2>2, <3>2 DEF GoesOn, Settled
  <2> QED
    BY <1>2, <2>1, <2>2, StepCases
<1>3. CASE Restart \/ PublishEvent \/ Load \/ LateEnds \/ ConsumerStep \/ ProducerStep \/ UNCHANGED vars
  BY <1>1, <1>3 DEF Restart, PublishEvent, Load, LateEnds, ConsumerStep, ProducerStep, vars
<1>4. ASSUME NEW k \in Cons!Conn, Deliver(k) PROVE Settled'
  <2>1. \A m : Execution(m, k).outs = {}
    BY DEF Execution
  <2> QED
    BY <1>0, <1>4, <2>1 DEF Deliver, Settled
<1>5. CASE ConsumerDropped \/ ProducerDropped
  BY <1>0, <1>5, DroppedKeeps DEF Settled
<1> QED
  BY <1>2, <1>3, <1>4, <1>5 DEF Next, Crash

-----------------------------------------------------------------------------
(* The order of the events *)

LEMMA OrderedInit == ASSUME Init PROVE Ordered
<1>1. cRetries = 0 /\ \A k \in DOMAIN cLink : k # 1 => cLink[k] = "free"
  BY DEF Init, Cons!AmqpInit
<1> QED
  BY <1>1 DEF Init, Ordered, OneChannel, Ranked, Eldest, Alive, InHand

\* What is alive is a message, of an event published already.
LEMMA AliveTyped ==
  ASSUME TypeOK
  PROVE  /\ published \in Nat /\ nextSeq \in Nat
         /\ \A m \in Alive : /\ m.event \in Nat /\ m.event <= published /\ m.hop \in Hop
                             /\ m.priority \in {0, 1} /\ m.seq \in Nat /\ m.seq < nextSeq
<1>1. \A m \in Messages : m.event \in Nat /\ m.event <= published /\ m.hop \in Hop
                          /\ m.priority \in {0, 1} /\ m.seq \in Nat
  BY DEF Messages, TypeOK
<1>2. \A m \in Alive : m \in Messages /\ m.seq < nextSeq
  BY ExecutionFacts, TypeByParts DEF Alive, InHand, Types, MessageOK
<1> QED
  BY <1>1, <1>2 DEF TypeOK

\* A loss is counted, and never forgotten.
LEMMA DropsCounted ==
  ASSUME Links, TypeOK, [Next]_vars, cDrops' = 0 PROVE cDrops = 0 /\ ~ ConsumerDropped
<1>1. cDrops \in Nat
  BY DEF Links, ConsP!IndInv, ConsP!Typed
<1>2. CASE ConsumerDropped
  BY <1>1, <1>2 DEF ConsumerDropped, Cons!Dropped
<1>3. CASE ConsumerStep
  BY <1>3 DEF ConsumerStep, Cons!Connected, Cons!ChannelCreated, Cons!QueueAsserted, Cons!Reconnect,
     ConsumerDropped, Cons!Dropped
<1>4. CASE Restart
  BY <1>1, <1>4 DEF Restart, ConsumerDropped, Cons!Dropped
<1>5. ASSUME NEW x \in running, Step(x), ~ Restart PROVE cDrops' = cDrops
  <2>1. UNCHANGED consumerVars
    BY <1>5, StepCases DEF Acked, GoesOn
  <2> QED
    BY <2>1 DEF consumerVars
<1>6. CASE cDrops' = cDrops
  BY <1>1, <1>6 DEF ConsumerDropped, Cons!Dropped
<1>7. CASE PublishEvent \/ Load \/ LateEnds \/ ProducerStep \/ ProducerDropped \/ UNCHANGED vars
           \/ \E k \in Cons!Conn : Deliver(k)
  BY <1>7, <1>6 DEF PublishEvent, Load, LateEnds, ProducerStep, ProducerDropped, vars, Deliver,
     consumerVars
<1> QED
  BY <1>2, <1>3, <1>4, <1>5, <1>6, <1>7 DEF Next, Crash

\* The consumer's only connection stays the only one.
LEMMA ChannelStep ==
  ASSUME Links, TypeOK, OneChannel, [Next]_vars, ~ ConsumerDropped, UNCHANGED cDrops
  PROVE  cRetries' = 0 /\ \A k \in DOMAIN cLink' : k # 1 => cLink'[k] = "free"
<1> USE DEF OneChannel
<1>0. cLink \in [Cons!Conn -> ConsP!States] /\ cRetries = 0
  BY ConsumerSame DEF Links, ConsP!IndInv, ConsP!Typed
<1>1. CASE UNCHANGED consumerVars
  BY <1>1 DEF consumerVars
<1>2. CASE ConsumerStep
  BY <1>0, <1>2 DEF ConsumerStep, Cons!Connected, Cons!ChannelCreated, Cons!QueueAsserted,
     Cons!Reconnect
<1>3. CASE Restart
  BY <1>3 DEF Restart, Cons!AmqpRestart
<1>4. ASSUME NEW x \in running, Step(x), ~ Restart PROVE UNCHANGED consumerVars
  BY <1>4, StepCases DEF Acked, GoesOn
<1>5. CASE PublishEvent \/ Load \/ LateEnds \/ ProducerStep \/ ProducerDropped \/ UNCHANGED vars
           \/ \E k \in Cons!Conn : Deliver(k)
  BY <1>5, <1>1 DEF PublishEvent, Load, LateEnds, ProducerStep, ProducerDropped, vars, Deliver,
     consumerVars
<1> QED
  BY <1>1, <1>2, <1>3, <1>4, <1>5 DEF Next, Crash

\* It delivers when nothing is in hand.
LEMMA DeliverAlone ==
  ASSUME Links, TypeOK, OneChannel, NEW k \in Cons!Conn, Deliver(k) PROVE k # Null /\ running = {}
<1>1. k = 1 /\ k # Null
  BY LinkFacts DEF Deliver, OneChannel
<1>2. ASSUME NEW x \in running PROVE FALSE
  <2>1. x.via # Null /\ ExecutionOK(x)
    BY ExecutionFacts DEF OneChannel
  <2>2. x.via \in DOMAIN cLink /\ cLink[x.via] = "ready"
    BY <2>1 DEF ExecutionOK
  <2>3. x.via = 1
    BY <2>2 DEF OneChannel
  <2> QED
    BY <1>1, <2>3 DEF Deliver, Prefetch
<1> QED
  BY <1>1, <1>2

\* With one channel the executor has one task in hand.
LEMMA OneExecution ==
  ASSUME Links, TypeOK, OneChannel, [Next]_vars, ~ ConsumerDropped
  PROVE  \A x, y \in running' : x.via # Null /\ x = y
<1>1. CASE running' \subseteq running
  BY <1>1 DEF OneChannel
<1>2. ASSUME NEW x \in running, Step(x), ~ Restart PROVE \A u, v \in running' : u.via # Null /\ u = v
  <2>1. ASSUME NEW next, Acked(x, next) PROVE running' \subseteq running
    BY <2>1 DEF Acked
  <2>2. ASSUME NEW y, NEW S, GoesOn(x, y, S) PROVE \A u, v \in running' : u.via # Null /\ u = v
    BY <2>2 DEF GoesOn, OneChannel
  <2> QED
    BY <1>1, <1>2, <2>1, <2>2, StepCases
<1>3. ASSUME NEW k \in Cons!Conn, Deliver(k) PROVE \A u, v \in running' : u.via # Null /\ u = v
  <2>1. k # Null /\ running = {}
    BY <1>3, DeliverAlone
  <2>2. \A m : Execution(m, k).via = k
    BY DEF Execution
  <2> QED
    BY <1>3, <2>1, <2>2 DEF Deliver
<1>4. CASE ProducerDropped
  <2>1. \A u \in running' : u.via # Null
    BY <1>4, DroppedKeeps DEF OneChannel
  <2>2. PICK k : running' = {IF x.through = k THEN [x EXCEPT !.through = Null] ELSE x : x \in running}
    BY <1>4 DEF ProducerDropped
  <2>3. \A u, v \in running' : u = v
    BY <2>2 DEF OneChannel
  <2> QED
    BY <2>1, <2>3
<1>5. CASE Restart \/ PublishEvent \/ Load \/ LateEnds \/ ConsumerStep \/ ProducerStep \/ UNCHANGED vars
  BY <1>1, <1>5 DEF Restart, PublishEvent, Load, LateEnds, ConsumerStep, ProducerStep, vars
<1> QED
  BY <1>2, <1>3, <1>4, <1>5 DEF Next, Crash

\* The queue gives out the tasks of the event in progress before those of later
\* ones: their priority is higher, or they are older.
LEMMA ForemostIsEldest ==
  ASSUME TypeOK, Ranked, NEW m \in ready, Foremost(m) PROVE \A n \in ready : n.event >= m.event
<1> SUFFICES ASSUME NEW n \in ready PROVE n.event >= m.event
  OBVIOUS
<1>1. m \in Alive /\ n \in Alive
  BY DEF Alive
<1>2. m.priority \in {0, 1} /\ n.priority \in {0, 1} /\ m.event \in Nat /\ n.event \in Nat
      /\ m.seq \in Nat /\ n.seq \in Nat
  BY <1>1, AliveTyped
<1>3. m.priority > n.priority \/ (m.priority = n.priority /\ m.seq <= n.seq)
  BY DEF Foremost
<1> QED
  BY <1>1, <1>2, <1>3 DEF Ranked

LEMMA OrderStep ==
  ASSUME Links, TypeOK, OneChannel, Ranked, Eldest, [Next]_vars, ~ ConsumerDropped
  PROVE  Ranked' /\ Eldest'
<1>0. /\ published \in Nat /\ nextSeq \in Nat
      /\ \A m \in Alive : /\ m.event \in Nat /\ m.event <= published
                          /\ m.priority \in {0, 1} /\ m.seq \in Nat /\ m.seq < nextSeq
  BY AliveTyped
<1>1. ASSUME Alive' \subseteq Alive,
             \A y \in running' : \E x \in running : y.message = x.message
      PROVE  Ranked' /\ Eldest'
  BY <1>1 DEF Ranked, Eldest
<1>2. CASE Restart
  <2>1. Alive' \subseteq Alive /\ running' = {}
    BY <1>2 DEF Restart, Alive, InHand, Unacked
  <2> QED
    BY <1>1, <2>1
<1>3. ASSUME NEW x \in running, Step(x), ~ Restart PROVE Ranked' /\ Eldest'
  <2>1. ASSUME NEW next, Acked(x, next) PROVE Ranked' /\ Eldest'
    <3>1. Alive' \subseteq Alive /\ running' \subseteq running
      BY <2>1 DEF Acked, queueVars, Alive, InHand
    <3> QED
      BY <1>1, <3>1
  <2>2. ASSUME NEW y, NEW S, GoesOn(x, y, S) PROVE Ranked' /\ Eldest'
    <3>1. y.message = x.message /\ running' = (running \ {x}) \cup {y} /\ x.message \in Alive
      BY <2>2 DEF GoesOn, Alive, InHand
    <3>2. InHand' \subseteq InHand
      BY <3>1 DEF InHand
    <3>3. CASE ready' = ready
      <4>1. Alive' \subseteq Alive
        BY <3>2, <3>3 DEF Alive
      <4> QED
        BY <1>1, <3>1, <4>1
    <3>4. ASSUME NEW h \in Hop, ready' = ready \cup {Message(x.message.event, h, 1, nextSeq)}
          PROVE  Ranked' /\ Eldest'
      <4>1. PICK n : n = Message(x.message.event, h, 1, nextSeq)
        OBVIOUS
      <4>2. n.event = x.message.event /\ n.priority = 1
        BY <4>1 DEF Message
      <4>3. Alive' \subseteq Alive \cup {n}
        BY <3>2, <3>4, <4>1 DEF Alive
      <4>4. \A m \in Alive : x.message.event <= m.event
        BY <1>0, <3>1 DEF Eldest
      <4>5. Ranked'
        BY <1>0, <3>1, <4>2, <4>3, <4>4 DEF Ranked
      <4>6. Eldest'
        BY <1>0, <3>1, <4>2, <4>3, <4>4 DEF Eldest
      <4> QED
        BY <4>5, <4>6
    <3> QED
      BY <2>2, <3>3, <3>4 DEF GoesOn
  <2> QED
    BY <1>3, <2>1, <2>2, StepCases
<1>4. CASE PublishEvent
  <2>1. /\ Alive' = Alive \cup {Message(published + 1, h, 0, nextSeq) : h \in Heads}
        /\ running' = running
    BY <1>4 DEF PublishEvent, Alive, InHand
  <2>2. \A n \in Alive' \ Alive : n.event = published + 1 /\ n.priority = 0 /\ n.seq = nextSeq
    BY <2>1 DEF Message
  <2>3. Ranked'
    BY <1>0, <2>1, <2>2 DEF Ranked
  <2>4. Eldest'
    <3>1. \A x \in running : x.message \in Alive
      BY DEF Alive, InHand
    <3> QED
      BY <1>0, <2>1, <2>2, <3>1 DEF Eldest
  <2> QED
    BY <2>3, <2>4
<1>5. ASSUME NEW k \in Cons!Conn, Deliver(k) PROVE Ranked' /\ Eldest'
  <2>1. running = {}
    BY <1>5, DeliverAlone
  <2>2. PICK m \in ready :
          /\ Foremost(m) /\ ready' = ready \ {m}
          /\ running' = {Execution(m, k)} \/ running' = {}
    BY <1>5, <2>1 DEF Deliver
  <2>3. Execution(m, k).message = m
    BY DEF Execution
  <2>4. Alive' \subseteq ready /\ \A y \in running' : y.message = m
    BY <2>2, <2>3 DEF Alive, InHand
  <2>5. Ranked'
    BY <2>4 DEF Ranked, Alive
  <2>6. Eldest'
    BY <2>2, <2>4, ForemostIsEldest DEF Eldest
  <2> QED
    BY <2>5, <2>6
<1>6. CASE ProducerDropped
  <2>1. \A y \in running' : \E x \in running : y.message = x.message
    BY <1>6, DroppedKeeps
  <2>2. Alive' \subseteq Alive
    BY <1>6, <2>1 DEF ProducerDropped, queueVars, Alive, InHand
  <2> QED
    BY <1>1, <2>1, <2>2
<1>7. CASE Load \/ LateEnds \/ ConsumerStep \/ ProducerStep \/ UNCHANGED vars
  <2>1. UNCHANGED <<ready, running>>
    BY <1>7 DEF Load, LateEnds, ConsumerStep, ProducerStep, vars, queueVars
  <2> QED
    BY <1>1, <2>1 DEF Alive, InHand
<1> QED
  BY <1>2, <1>3, <1>4, <1>5, <1>6, <1>7 DEF Next, Crash

LEMMA OrderedStep == ASSUME Links, TypeOK, Ordered, [Next]_vars PROVE Ordered'
<1> SUFFICES ASSUME cDrops' = 0 PROVE OneChannel' /\ Ranked' /\ Eldest'
  BY DEF Ordered
<1>1. cDrops = 0 /\ ~ ConsumerDropped
  BY DropsCounted
<1>2. OneChannel /\ Ranked /\ Eldest /\ UNCHANGED cDrops
  BY <1>1 DEF Ordered
<1> QED
  BY <1>1, <1>2, ChannelStep, OneExecution, OrderStep DEF OneChannel

-----------------------------------------------------------------------------

LEMMA IndInit == Init => IndInv
<1> SUFFICES ASSUME Init PROVE IndInv
  OBVIOUS
<1>1. due \subseteq Accounted /\ Settled
  BY DEF Init, Settled
<1> QED
  BY <1>1, LinksInit, TypesInit, OrderedInit DEF IndInv

LEMMA IndStep == IndInv /\ [Next]_vars => IndInv'
<1> SUFFICES ASSUME IndInv, [Next]_vars PROVE IndInv'
  OBVIOUS
<1>1. Links'
  BY LinksStep DEF IndInv
<1> QED
  BY <1>1, TypesStep, DueStep, SettledStep, OrderedStep DEF IndInv

LEMMA IndInOrder == IndInv => InOrder
<1> SUFFICES ASSUME IndInv, cDrops = 0 PROVE Eldest /\ Cardinality(Unacked) <= 1
  BY DEF InOrder, Eldest, Alive
<1>1. Eldest /\ \A x, y \in Unacked : x = y
  BY DEF IndInv, Ordered, OneChannel, Unacked
<1>2. Unacked = {} \/ \E x : Unacked = {x}
  BY <1>1
<1> QED
  BY <1>1, <1>2, FS_EmptySet, FS_Singleton

\* Every task that an event or an acknowledged task asked for is in the queue, in
\* the hands of an execution that has not acknowledged it, acknowledged, or given
\* up in the log, whatever fails.
THEOREM TasksAreNotLost == Spec => []NotLost
<1>1. IndInv => NotLost
  BY DEF IndInv, NotLost
<1> QED
  BY <1>1, IndInit, IndStep, PTL DEF Spec

\* As long as the consumer keeps its connection the executor has one task in its
\* hands, and none of an earlier event is left behind it.
THEOREM EventsAreInOrder == Spec => []InOrder
  BY IndInit, IndStep, IndInOrder, PTL DEF Spec

\* No step makes a task disappear.
THEOREM NoTaskDisappears == Spec => [][Accounted \subseteq Accounted']_vars
<1>1. IndInv /\ [Next]_vars => Accounted \subseteq Accounted'
  BY AccountedGrows DEF IndInv
<1> QED
  BY <1>1, IndInit, IndStep, PTL DEF Spec
=============================================================================
