# Flowbroker in TLA+

Specifications of dojot's flowbroker, written from its source, with TLC
configurations and TLAPS proofs. Paths are relative to the repository.

Flowbroker runs node-red flows on the events of IoT devices. The *orchestrator*
takes events from Kafka, chooses the flows they start, and executes the flows
node by node through RabbitMQ queues. Nodes that keep state between events
(cumulative sum, merge data, get context, remote nodes) keep it in *contexts*,
which the *context manager* stores in ZooKeeper and protects with a read/write
lock. Remote nodes are containers that the orchestrator starts on docker or
Kubernetes and asks over ZeroMQ.

## Inventory

| component | source | state | operations | hard behaviour | what makes it correct |
|---|---|---|---|---|---|
| ContextHandler server | `contextManager/index.js` | `controlMap` (entries with a hold timer), ZooKeeper session | the five commands, ZooKeeper callbacks, hold timer | timers against commands, failures between two operations, crash | an entry means the lock; saves only under a write lock; every lock is given back; every command is answered |
| ZookeeperRWLock | `contextManager/ZookeeperRWLock.js` | one promise, timer, znode, watch a request | `_lock`, `_try_lock`, wait timer, `unlock` | listing against creation, deletion and watch; timer against listing | exclusion, order, no lost wakeup |
| ZookeeperHelper | `contextManager/ZookeeperHelper.js` | none | create a path if it is not there | two processes create it at once | the path exists when the promise resolves |
| ContextManagerClient | `lib/ContextManagerClient.js` | `contextMap` of requests with a state and a timer | lock, unlock, answers, timeout | 10 s at the client against 30 s at the server: late answers | an expired request leaves nothing behind; the outcome told is the outcome |
| ContextHandler facade | `lib/ContextHandler.js` | none | names a context, calls the client | | |
| DojotHandler | `lib/DojotHandler.js`, `DataHandlerBase.js` | none | serves a remote node | | one answer a request |
| Executor | `orchestrator/executor.js` | one task in hand | take a task, call the handler, publish the successors, acknowledge | timeout race, partial publication, redelivery | no task is lost or overtaken within a device |
| AMQP producer, consumer | `orchestrator/amqp.js` | connection, channel, retry counters | connect, reconnect, send, consume | error and close handlers both reconnect | one live connection, one unacknowledged task |
| Ingestor | `orchestrator/ingestor.js` | none (queues) | enqueue an event, look the device up, start the flows | order of the events of a device, failures acknowledged, redelivery beside an execution that goes on | every event starts its flows or there is a reason why not; once and in order, short of crashes and lost connections |
| Device cache | `orchestrator/DeviceCache.js`, `redisManager.js` | Redis keys | add, delete, get, fetch on a miss, flush | stale write after an update, flush on connect | the cache agrees with the device manager in the end |
| Flow manager | `orchestrator/flowManager.js` | one Mongo collection a tenant | create, set, remove, search | read-modify-write in two operations | an update is not lost |
| Node manager | `orchestrator/nodeManager.js`, `nodes/*emoteNode` | handlers by tenant, Mongo collection, containers | add and remove a remote node, load on restart | checks made before awaits, rollbacks | map, collection and containers agree |
| Dispatcher | `orchestrator/dispatcher.js` | `requestMap` | send a request, answer, timeout | late answers, no timeout | every entry is settled once |
| Context nodes | `nodes/cumulative-sum`, `merge-data`, `get-context` | a context | lock, compute, save | failures half way, zero sums | the saved value is the function of the events |
| Decision nodes | `nodes/switch`, `change`, `geo` | none | evaluate rules | | the rules' meaning |
| I/O nodes, REST API, health, configuration, GUI, `harbor-master` (vendored) | | | | | not core logic |

An event meets them in this order. The ingestor puts it on the event queue
(`events`), takes it from there, looks its device up in the cache or at the
device manager, asks the flow manager for the flows of the device and of each
of its templates, and publishes one task for each wire of each head
(AMQP producer). The executor takes a task of a device's queue (AMQP consumer),
calls the handler of the node, publishes the tasks of the nodes that follow,
and acknowledges. A handler may call the context client (contexts), the
dispatcher (remote nodes), or the outside (http, ftp, cron, Kafka).

`PROJECT.json` lists every component with its status, and the hazards with the
line where each bites and the properties that cover it.

## Modules

| module | models | extends |
|---|---|---|
| `ZooKeeper` | the service and its client library (external), for one context | |
| `ZookeeperRWLock` | `contextManager/ZookeeperRWLock.js`: the callbacks of a lock request | `ZooKeeper` |
| `ContextManager` | `contextManager/index.js`: the commands, timers, crashes | `ZookeeperRWLock` |
| `ContextManagerProps` | its properties, the inductive invariant, the refinement mapping | `ContextManager` |
| `ContextManagerProofs` | proofs: types, order of the lock, mutual exclusion; then the life of a request, the content of the context, no orphaned lock, the refinement | `ContextManagerProps` |
| `ReadWriteLock` | abstract specification: a read/write lock around a content | |
| `ContextClient` | `lib/ContextManagerClient.js`, `ContextHandler.js`, with the context manager as a client sees it | refines `ReadWriteLock` |
| `ContextNodes` | cumulative sum, merge data, get context, the arithmetic-mean sample | `ContextClient` |
| `AmqpClient` | `orchestrator/amqp.js`: one producer or consumer | |
| `TaskQueue` | `orchestrator/executor.js`, the task queue, a consumer and a producer (two instances of `AmqpClient`) | |
| `DeviceIngestor` | `ingestor.js` up to the templates of an event, `DeviceCache.js`, `redisManager.js`, the consumer of the event queue as far as its connection goes | |
| `FlowManager` | `flowManager.js` and the requests of `api.js` on flows | |
| `EventFlows` | `ingestor.js` from the templates to the tasks | `FlowManager` |
| `NodeManager` | `nodeManager.js`: load, addition and removal of remote nodes | |
| `KubernetesNode`, `DockerNode` | create and remove on each engine, request by request | |
| `RemoteNode` | `dispatcher.js`, `nodes/remoteNode`, `lib/DojotHandler.js` | |
| `SwitchNode`, `ChangeNode` | the rules of `nodes/switch`, `nodes/change` with `_get`, `_set` | |
| `CronNodes` | `nodes/cron`, `nodes/cron-batch`, the cron service, the executor's timeout and the death of the process | |
| `HttpNode` | `nodes/http` with the events of the request, the exception that kills the process, the executor's timeout | |
| `FtpNode` | `nodes/ftp` with its server, the executor and the connection of its consumer | |
| `OutputNodes` | device out, actuate, their multi variants, notification, publish-ftp, `publisher.js` | |
| `AmqpProofs`, `TaskQueueProofs` | proofs about `AmqpClient`, `TaskQueue` | these |
| `IngestorProofs` | proofs about `DeviceIngestor` | this |
| `FlowProofs` | proofs about `FlowManager`, `EventFlows` | these |
| `ContextNodesProofs` | proofs about `ContextClient`, `ContextNodes` | these |
| `NodeHandlers` | the nodes that handle a message on their own, side by side | `CronNodes`, `OutputNodes`, instances of `SwitchNode`, `ChangeNode`, `HttpNode`, `FtpNode` |
| `NodeHandlersProofs` | proofs about these six modules and `NodeHandlers` | `NodeHandlers` |
| `RemoteNodesProofs` | proofs about `NodeManager`, `DockerNode`, `KubernetesNode`, `RemoteNode` | these |
| `MC...` | the instances for TLC; `MCContextNodes`, `MCTaskQueue`, `MCEvents`, `MCRemoteNodes` and `MCNodeHandlers` extend the modules they check | |

Definitions named `...NoRetry`, `...Ignoring...` and the like, each under the
comment "Mutant of", are wrong variants of the definition that follows them.
They take no part in the specification; each shows that a property notices a
plausible bug (`PROJECT.json` pairs them).

Two compositions are by extension: `ContextNodes` adds the handlers to the client
they call, `EventFlows` the search of the ingestor to the requests that change
what it finds. `TaskQueue` composes the executor with two AMQP objects by
`INSTANCE`. Nothing composes the client with `ContextManager`. Both
`ContextManager` (with ZooKeeper, sessions, watches) and the server that
`ContextClient` is written against are shown to implement `ReadWriteLock`, but two
refinements of one specification need not be refinements of each other: what is
shown of the clients is shown for that server, which gives a lock to whom nobody
conflicts with, answers late or never, takes a lock back after a time, and
loses its locks in a crash. The two agree on exclusion and on what a save does; the
granting order, and the disagreements below, are in `ContextManager` only.

### The context manager: state

One context is modelled: each has a directory and a content of its own, and the
code keeps nothing that joins two contexts. `Request` is the set of lock
requests (the `identity.request_id` keys of `controlMap`), `Server` the context
manager processes, `ServerOf` says where each request goes.

| variable | in the code |
|---|---|
| `znodes`, `seq`, `nextSeq` | the lock znodes `rlock-N`, `wlock-N`, and the next `N`; a znode is named by the request that created it |
| `data` | the content of the context: the set of requests whose save it contains |
| `watch` | the watch set by `aw_exists` |
| `outbox`, `inbox` | the session: operations submitted and not yet served; replies and events not yet handled |
| `disconnects`, `crashes`, `lost` | failures so far; the requests a crashed process had received |
| `cmd` | the command of a request |
| `promise`, `waitTimer` | the promise of `_lock`, the timer of `_lockWaitTimeout` |
| `control` | `controlMap`; an entry always has a hold timer |
| `read`, `answer` | the response to the lock command: content, result |
| `release` | what became of the client's `save_and_unlock` or `unlock` |

### The context manager: actions

Node.js runs one callback at a time to its end, so an action is one callback
with the promise continuations that run in the same turn.
`LockCallback` is the callbacks of `_lock` and `_try_lock` (`PathEnsured`,
`Created`, `Listed`, `ExistsReplied`, `WatchFired`, `WaitUnlocked`), with the
error response if the promise is rejected, or the start of `a_get` if it is
resolved. `GetReplied` is the callback of `a_get`, with the `_unlock` that
`lock_get_and_unlock` chains to it. `RecvLock`, `RecvSave`, `RecvUnlock` are the
arrival of a command; `SetReplied`, `SaveUnlocked`, `Unlocked`, `HoldUnlocked`
the later callbacks; `WaitTimeout` and `HoldTimeout` the timers, which may run
at any moment they are armed. A client saves what it read plus itself, so a lost
or stale update shows in the content.

A session's operations are served in order and its replies and watch events
come in order; operations of different sessions interleave freely. `Disconnect`
loses the connection without losing the session: a prefix of the pending
replies had arrived, every other operation fails *whether or not it had been
served* (the served ones left the outbox for the inbox before), and the
watchers are called with a state that is not "connected", which the code treats
as a failure. `Crash` empties the memory of a process and restarts it at once
with a new session; its znodes stay until `SessionExpires`.

### The other modules: state and actions

Node.js runs one callback to its end, so in every module an action is one
callback, with the continuations that run in the same turn; an `await` or a
callback is the boundary of an action, and what another actor does may come in
between. Timers run at any moment they are armed. A process that dies loses
what is in memory; queues, Redis, MongoDB, containers and sessions stay.

| module | variables and the code they stand for | actions |
|---|---|---|
| `ContextClient` | `entry`, `timer`: the state and the timer of a request in `contextMap`; `mode`: the lock it asked for; `locking`, `unlocking`: the two promises; `got`: what it was given; `request`, `reply`: the messages under way; `lock`, `content`: the context manager; `saves`: the saves it carried out, a history variable | `LockAndGetContext`, `UnlockContext` (with `Release` for the facade), `OnMessage`, `TimeoutRequest`; server: `Grant`, `Refuse`, `RecvUnlock`, `HoldTimeout`, `Unlocked`, `ServerCrash` |
| `ContextNodes` | `task`: what each execution of `handleMessage` was given; `outcome`: what it ended with | `HandleMessage`, `Located`, `Finish`, `Serve` |
| `AmqpClient` | `link`: every connection made, with its channel; `connection`, `channel`, `retries`: the fields | `Connect...`, `ChannelCreated`, `QueueAsserted`, the drop of a connection with its error and close handlers, `Reconnect` |
| `TaskQueue` | `ready`, `running`: tasks in the queue and in hand; `late`: handlers given up and still running; `loaded`: the nodes of the tenants; `due`, `ended`, `dropped`: what was asked for, done, logged as lost | `PublishEvent`, `Deliver`, `Handled`, `Sent`, `Confirmed`, `Load`, `Crash`, the steps of both clients |
| `DeviceIngestor` | `device`: the device manager; `topics`: events in Kafka; `queue`: those nobody has acknowledged; `channels`, `attempts`: the consumer's channels that live, its attempts to connect; `handling`: the executions, each with the channel its event came through; `cache`, `redis`, `start`, `snapshot`: Redis, its connection, populate; `started`, `failed`, `counts`: history variables | one for each await of an event; `Enqueue`, `EnqueueFailed`; `PopulateReads`, `PopulateWrites`; `RedisConnects`, `ConsumerConnects`; the faults |
| `FlowManager`, `EventFlows` | `flows`: the collection; `request`: requests with what they have read; `answers`, `handled`, `tasks`: an event's queries, flows, tasks; `seen`: what was stored of each flow since the event came, a history variable | create, set (read, then write), remove, removeAll; one query, one flow at a time |
| `NodeManager` | `nodes`, `tenant`: the map; `docs`: the collection; `containers`; `loads`, `request`, `rollbacks`: callbacks under way; `removed`: confirmed removals; `met`: what a request has come in the middle of, a history variable | `AddTenant`, `FindNodes`, `LoadStep`, the steps of an addition and a removal, `Crash` |
| `KubernetesNode`, `DockerNode` | `kube`, `handler`: the step a handler is at; `together`: whether two have met, a history variable; `deployment`, `service`, `container`, `network`, `undoing`: what the engine has | one for each answer of the engine |
| `RemoteNode` | `sock`, `requestMap`: the dispatcher; `sent`, `requests`, `answers`: messages; `running`: requests at the node; `call`, `metadata`: callers | `SendRequest`, `OnMessage`, `TaskTimeout`, `Take`, `Handled`, crash and restart |
| `SwitchNode`, `ChangeNode` | `message`, `rules`: the message, the node's configuration; `result`: of `handleMessage` | one, `HandleMessage`: the handlers run in one turn, and the rules are a fold inside it |
| `CronNodes` | `msg`: each message and the node it is at; `results`: the promises of its requests; `requests`, `jobs`: the service; `try`: deliveries | `HandleMessage`, `Succeed`, `Fail`, `GiveUp`; the executor: `TaskTimeout`; `Dies`; the service: `Serve`, `Refuse` |
| `HttpNode` | `request`, `received`, `promise`, `reject`: of `handleMessage`; `body`: the server's; `task`: the executor | one for each event of the request and timer; `OnResponseThrows` kills the process |
| `FtpNode` | `runs`: the handlers, each with its message, the channel it came through and its task; `open`, `stored`, `file`: clients and the server; `queue`, `channels`, `attempts`: the consumer | `HandleMessage`, the callbacks of the client, `Store`, `TaskDone`, `TaskTimeout`, `Crash`, `ConsumerDropped`, `ConsumerConnects` |
| `OutputNodes` | `node`, `attempt`, `answer`, `acked`: the task; `buffer`, `log`, `lost`: records in the process, in Kafka, dropped | `HandleOutput`, `Ack`, `Flush`, `Lose`, `Crash` |

What a lost connection of a consumer does is in three modules. `AmqpClient` has
its steps: the error and the close of a connection both start an attempt, each
with a channel and a prefetch of its own (`amqp.js:218-244`). `DeviceIngestor`,
`FtpNode` and (with two instances of `AmqpClient`) `TaskQueue` have what follows
for the work in hand. The executions of a lost channel go on, the broker gives
what they had in hand to the next channel, and both run side by side. When the old
one ends, its acknowledgement throws on the closed channel, and again in the
handler of that failure: an unhandled rejection, which kills the process
(`orchestrator/index.js:27`). Until a consumer loses its connection, what it does
is one at a time; the properties that need this say so in a premise
(`drops = 0`), and the others hold without it.

### What is abstracted

In the context manager:

* Creating the path of a context is one round trip. The operations of
  `ZookeeperHelper` on one path only ever add directories, and nothing removes
  them, so they commute with everything in the model.
* The end of the session of a process that lives is not modelled.
* A watch on a znode that is not there (exists answered `ZNONODE`) is not kept:
  lock znodes are never created twice, so it can only tell of a lost
  connection, and then the retry under way fails as well.
* The old connection of a crashed process is drained: an operation that the
  process had sent and the service not received is lost with it.
* `dump`, parsing, malformed commands, and the web server for health checks.
* `request_id` is unique, as the documentation in `index.js` demands.
* A client may answer an error with another `save_and_unlock` or `unlock`; the
  library's client does not, other ZeroMQ clients may.


Elsewhere:

* MongoDB operations on one document are atomic; a request to docker or
  Kubernetes that is refused was not carried out; Redis refuses a write or
  delays it until the connection is up.
* A device is its version; its templates are those of the version. A flow is
  the set of its head nodes: what follows them matters to `TaskQueue` only.
* Contents of contexts are what the nodes compute: numbers, or sets of
  attributes. Conversions of text are modelled in `SwitchNode`, whose rules compare
  numbers, and in `ChangeNode`, whose rules write them (`ToNumber`, `Literal`:
  which texts are numerals, and what they are in lower case, are constants).
* Kafka hands each message of a subject to the ingestor once, in the order of the
  subject. `DeviceIngestor` keeps the connection of the event queue's consumer as
  a set of channels that live and a number of attempts; which handler runs
  for which connection is `AmqpClient`'s.
* A message of `FtpNode` is its number in the queue; all of a queue upload to
  the same file, the case in which order matters. The http node of `HttpNode` has
  one message.
* One queue, of one device: the hash that chooses a queue maps equal devices to
  equal queues, and nothing joins two queues.

## Properties and runs

Deadlock is not checked: every instance stops when what its constants allow has
happened.

Some MC modules hold several instances *side by side*. Their variable `part` is
set by the initial state and never changes; `Next` is the next step of the
instance it names, with the variables of the others unchanged at a fixed value.
The state graph is the disjoint union of those of the instances, a property
`part = "x" => X!P` is `P` of that instance, and a fairness condition
`WF_vars(part = "x" /\ X!A /\ ...)` is that of the instance. Invariants and
liveness of unlike bounds can so share a run without multiplying its states.
In `MCTaskQueue`, `MCEvents` and `MCRemoteNodes` the safety properties are the
very definitions of the modules that are extended, so they are checked in every
part and they are what the theorems state. `MCNodeHandlers` has only values for
constants: `part`, its initial states and steps and the properties are those of
`NodeHandlers`, which composes its modules for any constants. What an instance must not do for a
property to apply is then a premise on its state: a counter of failures, or a
history variable (`met`, `together`), in place of the constant that forbids it.

| run | instances | checks |
|---|---|---|
| `cm_failures` | 2 requests of every command on 2 servers, 1 lost connection, 1 crash, all timers, fair | `IndInv` (with `TypeOK`), `EntryHasZnode`, `NoStaleRead`, `NoLostUpdate`, `NoOrphanLock`, `SavesUnderLock`, `Answered`, `ReleasedUnlessCut` |
| `cm_three` | 3 requests on 2 servers, new directory, 2 wait timers, symmetry of the two requests of one server | `LockExclusion`, `GrantedInOrder` |
| `cm_granted` | 3 requests of every command, no wait timer, fair | `Granted`, `ImplementsReadWriteLock` |
| `cm_first_lock` | 2 requests, new directory | `ExclusiveAccess`, violated |
| `cm_late_grant` | 2 requests, wait timers | `ExclusiveAccess`, violated |
| `cm_leak` | 2 requests, 1 lost connection, fair | `LocksReleased`, violated |
| `context_clients` | clients: a writer and a reader (fair), 2 writers and a `lock_unlock`; nodes: 3 events of a sum, 2 merges and a get, 2 events of a mean (fair); a crash of the server in each | `ContextMapSound`, `ToldIsDone`, `ServerIsReadWriteLock`, `ContextIsFold`, `WindowSum`, `OutputIsSaved`, `ContextsSettle` |
| `task_queue` | an AMQP object with 2 lost connections and a failed attempt (fair); 3 events through a fork with failures and a crash; 1 event with a lost consumer connection, failures, timeouts and a crash (fair); 2 events with a lost consumer connection; 2 with a lost producer connection, failures and timeouts | `FieldsSound`, `NotLost`, `InOrder`, `ServedInTheEnd` |
| `events` | a device with 2 versions and faults (fair), with every kind of event and a refused write, or with 1 version and a lost consumer connection (fair); 3 requests on 2 flows; 3 on one flow beside an event with 3 queries; 2 flows and 2 events | `NoOlderTemplates`, `EventsAccountedFor`, `FaultsEnd`; `IndexesMatch`, `RemovedForGood`, `ServedAsStored` |
| `remote_nodes` | 3 requests on 2 nodes: at any moment with a crash and a failure, one by one with 2 crashes (fair); Kubernetes in turn and side by side (fair), docker (fair); one and two callers of a remote node (fair) | `NodesSound`, `RemovedForGood`, `RemovedIsGone`, `ContainersSound`, `RequestMapSound`, `OperationsEnd` |
| `node_handlers` | every list of 3 switch rules; every list of up to 3 change rules; a cron message and a batch of 2 with a failure or a death; http with every configuration and bodies of up to 3 pieces; output nodes with a throw, a lost record and 2 crashes; 2 messages of an ftp node with a failure and a crash or a lost consumer connection (all but the rules fair) | `RulesHold`, `JobsAccountedFor`, `RecordsAccountedFor`, `TransfersAccountedFor`, `HandlersEnd` |
| `nm_rollback` | one addition whose container does not start | `RolledBack`, violated |

A property of a module with several parts (`ContextMapSound == TypeOK /\ ...`) is
the conjunction of named ones, each with its comment in the module; the type
invariant is one of them.

What they show, by what would go wrong in the code:

* `GrantedInOrder`: nobody holds the lock while a conflicting znode in front of
  its own stands, number 0 apart. `LockExclusion` follows: two conflicting
  requests never both hold it.
* `EntryHasZnode`: an entry of `controlMap`, the only thing `save_and_unlock`
  looks at, stands for a znode that is still there, except after a late grant.
* `NoStaleRead`, `NoLostUpdate`: while a client has an entry, what it was sent
  is the content; what it was told is saved stays saved. Both are stated for
  runs without the two defects below (`Orderly`): with either, they fail.
* `SavesUnderLock`: the content changes only while the writer that sent the
  save still has its lock, and grows by its save.
* `NoOrphanLock`: without lost connections, every lock znode has somebody left
  to delete it: a timer, an entry, an operation under way, a dying session.
  `ReleasedUnlessCut` is the liveness that goes with it.
* `ContextMapSound`: who waits for a promise of the client has the timer that will
  settle it; who holds a context was sent its content, however late, and can
  give it back. `ToldIsDone`, `ContextIsFold`: an unlock that is resolved was
  carried out, and the context is the fold of the events whose saves were, in
  their order (each save is what its node computes from the one before), although an answer that comes too late makes the client report a
  failure. `OutputIsSaved`: messages go on only for an event that is in it.
* `FieldsSound`: what an AMQP object sends through is up, or an attempt is under
  way; attempts do not multiply. `NotLost`: every task asked for is run, waits,
  or its loss is in the log. `InOrder`: nothing of a later event is begun while
  an earlier one has work left, as long as the consumer keeps its connection
  (a handler past its timeout goes on).
* `NoOlderTemplates`: the cache never makes an event use templates older than a
  change handled before it, whatever reads and writes are on their way, as long as
  no write is refused and the consumer keeps its connection. After a lost one an
  execution that missed the cache before the change may fill it with the old
  templates after the change. `EventsAccountedFor`: every message is in its subject,
  became an event or was refused by a producer without a channel; every event
  is in the queue, has started its flows or was given up for a reason that is
  stated (changes never are, a removal by one fault, others by a removal or two
  faults); none starts more often than once and once more for each crash and lost
  consumer connection; and they start in the order of the queue until the first
  lost connection.
* `IndexesMatch`: whatever requests interleave, what is stored is one flow, with
  the heads and indexes of its nodes that have wires. `ServedAsStored`: an event goes through one
  configuration of each flow, one that was stored while it was in progress,
  although it asks several times; a flow nobody changes gets all it wants.
* `NodesSound`: a remote node the executor is given has its container; a
  confirmed addition keeps a document. `RemovedForGood` of remote nodes holds
  for requests one after the other only: see the list below.
* `ContainersSound`, `RemovedIsGone`: operations that fail half-way leave nothing
  running that a report of theirs denies.
* `RequestMapSound`: an answer reaches its own caller, whoever waits is in the
  map, and what stays there for ever is a request whose answer was lost.
* `RulesHold`: switch against what its help says of rules, `otherwise` and the
  first match; the in-place writes of change on shared objects against its rules
  on trees, with texts, numbers and truth values as literals, as long as no rule
  sets a field from an object.
* `JobsAccountedFor`, `RecordsAccountedFor`, `TransfersAccountedFor`: what cron,
  output, http and ftp nodes tell the executor is what the service has. Where
  they do not: a message whose requests partly failed, or ran out of time,
  leaves jobs behind, and so does one whose process died; of a handler that
  resolved, records may still be dropped by the producer after its retries
  (`config.js:54`); an http response may be cut off; and an older upload replaces a newer
  one when its task was given up, or after a lost connection of the consumer.
* `ServedInTheEnd`, `ContextsSettle`, `FaultsEnd`, `OperationsEnd`, `HandlersEnd`:
  every promise, task, event, request and handler comes to an end, restarted
  processes run their nodes again. Two ends the code does not give are said in
  `HttpEnds`: an http node without a field for the response (the editor's
  default) throws in the callback of each response, so its task may kill the
  process for ever; and a body that stalls has no timer, since that of
  follow-redirects is cleared at the response, so the promise stays open and
  the task ends by the executor's timeout.

### Bounds

Two requests are what a conflict needs, and two servers make their sessions
interleave; a third request adds the cases where two wait for one, one waits for
another that waits, and readers share while a writer waits. One lost connection
and one crash happen at every possible moment. `FirstSeq = 1` stands for a
directory that has had a lock before, `0` for a new one; later numbers behave
like 1, as only their order matters (up to the 32-bit limit of ZooKeeper's
counter, which is not modelled). `Impatient` is the set of requests whose wait
timer may elapse: it is empty where every request is meant to get the lock.
`Commands` is the set of lock commands the clients send: all three, but in
`cm_three` only `rlock_and_get` and `wlock_and_get`, to keep three requests
with timers within reach; a `lock_get_and_unlock` takes the same steps as a
reader that unlocks at once, and the other runs have it.


In the other runs every counter of failures (`MaxDrops`, `MaxFailures`, `MaxThrows`,
`MaxCrashes`, `MaxLosses`, `MaxRefusals`, `MaxFaults`) is 1 or 2, and each
failure comes at every moment: most defects here need one failure between two
steps, restarts and reconnections two. Three clients or events are the
least number with one before and one behind another; two flows, nodes or
templates the least where one can be taken for the other. `MaxContainers` and
`MaxRequests` number what is ever made and are above what the other bounds let
happen. Messages and rules range over every type of value (`SwitchNode`), every
pair of paths (`ChangeNode`), every configuration the code tells apart
(`HttpNode`, `OutputNodes`). `MaxDepth = 3` bounds the paths at which `ChangeNode`
looks: messages are two fields deep, and one rule can put one below another.
`Overlap` says what a request to `NodeManager` may
come in the middle of: other requests, loads, or nothing. `Misnamed` is the set of
nodes that may be asked for with an image that has another name: it is empty in
`nm_rollback`, where a container that does not start is the only failure left.
`Passed` of `MCEvents` puts a tab and a head without wires into a configuration,
which the parser passes over.

### Fairness

In the context manager `FairSpec` asks weak fairness of the callbacks of each
request (the event loop runs what is ready), of the timers (an armed
`setTimeout` elapses, unless it is cleared), of the service and of the end of
dead sessions. It asks nothing of clients: they may never save or unlock, and
the hold timer answers for them; nor of failures. Weak fairness is enough
because nothing but the callback itself disables it: replies of one session are
handled in order.

The other modules follow it: fair are callbacks whose event has come, armed
timers, the broker's deliveries and confirmations, and the attempts to connect
again; never fair are failures, crashes and requests of users. Of what is outside
the process each asks only what its property needs:

| module | asks of the outside | and not |
|---|---|---|
| `ContextClient`, `ContextNodes` | in the pair of users: the context manager grants, refuses or takes a lock back (the content of `FairSpec` above), and a handler that holds a context gives it back (`Release`), as every node of the repository does | in the nodes' instance: any answer; handlers end by the client's timers |
| `TaskQueue` | the broker | that a handler ends: a task ends by its timeout |
| `DeviceIngestor` | Kafka hands an event on, Redis comes back and replies, the device manager answers or fails: these calls have no timer in the code | |
| `NodeManager` one by one, `KubernetesNode` side by side, `DockerNode` | MongoDB and the engines answer, by success or failure: no timer either | |
| `RemoteNode` with one caller | the node takes requests, its code ends, and it restarts: `init` and the readers of locale data wait without a timer, so that they end is shown only while nothing breaks (`CallsEnd`) | for a task that waits: any answer, as it ends by its timer (`TasksEnd`) |
| `CronNodes`, `HttpNode`, `FtpNode`, `OutputNodes` | the consumer of ftp connects | any answer of the cron service, an HTTP or FTP server, or Kafka: tasks end by the executor's timer |

`HandlersEnd` so rests on the executor and timers alone. `OperationsEnd` does not: without
an answer of MongoDB or an engine, an addition or removal waits for ever.

## Proofs

`ContextManagerProofs` proves, for all values of the constants (any sets of
requests and servers, any bounds on failures; from the named assumptions of
`ZooKeeper` and `ContextManager` only):

* `TypeCorrect`: `Spec => []TypeOK`.
* `Inductive`: `Spec => []IndInv`.
* `InOrder`: `Spec => []GrantedInOrder`.
* `MutualExclusion`: `Spec => []LockExclusion`.

The argument. `GrantedInOrder` can only break when a lock is granted (`Listed`),
when a znode appears (`ServeCreate`), or when a command or a number changes. A
new znode has the greatest number, so it is behind everybody who holds. A grant
is decided on a listing that may be old, so the invariant must speak of the
listings under way: `ListsAllAhead`, every znode that is there *now* and in front
of the request was in the listing. Deletions only help it; creations get greater
numbers than the request already has, so they are not in front. This rests on
numbers being given once and in order (`NumbersInOrder`), and that in turn on a
request having at most one operation in its pipes that can still lead to a
number: a `path` operation, its reply, a `create` operation (`PipesOK`,
conjuncts 3 to 5). `Sendable` and `Receivable` say which other operations and
replies may be in a pipe, and `RolesNumbered` that only a numbered request
watches, waits, holds or has an entry. `IndInv` is their conjunction, and TLC
checks it in `cm_failures`.

The lemmas follow that shape: what sending, receiving and failing does to
`PipesOK`, one lemma a kind of step; what leaves the order alone
(`OrderFrame`); the invariance of each action.

Its second half goes on from `IndInv`, with the same assumptions:

* `EntriesHaveZnodes`: `Spec => []EntryHasZnode`, from the invariant `LifeInv`.
* `ReadsAreCurrent`, `SavesLast`, `OnlyHoldersSave`: `Spec => []NoStaleRead`,
  `Spec => []NoLostUpdate`, `Spec => SavesUnderLock`, from `DataInv`.
* `NoLockIsOrphaned`: `Spec => []NoOrphanLock`, from `CoverInv`.
* `Implements`: `Spec => ImplementsReadWriteLock`, under two assumptions of its
  own: nobody is impatient (`Impatient = {}`) and the directory is not new
  (`FirstSeq # 0`). The runs `cm_first_lock` and `cm_late_grant` show that it
  fails without them. What is proved is the safety of the abstract
  specification: initial states and steps.

`LifeInv` follows a request from its path to the deletion that answers its
release. Of the operations on the way (path, create, get, set, the deletion of a
release: `Own`) it has at most one under way (`AllOnce`), so the reply a callback
handles is the answer to its last step. Each operation under way then says what
the server remembers of the request (`MessageOK`): before the lock, no timer and
a pending promise; after it, a resolved promise, no entry yet, and the znode in
place unless the wait timer fired. An event of a watch speaks only of requests
that wait (`EventOK`), and `RequestOK` says the same of the entry. A disconnect
answers every operation by a failure that names the same request, which is why
`MessageOK` survives it.

`DataInv` adds what the messages say of the content. A set under way carries the
content that is there plus its writer, a get that was answered carries the
content, an entry's `read` is the content. The step to prove is the service
carrying out a set: the writer has its znode (`LifeInv`), so nobody else holds
(`LockExclusion`, from `IndInv`), so there is no other entry, reply or set to
contradict. The premise `Orderly` (no late grant, no number 0) is where the code
fails otherwise; it is never regained once lost, so it is a premise of
`DataInv` and not of the specification.

`CoverInv` names, for every znode, who will give it back: the armed wait timer,
the entry (its hold timer), or an operation on the way to the deletion. Each turn
of the request hands the znode from one to the next. A lost connection breaks
the chain, as the code does (`cm_leak`), and a crash leaves it to the end of the
session.

For `Implements`, a holder of the abstract lock is a request whose promise is
resolved and whose znode stands. The lemmas show that a step gives the lock to
one request at most or takes it from some (`HoldersStep`), that it is given only
if no conflicting request has it, and that a change of the content is a save of a
holder. Releases take several holders at once when a session ends.

The other modules, for all values of their constants (the bounds are natural
numbers, `Null` is not one: the named assumptions of the modules):

* `AmqpProofs`, `FieldsAreSound`: `AmqpSpec => []FieldsSound`. The invariant
  counts an attempt once, as a delay that runs or as the connection it made, and
  each loss and failure pays for what it starts: at most two attempts for a lost
  connection, whose error and close both reconnect, and one for a failure.
* `ContextNodesProofs`, of `ContextClient`: `ContextMapsAgree` (`Spec =>
  []ContextMapSound`), `ReleasesAreMade` (`Spec => ToldIsDone`) and `ServersAreLocks`
  (`Spec => ServerIsReadWriteLock`), for any calls, lock modes and number of crashes.
  A call has at most one message on its way, and `MapInv` says of each call how
  its entry, its timer and its two promises go together (`PhaseOK`), which
  message may be under way in which phase (`WireOK`), and what the context
  manager holds for it (`ServedOK`). An answer that comes after its entry has expired, and a lock
  whose answer was lost, are phases like the others. With `WriterAlone`, nobody
  else holds the lock beside a writer, so what a holder was sent stays the content
  until it saves. The lemmas are stated for any step of any user (`AnyStep`), of
  which the nodes' are a case.
* `ContextNodesProofs`, of `ContextNodes`: `ContextsAreFolds` (`NodesSpec =>
  []ContextIsFold`) and `OutputsAreSaved` (`NodesSpec => []OutputIsSaved`), for any
  tasks and events. `NodesInv` adds to `MapInv` what a call has under way: a save
  carries what its node computes from what the call was given, which is the
  content (`HolderSeesContent`), and a call that has saved never holds the lock again.
  The theorems do not depend on what the nodes compute: `Compute` and `Refused` are
  left unexpanded. `NodesAreUsers`: the properties of the client hold
  under `NodesSpec` too.
* `ContextNodesProofs`, `WindowsAreSummed`: `NodesSpec => []WindowSum`, for any
  window, any integers as values and times, and any order in which the events
  come. A cumulative sum shares its context with sums and "get context" only
  (`SumsAssumption`), and the window is not negative (`PeriodAssumption`, line 50 of
  the node). `SumsInv` says that each save was of a sum and not of an event older
  than the last one. From there it is an induction over the saves: after each, the
  context keeps the events from some place on, those of the window of the last one,
  and the difference of two partial sums (`Keeps`). The first event starts it
  (`KeepsFirst`); the next one moves the place to the first entry in its own window
  (`Slides`, `KeepsNext`). What adds up step by step is what `SumOf` computes
  (`SumIs`). A sum of 0 breaks the chain in the code itself, as told below, and
  `WindowSum` says so (`NoSumForgotten`).
* `TaskQueueProofs`, `TasksAreNotLost`, `EventsAreInOrder`: `Spec => []NotLost`
  and `Spec => []InOrder`; `NoTaskDisappears`: no step takes a task out of those
  that wait, run, ended or were logged as dropped. Both AMQP objects keep the
  invariant of `AmqpProofs`, cited as an instance, which gives that a task is
  delivered on a channel that is up. `Settled` is what an execution that sends
  owes: each task it no longer waits for is accounted for. `Ranked` says in which
  order what is alive will be taken, by priority or by place, and `Eldest` that
  the execution has the oldest event; both rest on the one channel a consumer has
  until it first loses a connection (`OneChannel`). A crash gives back what
  was in hand to the place it had.
* `IngestorProofs`, `EventsAreAccountedFor`, `TemplatesAreCurrent`: `IngestSpec =>
  []EventsAccountedFor` and `IngestSpec => []NoOlderTemplates`. The invariant has two
  halves. `Common` holds whatever the consumer's connection does. An execution whose
  channel lives has its event in the queue, and it alone (`Sound`); messages are
  counted from subject to event (`NoneMissing`); an event has started, or may still
  start, at most once more than there were crashes and lost connections, and an
  event nobody has in hand not even that (`Repeats`); nothing knows of a version the
  device manager does not have (`NotAhead`); and whoever does not get the templates has
  a removal or faults to blame (`Blamed`). `InTurn` holds until the consumer loses its
  connection: the executions are at most one, of the first event in the queue
  (`Alone`); `Ordered` follows a version from the device manager through the topic
  and the queue, the removal after all of them; `Remembered` says that without a fault
  the cache knows a device until its removal is handled; `Versions` names every place a version can
  come from (device manager, topic, queue, cache, the copy `populate` works on, an
  execution) and says that it is no older than the changes handled so far, which is
  what the cache can be wrong about: an execution that has written a change knows
  that the cache is empty or as new, or Redis is down and will be filled again.
* `FlowProofs`, `IndexesAreRight` and `RemovalsLast`: `FlowSpec => []IndexesMatch`
  and `FlowSpec => RemovedForGood`. `RedAssumption`, that the editor gives each node of
  a configuration an identity of its own, is used for the heads: without it a
  node with wires could share its identity with one that has none. The invariant says
  what a request under way may write: a document whose heads and indexes are those
  of its own nodes, in the place of a flow whose identity was given before. A
  removed identity is never given again, and a replacement finds nothing there.
* `FlowProofs`, `EventsAreServed`: `Spec => []ServedAsStored`, for any events,
  flows and requests beside each other. The invariant (`EventInv`) says that
  each answer of a query gives flows as they were stored while the event was in
  progress (`AnswersSound`, over the history `seen`), and finds a flow that nobody
  changed meanwhile if it matches; the tasks are those of the chosen answers.
* `RemoteNodesProofs`, `NodesAreSound` and `RemovedNodesAreGone`: `Spec =>
  []NodesSound` and `Spec => []RemovedForGood` of `NodeManager`. `ManagerInv` has
  three layers, each under the premise its property has. `BasicInv` holds
  always: containers are numbered as they are made, and wherever one is named as
  that of a node (map, addition, deletion, load, rollback) it is of one node only
  (`OneOwner`); a rollback has the refused addition it comes from, so a document
  that goes has a deletion or a refused addition to blame, which is `Durable`.
  `KeysInv` keeps the keys of documents apart. `MapInv`, while no request has
  come in the middle of a load: what is not mapped yet runs and nobody is about
  to remove it, and a load is beside nothing else. `InTurnInv`, while requests
  come one by one and nothing fails: every document has its node in the map, in a
  load or in the deletion that is about to take it, and there is one document
  for a node, so that the deletion of one document is the deletion of all.
  The premises are on history variables and counters that never fall, so
  each layer is kept as long as it is asked for.
* `RemoteNodesProofs`, `ContainersAreSound`: `DockerSpec => []ContainersSound`.
  The invariant ties each step of create and remove to what exists in the daemon
  at that step, and so what a failure there leaves behind. `RemovalsAreComplete`:
  `KubeSpec => RemovedIsGone`; the deployment is gone when the removal of the
  service is asked for, and handlers one after the other let nobody
  make another in between. `RequestMapIsSound`: `RemoteSpec => []RequestMapSound`.
  An identifier is at one place of the way (queue of requests, node, queue of
  answers), or at none when a failure lost it; a caller that waits has its
  entry, and while nothing broke every entry is somewhere on the way.
* `NodeHandlersProofs`, `UploadsAreAccountedFor`: `Spec => []UploadsAccountedFor` of
  `FtpNode`, for any number of messages, failures, crashes and lost connections
  of the consumer (`FilesAssumption`). That a handler which resolves has stored its file and
  closed its client holds of each handler alone. Until the consumer first loses its
  connection there is one channel, so messages are taken in turn, and an
  upload that may still come is that of the message in hand or of one that was given
  up; after it nothing is claimed of the order.
* `NodeHandlersProofs`, `JobsAreAccountedFor`: `Spec => []JobsAccountedFor` of
  `CronNodes`, with no assumption. A job has an identifier of its own and one
  owner: whoever names the identifier, a message or an answer, names it as the job
  of the request that created it (`JobSound`), so a late removal takes no
  job of another message. A request that removes was sent for what its message
  carries after that was delivered to the node (`RequestSound`). While the process
  lives, whoever creates jobs for a message that has not failed still listens
  (`Listening`), so each job is told. All steps but the death of the process and the
  service's own are about one message: `CronRow` says once what is left to show of them.
* `NodeHandlersProofs`, `RecordsAreAccountedFor`: `OutputSpec =>
  []RecordsAccountedFor` of `OutputNodes`, for nodes and messages of the forms
  the editor stores and `_get` finds (`ConfigAssumption`). No two records are of
  one delivery and one device (`Apart`), a delivery that has not been handled
  has none yet (`OfDeliveries`), and while the process lives the answer tells
  whether all were published or none (`Told`): all are then in the log or on the way
  unless the producer has dropped one. That a list which repeats its devices
  is published once for each (`DistinctSound`) is an induction on the loop that
  fills the set: a least number where it fails (`SetInduction`, from the
  well-founded order of the naturals) has no predecessor.
* `NodeHandlersProofs`, `SwitchesFollowRules`: `Spec => [](OutputsFollowRules /\
  NeitherLostNorDoubled)` of `SwitchNode`, the switch part of `RulesHold`, with no
  assumption on rules, messages and values. The invariant says that the result is
  pending or the outcome; what is left is the loop over the rules. After each
  rule, a flag that is down says that something was sent, and so does an
  otherwise rule that was tried; until an otherwise rule is met the flag is up exactly when no
  rule matched; and the loop stops only after a match. `SetInduction` shows this
  for any number of rules.
* `NodeHandlersProofs`, `SetsAreInTurn`: `Spec => []PlainSetsInTurn` of
  `ChangeNode`, the change part of `RulesHold`, for messages of any objects and
  depth, any rules and number of rules, and paths up to any length `MaxDepth`.
  `MessagesAssumption` says what parsing JSON gives: objects that form a tree
  (`IsTree`); `RulesAssumption`, that a rule sets a field, and that its paths are
  among those that are looked at. The state's invariant is short, the result is
  pending or the outcome; the theorem is about what the writes in place do.
  `GetApart`: in a tree, two paths that end in the same object are
  the same path. So a write to one object shows at the paths through its own and
  nowhere else (`WroteGet`), and the objects are again a tree (`WroteTree`).
  `CameSound` follows the way of `_set` with the objects it makes, `SetSound` and
  `GraftSound` say that the tree afterwards is the one before with the value
  grafted in, `SaidSound` that one rule does what `Said` describes or fails when it
  says so, and `ChangeFollows` carries that over the list of rules. Paths are
  followed from the root by `PathInduction`, rules by `SetInduction`. That no rule
  takes an object (`TakesObject`) is used where a graft must leave a tree: after
  such a rule two fields share one object, and the claim is false.
* `NodeHandlersProofs`, `ResponsesAreHandedOn`: `Spec => []HandedOnInOrder` of
  `HttpNode`. `PartsAssumption` says that the pieces are not the two marks that the
  model itself puts into a payload, the comma between pieces and the sign that
  JSON was parsed. What was received is always the first pieces of what is sent,
  and each form that `Payload` gives to the pieces still has them in order
  (`PayloadHasPieces`).
* `NodeHandlersProofs`, `RulesAreFollowed` and `TransfersAreAccountedFor`: `Spec =>
  []RulesHold` and `Spec => []TransfersAccountedFor` of `NodeHandlers`, which put
  the four theorems above about `SwitchNode`, `ChangeNode`, `HttpNode` and `FtpNode`
  together: the invariant of each holds where `part` names it, and `part` stays.

So every safety property that a passing run checks is a theorem. Only
model-checked are the liveness properties, since TLAPS does not reach what needs
fairness and `ENABLED`, and the four runs that end in a violation.
Inductions over the data cannot cite the library's induction theorems with
these provers; where the theorems above need one, they reason by the least
number where a claim fails (`SetInduction`, `PathInduction`).

## Disagreements with the documentation

Four are runs that end in a violation.

1. `cm_first_lock`. `contextManager/index.js:24` says the class "ensures that the
   access to the context is exclusive following the read/write lock procedure".
   Both searches for the znode to wait for start from the number 0 and ask for a
   greater one, so the znode number 0, the first of every new context, is never
   waited for. Its holder shares the context with the next client.
2. `cm_late_grant`. The wait timer elapses after ZooKeeper has answered the
   listing and before its callback runs: the timer sends the deletion of the
   znode, the callback then finds the lock free and resolves the promise, and
   the client works on a context whose lock is gone.
3. `cm_leak`. `index.js:164` says that the hold timeout is how long a client can
   hold a lock. When the connection is lost while an operation is under way,
   the code reports the error and gives nothing back. If the session goes on,
   the znode stays, with no timer, and blocks the context.
4. `nm_rollback`. When the container of a new node does not start, the handler
   calls `delRemoteNode(containerId)` (`nodeManager.js:301`): the container in place of
   the node, and no tenant. `delRemoteNode` wants "identifier of the remote node"
   and "identifier of the tenant" (lines 324 and 325); no tenant is called
   undefined, so the call is refused, and the container stays. (At line 292, after
   a failed insertion, the node is in the map already; an image of another name is
   undone at line 272 with the right arguments.)

Others were met while modelling; the modules model what the code does, and the
properties are stated so that they hold beside it.

* orchestrator/nodes/cumulative-sum/cumulative-sum.js:81: The code takes a
  context whose sum is 0 for one without a sum and drops its entries: of
  values that cancel, those still in the window are forgotten when the others
  leave it. orchestrator/nodes/cumulative-sum/cumulative-sum.html:28-29 says:
  "A simple node that computes the cumulative sum of a given attribute in a
  given temporal window."
* orchestrator/nodes/cumulative-sum/cumulative-sum.js:119: When the save fails
  the code resolves with the text "Failed to unlock context.", which the
  executor takes for the list of messages and publishes letter by letter.
  lib/DataHandlerBase.js:63-65 says that a node reports "notifying either
  failure to process the message with given config, or the set of transformed
  messages to be sent to the flow's next hop."
* orchestrator/amqp.js:219: An error of the connection is followed by its
  close; the one handler reconnects, the other connects (line 219), and each
  connection has a consumer with a prefetch of its own. The comment at
  orchestrator/amqp.js:240 says: "only 1 unacked msg".
* orchestrator/executor.js:73: The race is won by the timer, the task is
  acknowledged, but its handler goes on while the next event is handled. The
  comment at orchestrator/executor.js:82-84 says of the priorities: "in this
  way new coming event will need to wait until the previous being processed".
* orchestrator/ingestor.js:377: The failed write of a change is caught and the
  older entry stays in the cache, where the later readings of the device find
  it. An execution that a lost consumer connection has left behind can do the
  same: its miss was answered before the change, and it fills the cache after it. The comment at orchestrator/ingestor.js:375-376 says: "we really don't
  care if the data was saved successfully into the cache, it only affects
  performance not the behavior".
* orchestrator/flowManager.js:237: result.ok is 1 also when the replacement
  matched no document: a flow removed between the read and the write is
  answered as updated. docs/api.apib:138 says: "Reconfigure a particular flow
  - the old configuration will be removed and the new one will be deployed."
* orchestrator/flowManager.js:232: enabled is copied only when it is true, so
  a request with false leaves the flow enabled and is answered with success.
  docs/api.apib:152 has the field ("enabled" : true) in the request, and
  docs/api.apib:138 says: "Reconfigure a particular flow - the old
  configuration will be removed and the new one will be deployed."
* orchestrator/ingestor.js:220: A head of type device in is started for every
  publication that finds its flow, without a look at its own device, which the
  event heads below are compared with.
  orchestrator/nodes/device-in/device-in.html:26 says: "Use data retrieved
  from a previously configured sensor as input to logic."
* orchestrator/ingestor.js:267: The flows are asked for once by device and
  once for each template, in queries of their own. A flow that is replaced in
  between, by a configuration the earlier query would have found, is found by
  none. docs/api.apib:138 says: "Reconfigure a particular flow - the old
  configuration will be removed and the new one will be deployed."
* orchestrator/nodeManager.js:287: A new node is in the map before its
  document is inserted, so it can be removed first, and the insertion then
  comes after the deletion and confirms. The comment at
  orchestrator/nodeManager.js:347 says of the removal: "Step 3: Remove remote
  node configuration from database".
* orchestrator/nodeManager.js:249: The map is looked at before the container
  is created and filled after it has started: two requests pass, and both
  insert a document. The comment at orchestrator/nodeManager.js:247 says:
  "Step 1: Checks if the 'remote node' exists".
* orchestrator/nodes/kubernetesRemoteNode/index.js:265: A deployment that
  exists is reported as created, although an earlier create may have failed
  before its service: the node has no address. The comment at
  orchestrator/nodes/kubernetesRemoteNode/index.js:177 says: "Create a new
  deployment in Kubernetes to run remote node."
* orchestrator/nodes/remoteNode/index.js:55: getMetadata returns what the node
  answered at its start. The comment at
  orchestrator/nodes/remoteNode/index.js:51 says: "This may be used by
  orchestrator as a liveliness check".
* orchestrator/nodes/switch/index.js:270: Every otherwise rule sets elseflag
  back to true, passed or not, so the next otherwise rule passes although a
  rule before both did. orchestrator/nodes/switch/switch.html:42 says: "the
  <i>otherwise</i> rule applies as a \"not any of\" the rules preceding it."
* orchestrator/nodes/switch/index.js:221: A rule whose path leads through null
  makes _get throw; the helper returns a rejected promise that is taken for
  the value of the field and that nobody handles, which kills the process
  (orchestrator/index.js:27). The comment at
  orchestrator/nodes/switch/index.js:236-238 says that the node reports
  "notifying either failure to process the message with given config, or the
  set of transformed messages to be sent to the flow's next hop."
* orchestrator/nodes/switch/index.js:217: The field a rule compares with
  becomes a number whenever Number can make it one, null and texts included;
  the property of the message keeps its type unless it is configured as a
  number (line 258). orchestrator/nodes/switch/switch.html:70 offers the rule
  as {v:"eq",t:"=="}, and :39 says: "When a message arrives, the selected
  property is evaluated against each" rule.
* orchestrator/nodes/cron/cron.js:78: When the request gets no response there
  is no error.response, and the line that logs it throws inside the handler of
  the failure: an unhandled rejection, which kills the process
  (orchestrator/index.js:27). lib/DataHandlerBase.js:63-65 says that a node
  reports "notifying either failure to process the message with given config,
  or the set of transformed messages to be sent to the flow's next hop."
* orchestrator/nodes/http/index.js:282: The pieces of the body are kept in an
  array that is turned into a text by toString, which puts a comma between
  them. orchestrator/nodes/http/http.html:102 says of the payload: "The body
  of the response."
* orchestrator/nodes/http/index.js:272: The end of the response resolves the
  promise, also when the connection was closed amid the body.
  orchestrator/nodes/http/http.html:102 says of the payload: "The body of the
  response."
* orchestrator/nodes/http/index.js:252: Without a field for the response
  (orchestrator/nodes/http/http.html:149 leaves it empty) the callback of the
  response throws; nothing catches it, the process is killed
  (orchestrator/index.js:32-35), and the task is delivered to the next one.
  lib/DataHandlerBase.js:63-65 says that a node reports "notifying either
  failure to process the message with given config, or the set of transformed
  messages to be sent to the flow's next hop."
* orchestrator/nodes/http/index.js:223: The request is that of follow-redirects,
  whose setTimeout is cleared at the response: a body that stalls is never
  given up, the promise stays open and the socket with it.
* orchestrator/nodes/http/index.js:201: The content type is set only if the
  header is null, but a header that is not there is undefined.
  orchestrator/nodes/http/http.html:134-135 says: "If <code>msg.payload</code>
  is an Object, the node will automatically set the content type of the
  request to <code>application/json</code> and encode the body as such."
* orchestrator/nodes/ftp/index.js:149: _set(config.response, {}, response)
  writes an empty object into the response: the field is the first argument,
  the value the second, and the message is not among them.
  orchestrator/nodes/ftp/ftp.html:77 says: "Sends ftp requests and returns the
  response."
* orchestrator/nodes/change/index.js:159: A value that is an object is put
  into the message by reference, so a later rule that sets a field of the one
  sets it in the other as well. orchestrator/nodes/change/change.html:33 says:
  "The node can specify multiple rules that will be applied in turn."
* orchestrator/nodes/change/index.js:142: Only rules of type set are carried
  out. orchestrator/nodes/change/change.html:42 says: "<b>Delete</b> - delete
  a property."

## Not modelled

* *The end of the session of a living context manager*
  (`contextManager/index.js:189`): all its locks vanish, and the client is never
  connected again. What a live process without a session does depends on the
  client library, which is outside the repository.
* *Equal request identifiers* (`index.js:316`): the second entry of `controlMap`
  overwrites the first. The documentation asks for unique ones and the client
  draws a uuid.
* *A task of a cumulative sum delivered again* enters the sum twice: the
  repeated delivery is in `TaskQueue`, and nothing in the node recognises it.
* *Failed publications of the ingestor* (`ingestor.js:198`): its report goes to an
  undefined logger. What a failed send of the producer loses is shown for the
  executor, by `NotLost`.
* *Two updates of different fields of one flow* (`flowManager.js:215`): the later
  write puts back what it had read of the other's field. Nothing in the repository says
  that both should last, and no property is stated about it.
* *The text a failed save of merge data resolves with* (`merge-data.js:59`), which
  the executor indexes like a list of messages (`executor.js:78`): the model keeps it as
  an outcome of its own and does not count it among the messages sent on.
* *Fields that share an object* after a change rule that copies one: the writes
  in place are modelled, but no property says what should be seen.
* *Flows that start themselves*, *circular messages* built by change rules,
  texts of digits that `+=` concatenates: they depend on what the user draws and
  need no interleaving.
* The DELETE of all remote nodes (as many removals side by side), the docker
  handler's `getStatus`, `stats` and `update`, `asJson` and `asHtml`, which change
  no state.
* `geo` and the kelvin sample (computations without state), `template` (renders
  a text), `email` (disabled in the code), the operators `cont`, `regex`,
  `jsonata` and the previous value of switch, redirections and TLS of http,
  configurations of cron that `checkConfig` refuses.
* Configuration, REST routes, health checks, locales, the editor's GUI, the
  vendored `harbor-master`, the API tests: no core logic.
