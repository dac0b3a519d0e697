------------------------------ MODULE FtpNode -------------------------------
(***************************************************************************)
(* The ftp node (nodes/ftp/index.js): the messages of one queue, each of   *)
(* which uploads its content to the same file, the FTP server, and the     *)
(* executor between them, which takes a message when the one before has    *)
(* an answer or was given up, or once more when the connection of its      *)
(* consumer was lost (AmqpClient has the steps of the connection).         *)
(***************************************************************************)
EXTENDS Naturals, Sequences

CONSTANTS
  NMessages,    \* messages 1, 2, ..., in the order of the queue
  Config,       \* nodes and what the messages have for them
  MaxFailures,  \* requests that fail
  MaxLosses     \* connections lost by the consumer, and crashes

VARIABLES
  config,   \* [url, paths, response]
  queue,    \* the messages nobody has acknowledged
  channels, \* the channels of the consumer that live
  made,     \* channels made so far
  attempts, \* its attempts to connect that are under way
  runs,     \* the handlers: the message, the channel it came through, the step, the executor's task
  open,     \* handlers whose client has not been closed
  stored,   \* handlers whose upload was carried out
  file,     \* the handler whose content the file has, 0 for no file
  output,   \* the messages the node has written to
  failures, drops, crashes

consumer == <<channels, made, attempts>>
faults == <<failures, drops, crashes>>
vars == <<config, queue, consumer, runs, open, stored, file, output, faults>>

Init ==
  /\ config \in Config
  /\ queue = 1..NMessages /\ channels = {} /\ made = 0 /\ attempts = 1
  /\ runs = <<>> /\ open = {} /\ stored = {} /\ file = 0
  /\ output = {} /\ failures = 0 /\ drops = 0 /\ crashes = 0

Handlers == DOMAIN runs

Fails == failures < MaxFailures /\ failures' = failures + 1 /\ UNCHANGED <<drops, crashes>>

Go(h, s) == runs' = [runs EXCEPT ![h].step = s]

-----------------------------------------------------------------------------
(* handleMessage *)

\* url: "undefined", "empty" or "set"; paths: whether the message has a file
\* name and a content that makes a buffer.
Refused(c) == c.url \in {"undefined", "empty"} \/ c.paths = "absent"

\* The executor has the message of h in hand, unacknowledged on a live channel.
InHand(h) == runs[h].task = "running" /\ runs[h].via \in channels

\* Mutant of Free: messages are taken while others are handled.
FreeAtOnce(k) == k \in channels

\* One unacknowledged message for each channel.
Free(k) == \A h \in Handlers : InHand(h) => runs[h].via # k

\* The messages nobody has in hand: those of a lost channel return to their place.
Waiting == {m \in queue : \A h \in Handlers : InHand(h) => runs[h].message # m}

HandleMessage ==
  /\ \E k \in channels, m \in Waiting :
       /\ Free(k) /\ \A n \in Waiting : m <= n
       /\ runs' = Append(runs, [message |-> m, via |-> k, task |-> "running",
                                step |-> IF Refused(config) THEN "rejected" ELSE "accessing"])
  /\ open' = IF Refused(config) THEN open ELSE open \cup {Len(runs) + 1}
  /\ UNCHANGED <<config, queue, consumer, stored, file, output, faults>>

Accessed(h) ==
  /\ runs[h].step = "accessing" /\ Go(h, "uploading")
  /\ UNCHANGED <<config, queue, consumer, open, stored, file, output, faults>>

\* There is no connection, or one whose user is refused.
AccessFails(h) ==
  /\ runs[h].step = "accessing" /\ Fails /\ Go(h, "rejected")
  /\ UNCHANGED <<config, queue, consumer, open, stored, file, output>>

\* client.close(), once the response is put away.
CloseAt(h) == open \ {h}

\* The server has the whole file.
Answered(h) == runs[h].step = "uploading" /\ h \in stored

\* _set(field, value, target), as it is called: with the response as the target.
WrittenTo == "response"

\* No field for the response is an error.
Uploaded(h) ==
  /\ Answered(h)
  /\ IF config.response = "unset"
     THEN Go(h, "rejected") /\ UNCHANGED <<open, output>>
     ELSE /\ Go(h, "resolved") /\ open' = CloseAt(h)
          /\ output' = IF WrittenTo = "message" THEN output \cup {runs[h].message} ELSE output
  /\ UNCHANGED <<config, queue, consumer, stored, file, faults>>

\* The server refuses the file, or the connection is lost before or after it has
\* the whole.
UploadFails(h) ==
  /\ runs[h].step = "uploading" /\ Fails /\ Go(h, "rejected")
  /\ UNCHANGED <<config, queue, consumer, open, stored, file, output>>

-----------------------------------------------------------------------------
(* The server, and the executor *)

Store(h) ==
  /\ runs[h].step = "uploading" /\ h \notin stored
  /\ stored' = stored \cup {h} /\ file' = h
  /\ UNCHANGED <<config, queue, consumer, runs, open, output, faults>>

\* The process dies: its handlers and connections are gone, and the consumer of
\* the next one connects.
Killed(h) == IF runs[h].step \in {"accessing", "uploading"} THEN "killed" ELSE runs[h].step

Restart ==
  /\ runs' = [h \in Handlers |->
                [runs[h] EXCEPT !.step = Killed(h), !.task = IF @ = "running" THEN "lost" ELSE @]]
  /\ open' = {} /\ channels' = {} /\ attempts' = 1
  /\ UNCHANGED <<config, queue, made, stored, file, output>>

\* On a channel that is gone the acknowledgement throws, in the handler of that
\* failure too: an unhandled rejection, which kills the process.
Ack(h, how) ==
  \/ /\ runs[h].via \in channels
     /\ runs' = [runs EXCEPT ![h].task = how]
     /\ queue' = queue \ {runs[h].message}
     /\ UNCHANGED <<config, consumer, open, stored, file, output, faults>>
  \/ runs[h].via \notin channels /\ Restart /\ UNCHANGED faults

TaskDone(h) ==
  runs[h].task = "running" /\ runs[h].step \in {"resolved", "rejected"} /\ Ack(h, "done")

\* The handler goes on.
TaskTimeout(h) ==
  runs[h].task = "running" /\ runs[h].step \in {"accessing", "uploading"} /\ Ack(h, "given up")

Crash ==
  /\ drops + crashes < MaxLosses /\ crashes' = crashes + 1 /\ UNCHANGED <<failures, drops>>
  /\ Restart

-----------------------------------------------------------------------------
(* The connection of the consumer *)

\* A loss by "error" leaves two attempts to connect again, one by "close" one.
ConsumerDropped ==
  /\ drops + crashes < MaxLosses /\ drops' = drops + 1 /\ UNCHANGED <<failures, crashes>>
  /\ \E k \in channels, again \in {1, 2} :
       channels' = channels \ {k} /\ attempts' = attempts + again
  /\ UNCHANGED <<config, queue, made, runs, open, stored, file, output>>

ConsumerConnects ==
  /\ attempts > 0 /\ attempts' = attempts - 1
  /\ made' = made + 1 /\ channels' = channels \cup {made + 1}
  /\ UNCHANGED <<config, queue, runs, open, stored, file, output, faults>>

-----------------------------------------------------------------------------

Handler(h) == Accessed(h) \/ AccessFails(h) \/ Uploaded(h) \/ UploadFails(h)

Task(h) == TaskDone(h) \/ TaskTimeout(h)

Next ==
  \/ HandleMessage
  \/ \E h \in Handlers : Handler(h) \/ Store(h) \/ Task(h)
  \/ Crash \/ ConsumerDropped \/ ConsumerConnects

Spec == Init /\ [][Next]_vars

\* The executor and its consumer go on; the server need not answer.
FairSpec ==
  Spec /\ WF_vars(HandleMessage) /\ WF_vars(\E h \in Handlers : Task(h)) /\ WF_vars(ConsumerConnects)

-----------------------------------------------------------------------------
(* Properties *)

\* Type invariant.  A message that waits to be acknowledged is in the queue.
TypeOK ==
  /\ config \in Config /\ queue \subseteq 1..NMessages
  /\ channels \subseteq 1..made /\ {made, attempts, failures, drops, crashes} \subseteq Nat
  /\ runs \in Seq([message : 1..NMessages, via : 1..made,
                   step : {"accessing", "uploading", "resolved", "rejected", "killed"},
                   task : {"running", "done", "given up", "lost"}])
  /\ open \subseteq Handlers /\ stored \subseteq Handlers /\ file \in 0..Len(runs)
  /\ \A h \in Handlers : InHand(h) => runs[h].message \in queue

\* A handler that resolves has its content on the server and has closed its
\* client: only failures leave one that was not closed.
ResolvedIsStored ==
  \A h \in Handlers : runs[h].step = "resolved" => h \in stored /\ h \notin open

\* As long as the consumer keeps its connection, the file has the content of the
\* last message that was stored, in the order of the queue; an older one comes
\* back only from a handler that was given up.  (Of a lost connection the
\* handlers go on beside those of the next ones.)
OlderOnlyAfterTimeout ==
  drops = 0 =>
    \A h \in stored : runs[h].message > runs[file].message => runs[file].task = "given up"

\* The file is what the handlers that resolved, or were given up, have made it.
UploadsAccountedFor == TypeOK /\ ResolvedIsStored /\ OlderOnlyAfterTimeout

\* Every message is acknowledged, though the server may never answer
\* (executor.js:67) and the consumer may lose its connection.
TasksEnd == <>(queue = {})
=============================================================================
