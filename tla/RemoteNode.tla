----------------------------- MODULE RemoteNode -----------------------------
(***************************************************************************)
(* A remote node and its handler in the orchestrator: RemoteNodeHandler    *)
(* (nodes/remoteNode/index.js), the Dispatcher below it (dispatcher.js),   *)
(* which matches answers with requests, and the server that every remote   *)
(* node runs (lib/DojotHandler.js).                                        *)
(*                                                                         *)
(* A dealer socket queues what it sends while its peer is down. A crash of *)
(* the node or a break of the connection loses what has left the queue.    *)
(***************************************************************************)
EXTENDS Naturals, Sequences

CONSTANTS
  Caller,       \* executions of flows, and readers of its locale data
  MaxRequests,  \* requests sent in all
  MaxFaults     \* crashes of the node and breaks of the connection

ASSUME RemoteAssumption == MaxRequests \in Nat \ {0} /\ MaxFaults \in Nat /\ "init" \notin Caller

VARIABLES
  sock,        \* the dispatcher's socket: "none", "open", "closed"
  requestMap,  \* the requests whose answer it expects
  sent,        \* requests made so far; the n-th has the identifier n
  requests,    \* on their way to the node: [id, command]
  node,        \* whether the node is up
  running,     \* at the node: [id, command, heard], heard when the answer will find its way
  answers,     \* on their way back: [id, payload]
  call,        \* what each caller waits for, or how its last call ended
  metadata,    \* this.metadata: "unset", "undefined", "metadata"
  faults

nodeVars == <<node, running>>
dispatcherVars == <<requestMap, sent, requests>>
remoteVars == <<sock, dispatcherVars, nodeVars, answers, call, metadata, faults>>

RemoteInit ==
  /\ sock = "none" /\ requestMap = {} /\ sent = 0 /\ requests = <<>>
  /\ node = TRUE /\ running = {} /\ answers = <<>>
  /\ call = [c \in Caller \cup {"init"} |-> [phase |-> "idle"]]
  /\ metadata = "unset" /\ faults = 0

-----------------------------------------------------------------------------
(* Dispatcher and RemoteNodeHandler *)

\* An identifier no request has had (uuid).
NewId == sent + 1

\* The entry is made before the request is sent. A closed socket throws: the
\* promise is rejected, the entry stays.
SendRequest(c, command) ==
  /\ sent < MaxRequests /\ sent' = sent + 1
  /\ requestMap' = requestMap \cup {NewId}
  /\ IF sock = "open"
     THEN /\ requests' = Append(requests, [id |-> NewId, command |-> command])
          /\ call' = [call EXCEPT ![c] = [phase |-> "waiting", id |-> NewId, command |-> command]]
     ELSE /\ UNCHANGED requests
          /\ call' = [call EXCEPT ![c] = [phase |-> "rejected", id |-> NewId]]

HandlerInit ==
  /\ sock = "none" /\ sock' = "open"
  /\ requests' = Append(requests, [id |-> NewId, command |-> "metadata"])
  /\ requestMap' = requestMap \cup {NewId} /\ sent' = sent + 1
  /\ call' = [call EXCEPT !["init"] = [phase |-> "waiting", id |-> NewId, command |-> "metadata"]]
  /\ UNCHANGED <<nodeVars, answers, metadata, faults>>

Call(c) ==
  /\ sock # "none" /\ call[c].phase # "waiting"
  /\ \E command \in {"message", "locale"} : SendRequest(c, command)
  /\ UNCHANGED <<sock, nodeVars, answers, metadata, faults>>

\* How a call ends: by is the request whose answer ended it. A handler's error
\* and a result that is no array reject a message; locale data, the metadata
\* and the page are read off the answer whatever it is, and a page that is
\* undefined may be refused by writeFileSync.
Outcomes(w, payload) ==
  CASE w.command = "message" -> IF payload = "array" THEN {"resolved"} ELSE {"rejected"}
    [] w.command = "html" /\ payload = "error" -> {"resolved", "rejected"}
    [] w.command = "metadata" -> {"html"}
    [] OTHER -> {"resolved"}

\* Mutant of Entry: answers are taken in the order of the requests.
EntryInOrder(id) == {n \in requestMap : \A m \in requestMap : n <= m}

\* The request an answer is taken for; none when it expired.
Entry(id) == requestMap \cap {id}

Expected(id) == requestMap \ {id}

OnMessage ==
  /\ answers # <<>> /\ answers' = Tail(answers)
  /\ sock = "open"
  /\ LET answer == Head(answers)
         ended == {c \in DOMAIN call : call[c].phase = "waiting" /\ call[c].id \in Entry(answer.id)}
     IN /\ requestMap' = IF Entry(answer.id) = {} THEN requestMap ELSE Expected(answer.id)
        /\ \E how \in [ended -> {"resolved", "rejected", "html"}] :
             /\ \A c \in ended : how[c] \in Outcomes(call[c], answer.payload)
             /\ call' = [c \in DOMAIN call |-> IF c \notin ended THEN call[c]
                          ELSE [phase |-> how[c], id |-> call[c].id, by |-> answer.id]]
        /\ metadata' = IF \E c \in ended : call[c].command = "metadata"
                       THEN IF answer.payload = "error" THEN "undefined" ELSE "metadata"
                       ELSE metadata
  /\ UNCHANGED <<sock, sent, requests, nodeVars, faults>>

\* init goes on: the page, once it has the metadata.
AskForPage ==
  /\ call["init"].phase = "html"
  /\ SendRequest("init", "html")
  /\ UNCHANGED <<sock, nodeVars, answers, metadata, faults>>

\* The executor gives a task up (config.taskProcessing.taskTimeout); the entry
\* of its request stays.
TaskTimeout(c) ==
  /\ call[c].phase = "waiting" /\ call[c].command = "message"
  /\ call' = [call EXCEPT ![c] = [phase |-> "timeout", id |-> call[c].id]]
  /\ UNCHANGED <<sock, dispatcherVars, nodeVars, answers, metadata, faults>>

\* The node is removed (delRemoteNode).
Deinit ==
  /\ sock = "open" /\ sock' = "closed"
  /\ answers' = <<>>
  /\ UNCHANGED <<dispatcherVars, nodeVars, call, metadata, faults>>

-----------------------------------------------------------------------------
(* DojotHandler: the node *)

\* Requests are read in order and handled side by side.
Take ==
  /\ node /\ requests # <<>> /\ requests' = Tail(requests)
  /\ running' = running \cup {[id |-> Head(requests).id, command |-> Head(requests).command, heard |-> TRUE]}
  /\ UNCHANGED <<sock, requestMap, sent, node, answers, call, metadata, faults>>

\* What _handleRequest makes of what the node's own code does: nothing becomes
\* an empty list of outputs, a failure an object with an error, except that of
\* getLocaleData, which becomes an empty object.
Payloads(command) ==
  CASE command = "message" -> {"array", "other", "error"}
    [] command = "locale" -> {"object"}
    [] OTHER -> {"object", "error"}

Reply(r, payload) == <<[id |-> r.id, payload |-> payload]>>

\* An answer to an identity that is gone is dropped by the router socket.
Handled ==
  \E r \in running : \E payload \in Payloads(r.command) :
    /\ node
    /\ running' = running \ {r}
    /\ answers' = IF r.heard /\ sock = "open" THEN answers \o Reply(r, payload) ELSE answers
    /\ UNCHANGED <<sock, dispatcherVars, node, call, metadata, faults>>

NodeCrash ==
  /\ node /\ node' = FALSE
  /\ faults < MaxFaults /\ faults' = faults + 1
  /\ running' = {} /\ answers' = <<>>
  /\ UNCHANGED <<sock, dispatcherVars, call, metadata>>

\* The container's restart policy.
NodeRestart ==
  /\ ~node /\ node' = TRUE
  /\ UNCHANGED <<sock, dispatcherVars, running, answers, call, metadata, faults>>

\* The dealer connects again, under another identity.
ConnectionBreaks ==
  /\ faults < MaxFaults /\ faults' = faults + 1
  /\ running' = {[r EXCEPT !.heard = FALSE] : r \in running}
  /\ answers' = <<>>
  /\ UNCHANGED <<sock, dispatcherVars, node, call, metadata>>

-----------------------------------------------------------------------------

RemoteNext ==
  \/ HandlerInit \/ OnMessage \/ AskForPage \/ Deinit
  \/ \E c \in Caller : Call(c) \/ TaskTimeout(c)
  \/ Take \/ Handled \/ NodeCrash \/ NodeRestart \/ ConnectionBreaks

RemoteSpec == RemoteInit /\ [][RemoteNext]_remoteVars

\* Both sockets are read, timers fire, a node that crashes is started again,
\* and its code ends: unless it does, only the timeout ends a task.
RemoteFairSpec ==
  /\ RemoteSpec
  /\ WF_remoteVars(OnMessage) /\ WF_remoteVars(AskForPage)
  /\ WF_remoteVars(Take) /\ WF_remoteVars(Handled) /\ WF_remoteVars(NodeRestart)
  /\ \A c \in Caller : WF_remoteVars(TaskTimeout(c))

-----------------------------------------------------------------------------
(* Properties *)

Command == {"metadata", "html", "message", "locale"}

\* Type invariant.
RemoteTypeOK ==
  /\ sock \in {"none", "open", "closed"}
  /\ sent \in 0..MaxRequests /\ requestMap \subseteq 1..sent
  /\ \A i \in DOMAIN requests : requests[i].id \in 1..sent /\ requests[i].command \in Command
  /\ node \in BOOLEAN
  /\ \A r \in running : r.id \in 1..sent /\ r.command \in Command /\ r.heard \in BOOLEAN
  /\ \A i \in DOMAIN answers : answers[i].id \in 1..sent
  /\ \A c \in DOMAIN call :
       call[c].phase \in {"idle", "waiting", "html", "resolved", "rejected", "timeout"}
  /\ metadata \in {"unset", "undefined", "metadata"}
  /\ faults \in 0..MaxFaults

\* A call ends with the node's answer to that very call, in whatever order the
\* node answers, whatever was given up before.
OwnAnswer ==
  \A c \in DOMAIN call : "by" \in DOMAIN call[c] => call[c].by = call[c].id

\* Whoever waits is in the map, after late answers, answers to others and
\* removals of entries too: the answer that arrives finds its caller.
WaiterHasEntry ==
  \A c \in DOMAIN call : call[c].phase = "waiting" => call[c].id \in requestMap

UnderWay ==
  {requests[i].id : i \in DOMAIN requests} \cup {r.id : r \in running} \cup
  {answers[i].id : i \in DOMAIN answers}

\* While nothing breaks and the node is not removed, every request the map
\* expects an answer to is under way: no call of the node's code, its failures
\* included, leaves an entry for ever.
LeaksOnlyByFailure ==
  faults = 0 /\ sock = "open" => requestMap = UnderWay

\* requestMap holds those who wait, and what reaches them is theirs.
RequestMapSound == RemoteTypeOK /\ OwnAnswer /\ WaiterHasEntry /\ LeaksOnlyByFailure

\* A task that waits for the node ends, whatever happens to the node.
TasksEnd ==
  \A c \in Caller :
    (call[c].phase = "waiting" /\ call[c].command = "message") ~> call[c].phase # "waiting"

\* While nothing breaks and the node is not removed, init and the readers of
\* locale data are answered too, although nothing limits their time.
CallsEnd ==
  \A c \in Caller \cup {"init"} :
    call[c].phase \in {"waiting", "html"} ~>
      (call[c].phase \notin {"waiting", "html"} \/ faults > 0 \/ sock = "closed" \/ sent = MaxRequests)
=============================================================================
