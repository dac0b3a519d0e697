------------------------------ MODULE HttpNode ------------------------------
(***************************************************************************)
(* The http node (nodes/http/index.js): one message, the request it makes, *)
(* the server that answers in pieces, stalls or goes away, the timers, and *)
(* the process, which an exception in a callback kills. Text is a sequence *)
(* of pieces; the texts of URLs and headers are left out. The http module  *)
(* is that of Node 8 (orchestrator.docker): a connection that closes amid  *)
(* a response ends the response. The timer of the request is that of       *)
(* follow-redirects, which stops at the response.                          *)
(***************************************************************************)
EXTENDS Integers, Sequences, SequencesExt

CONSTANTS
  Config,     \* nodes and what they find: [url, body, method, type, ret, response]
  Bodies      \* responses, as the pieces they arrive in

VARIABLES
  config,    \* the node's configuration and the request in the message
  request,   \* the request: "none", "sent", "answered", "ended", "closed", "aborted",
             \* "killed" with the process after the task was given up
  sent,      \* its [method, type, payload], when it was sent
  body,      \* the pieces of the server's response
  received,  \* those that have arrived, httpResponse.payload
  promise,   \* [state, payload]
  reject,    \* whether the timeout's rejection is due
  task       \* the executor: "waiting", "done", "given up"

vars == <<config, request, sent, body, received, promise, reject, task>>

Pending == [state |-> "pending", payload |-> <<>>]
Rejected == [state |-> "rejected", payload |-> <<>>]
Resolved(payload) == [state |-> "resolved", payload |-> payload]

NoRequest == [method |-> "", type |-> "", payload |-> "none"]

Init ==
  /\ config \in Config
  /\ request = "none" /\ sent = NoRequest
  /\ body \in Bodies
  /\ received = <<>> /\ promise = Pending /\ reject = FALSE /\ task = "waiting"

\* A promise is settled once.
Settle(p) == promise' = IF promise = Pending THEN p ELSE promise

-----------------------------------------------------------------------------
(* handleMessage *)

\* url: "none", "templated" (rendered from the message), "no protocol" (http is
\* put before it), "http", "other"; body: what the message has for it, "absent",
\* "not JSON", "null" or the request's payload, "undefined", "text", "number",
\* "object".
Refused(c) == c.body \in {"absent", "not JSON", "null"} \/ c.url \in {"none", "other"}

\* handleMessageRequestPayload compares a header that is not set with null: the
\* type stays what the message has for it, which may be unset.
ContentType(c) == c.type

WithBody == {"POST", "PUT", "PATCH"}

\* handleMessageRequest, handleMessageRequestPayload
Request(c) ==
  [method |-> c.method, type |-> ContentType(c),
   payload |-> IF c.method \in WithBody /\ c.body # "undefined" THEN c.body ELSE "none"]

HandleMessage ==
  /\ request = "none" /\ promise = Pending
  /\ IF Refused(config)
     THEN promise' = Rejected /\ UNCHANGED <<request, sent>>
     ELSE request' = "sent" /\ sent' = Request(config) /\ UNCHANGED promise
  /\ UNCHANGED <<config, body, received, reject, task>>

-----------------------------------------------------------------------------
(* The request's events *)

\* response: the field for the response, "unset" (the editor's default) or "set".
OnResponse ==
  /\ request = "sent" /\ config.response = "set" /\ request' = "answered"
  /\ UNCHANGED <<config, sent, body, received, promise, reject, task>>

\* Without a field for it the response has no place: the exception is nobody's
\* and kills the process. A task that was not given up is delivered again.
OnResponseThrows ==
  /\ request = "sent" /\ config.response = "unset"
  /\ request' = IF task = "waiting" THEN "none" ELSE "killed"
  /\ sent' = NoRequest
  /\ UNCHANGED <<config, body, received, promise, reject, task>>

OnData ==
  /\ request = "answered" /\ Len(received) < Len(body)
  /\ received' = Append(received, body[Len(received) + 1])
  /\ UNCHANGED <<config, request, sent, body, promise, reject, task>>

\* toString of an array: a comma between any two pieces.
Joined(pieces) ==
  [i \in 1..(2 * Len(pieces) - 1) |-> IF i % 2 = 1 THEN pieces[(i + 1) \div 2] ELSE "comma"]

\* JSON of one piece is parsed, commas between pieces spoil it.
Payload(c, pieces) ==
  CASE c.ret = "bin" -> pieces
    [] c.ret = "obj" /\ Len(pieces) = 1 -> <<"parsed", pieces[1]>>
    [] OTHER -> Joined(pieces)

\* The response may end: its last piece has arrived.
Delivered == request = "answered" /\ received = body

OnEnd ==
  /\ Delivered
  /\ request' = "ended" /\ Settle(Resolved(Payload(config, received)))
  /\ UNCHANGED <<config, sent, body, received, reject, task>>

\* Mutant of Ends: the end of a connection amid a response goes unheard.
EndsUnheard == IF request = "sent" THEN Settle(Rejected) ELSE UNCHANGED promise

\* Before the response, the connection's end is an error; amid it, it ends the
\* response.
Ends ==
  Settle(IF request = "sent" THEN Rejected ELSE Resolved(Payload(config, received)))

Closed ==
  /\ request \in {"sent", "answered"} /\ request' = "closed"
  /\ Ends
  /\ UNCHANGED <<config, sent, body, received, reject, task>>

\* An error of the connection: it cannot be made, or is reset.
OnError ==
  /\ request \in {"sent", "answered"} /\ request' = "closed"
  /\ Settle(Rejected)
  /\ UNCHANGED <<config, sent, body, received, reject, task>>

\* No response within reqTimeout: the request is aborted, which closes the
\* connection; the rejection follows 10 ms later. A body that stalls has no timer.
OnTimeout ==
  /\ request = "sent" /\ request' = "aborted"
  /\ Ends
  /\ reject' = TRUE
  /\ UNCHANGED <<config, sent, body, received, task>>

RejectTimeout ==
  /\ reject /\ reject' = FALSE
  /\ Settle(Rejected)
  /\ UNCHANGED <<config, request, sent, body, received, task>>

-----------------------------------------------------------------------------
(* The executor *)

TaskDone ==
  /\ task = "waiting" /\ promise # Pending /\ task' = "done"
  /\ UNCHANGED <<config, request, sent, body, received, promise, reject>>

\* taskTimeout elapses, which is shorter than reqTimeout: the handler goes on.
TaskTimeout ==
  /\ task = "waiting" /\ request # "none" /\ promise = Pending /\ task' = "given up"
  /\ UNCHANGED <<config, request, sent, body, received, promise, reject>>

-----------------------------------------------------------------------------

Next ==
  \/ HandleMessage \/ OnResponse \/ OnResponseThrows \/ OnData \/ OnEnd \/ Closed \/ OnError \/ OnTimeout
  \/ RejectTimeout \/ TaskDone \/ TaskTimeout

Spec == Init /\ [][Next]_vars

\* Messages are handled and timers fire; the server need not do anything.
FairSpec ==
  Spec /\ WF_vars(HandleMessage) /\ WF_vars(OnTimeout) /\ WF_vars(TaskDone) /\ WF_vars(TaskTimeout)

-----------------------------------------------------------------------------
(* Properties *)

\* The pieces in a payload.
Pieces(payload) ==
  LET found[n \in 0..Len(payload)] ==
        IF n = 0 THEN <<>>
        ELSE IF payload[n] \in {"comma", "parsed"} THEN found[n - 1]
        ELSE Append(found[n - 1], payload[n])
  IN found[Len(payload)]

\* What is handed on is what the server sent, in order, without a gap, and all
\* of it unless the connection was cut off; nothing that happens later changes it.
HandedOnInOrder ==
  promise.state = "resolved" =>
    /\ IsPrefix(Pieces(promise.payload), body)
    /\ request \notin {"closed", "aborted"} => Pieces(promise.payload) = body

\* The task of the node ends, whatever the server does, unless the node has no
\* field for responses and kills the process again and again; its promise is
\* settled, unless the process was killed or a body stalls.
HttpEnds ==
  /\ <>(task # "waiting") \/ (config.response = "unset" /\ []<>(request = "none"))
  /\ config.response = "set" => (<>(promise # Pending) \/ <>[](request = "answered"))
=============================================================================
