----------------------------- MODULE CronNodes ------------------------------
(***************************************************************************)
(* The cron and cron-batch nodes (nodes/cron/cron.js,                      *)
(* nodes/cron-batch/cron-batch.js): messages that pass a node that creates *)
(* jobs at the cron service and, later, one that removes them, by requests *)
(* that are sent side by side and given up after a time, as is the task.   *)
(***************************************************************************)
EXTENDS Naturals, Sequences, SequencesExt, FiniteSets

CONSTANTS
  Message,      \* messages, each with its jobs
  Batch,        \* the messages whose nodes are cron-batch
  BatchSize,    \* jobs of such a message
  MaxFailures   \* requests refused or given up, and deaths of the process

VARIABLES
  msg,        \* each message: the node it is at, whether that works on it, the identifiers it carries
  results,    \* each request of the node at work: how it stands, the identifier it was answered
  requests,   \* at the cron service, given up or not: [m, k, try, op, job]
  jobs,       \* at the cron service: [id, m, k], created for the k-th request of m
  made,       \* jobs created so far
  try,        \* deliveries of each message to the node it is at
  failures, killed

cronVars == <<msg, results, requests, jobs, made, try, failures, killed>>

Size(m) == IF m \in Batch THEN BatchSize ELSE 1
NoJob == 0
Nothing(m) == [k \in 1..Size(m) |-> [st |-> "none", id |-> NoJob]]

CronInit ==
  /\ msg = [m \in Message |-> [at |-> "create", phase |-> "queued", ids |-> [k \in 1..Size(m) |-> NoJob]]]
  /\ results = [m \in Message |-> Nothing(m)]
  /\ requests = {} /\ jobs = {} /\ made = 0
  /\ try = [m \in Message |-> 0] /\ failures = 0 /\ killed = 0

Fails == failures + killed < MaxFailures /\ failures' = failures + 1

Is(m, at, phase) == msg[m].at = at /\ msg[m].phase = phase

-----------------------------------------------------------------------------
(* The nodes *)

\* One request for each job, all at once.
HandleMessage(m) ==
  /\ msg[m].phase = "queued"
  /\ msg' = [msg EXCEPT ![m].phase = "running"]
  /\ try' = [try EXCEPT ![m] = @ + 1]
  /\ results' = [results EXCEPT ![m] = [k \in 1..Size(m) |-> [st |-> "sent", id |-> NoJob]]]
  /\ requests' = requests \cup
       {[m |-> m, k |-> k, try |-> try[m] + 1, op |-> msg[m].at, job |-> msg[m].ids[k]] : k \in 1..Size(m)}
  /\ UNCHANGED <<jobs, made, failures, killed>>

\* Mutant of Complete: the first answer is enough.
CompleteAtFirst(m) == \E k \in 1..Size(m) : results[m][k].st = "ok"

\* Promise.all: every request has been answered.
Complete(m) == \A k \in 1..Size(m) : results[m][k].st = "ok"

\* What the message carries to the next hop, in the order of the requests.
Identifiers(m) == [k \in 1..Size(m) |-> results[m][k].id]

Succeed(m) ==
  /\ msg[m].phase = "running" /\ Complete(m)
  /\ msg' = [msg EXCEPT ![m] =
       IF msg[m].at = "create" THEN [at |-> "remove", phase |-> "queued", ids |-> Identifiers(m)]
                               ELSE [@ EXCEPT !.at = "out", !.phase = "done"]]
  /\ results' = [results EXCEPT ![m] = Nothing(m)]
  /\ try' = [try EXCEPT ![m] = 0]
  /\ UNCHANGED <<requests, jobs, made, failures, killed>>

\* The task is done with, the other requests go on.
End(m) ==
  /\ msg' = [msg EXCEPT ![m].phase = "failed"]
  /\ results' = [results EXCEPT ![m] = Nothing(m)]
  /\ UNCHANGED <<requests, jobs, made, try, failures, killed>>

AnyFailed(m) == \E k \in 1..Size(m) : results[m][k].st = "failed"

\* The first failure fails the node.
Fail(m) == msg[m].phase = "running" /\ AnyFailed(m) /\ End(m)

\* taskTimeout elapses.
TaskTimeout(m) == msg[m].phase = "running" /\ End(m)

\* A request is given up; the service may still come to it. (cron's _createJob
\* then looks into a response there is none of: an exception in a handler of
\* failures, after which its promise is not settled and the process dies.)
GiveUp(m, k) ==
  /\ msg[m].phase = "running" /\ results[m][k].st = "sent" /\ Fails
  /\ m \in Batch \/ msg[m].at = "remove"
  /\ results' = [results EXCEPT ![m][k].st = "failed"]
  /\ UNCHANGED <<msg, requests, jobs, made, try, killed>>

\* The process is killed, and its tasks are delivered again.
Dies ==
  /\ failures + killed < MaxFailures /\ killed' = killed + 1
  /\ msg' = [n \in Message |-> IF msg[n].phase = "running" THEN [msg[n] EXCEPT !.phase = "queued"] ELSE msg[n]]
  /\ results' = [n \in Message |-> Nothing(n)]
  /\ UNCHANGED <<requests, jobs, made, try, failures>>

-----------------------------------------------------------------------------
(* The cron service *)

Heard(r) == Is(r.m, r.op, "running") /\ try[r.m] = r.try /\ results[r.m][r.k].st = "sent"

Answer(r, st, id) ==
  results' = IF Heard(r) THEN [results EXCEPT ![r.m][r.k] = [st |-> st, id |-> id]] ELSE results

Serve(r) ==
  /\ requests' = requests \ {r}
  /\ IF r.op = "create"
     THEN /\ jobs' = jobs \cup {[id |-> made + 1, m |-> r.m, k |-> r.k]}
          /\ made' = made + 1
          /\ Answer(r, "ok", made + 1)
     ELSE /\ jobs' = {j \in jobs : j.id # r.job}
          /\ Answer(r, IF jobs' = jobs THEN "failed" ELSE "ok", NoJob)
          /\ UNCHANGED made
  /\ UNCHANGED <<msg, try, failures, killed>>

Refused == "failed"

Refuse(r) ==
  /\ Fails
  /\ requests' = requests \ {r}
  /\ Answer(r, Refused, NoJob)
  /\ UNCHANGED <<msg, jobs, made, try, killed>>

-----------------------------------------------------------------------------

CronNext ==
  \/ \E m \in Message :
       \/ HandleMessage(m) \/ Succeed(m) \/ Fail(m) \/ TaskTimeout(m)
       \/ \E k \in 1..Size(m) : GiveUp(m, k)
  \/ \E r \in requests : Serve(r) \/ Refuse(r)
  \/ Dies

CronSpec == CronInit /\ [][CronNext]_cronVars

\* Messages are taken and timers fire; nothing is promised of the service.
CronFairSpec ==
  CronSpec /\ \A m \in Message : WF_cronVars(HandleMessage(m)) /\ WF_cronVars(TaskTimeout(m))

-----------------------------------------------------------------------------
(* Properties *)

\* The message carries, in the order of its requests, the identifiers of jobs
\* that were created for just these, and until it is to be removed each of them
\* exists, whatever else was answered, given up or delivered again.
IdentifiersAreItsJobs ==
  \A m \in Message :
    Is(m, "remove", "queued") /\ try[m] = 0 =>
      \A k \in 1..Size(m) : [id |-> msg[m].ids[k], m |-> m, k |-> k] \in jobs

\* A message that leaves the node that removes has left none of its jobs.
RemovedAreGone ==
  \A m \in Message : msg[m].at = "out" => \A j \in jobs : \A k \in 1..Size(m) : j.id # msg[m].ids[k]

\* The node of m has failed, or is about to.
Failing(m) == msg[m].phase = "failed" \/ AnyFailed(m)

\* As long as the process lives, only a message that fails, for one of its
\* requests or for its time, leaves a job behind: of every other one each job is
\* known to the message, or it is about to be told of it.
NoJobForgotten ==
  killed = 0 =>
    \A j \in jobs : ~Failing(j.m) => j.id \in {msg[j.m].ids[j.k], results[j.m][j.k].id}

\* The jobs of the service are those the messages carry the identifiers of.
JobsAccountedFor == IdentifiersAreItsJobs /\ RemovedAreGone /\ NoJobForgotten

\* Every message leaves its last node or fails, though the service may be silent.
MessagesEnd == <>(\A m \in Message : msg[m].phase \in {"done", "failed"})
=============================================================================
