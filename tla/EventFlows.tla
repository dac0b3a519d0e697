----------------------------- MODULE EventFlows -----------------------------
(***************************************************************************)
(* From an event of a device to the first tasks of its flows:              *)
(* _handleEvent, _handleFlow and _publish of orchestrator/ingestor.js,     *)
(* which ask the collection of flows once for the device and once for each *)
(* template, beside the requests that change it (module FlowManager).      *)
(***************************************************************************)
EXTENDS FlowManager, Sequences

CONSTANTS Event  \* the events: [source, device, templates], templates a sequence

ASSUME EventAssumption ==
  \A e \in Event : Len(e.templates) \in Nat /\ DOMAIN e.templates = 1..Len(e.templates)

VARIABLES
  answers,  \* the results of each event's queries, Null while one is waited for
  handled,  \* events whose tasks are published
  tasks,    \* the tasks published
  seen      \* what was stored under each identity since the event came

vars == <<flowVars, answers, handled, tasks, seen>>
eventVars == <<answers, handled, tasks>>

Init ==
  /\ FlowInit
  /\ answers = [e \in Event |-> <<>>]
  /\ handled = {} /\ tasks = {}
  /\ seen = [e \in Event |-> [f \in Flow |-> {}]]

\* The queries of an event: its device first, then its templates.
Queries(e) == Len(e.templates) + 1

Begun(e) == answers[e] # <<>>

Complete(e) == Begun(e) /\ \A q \in 1..Queries(e) : answers[e][q] # Null

\* What query q of e finds in the collection.
Matches(e, q) ==
  {f \in Stored : IF q = 1 THEN e.device \in flows[f].devices
                  ELSE e.templates[q - 1] \in flows[f].templates}

-----------------------------------------------------------------------------

\* preProcessEvent hands the event over.
BeginEvent(e) ==
  /\ ~Begun(e)
  /\ answers' = [answers EXCEPT ![e] = [q \in 1..Queries(e) |-> Null]]
  /\ seen' = [seen EXCEPT ![e] = [f \in Flow |-> {flows[f]}]]
  /\ UNCHANGED <<flowVars, handled, tasks>>

\* The database answers the queries in any order.
AnswerQuery(e, q) ==
  /\ Begun(e) /\ answers[e][q] = Null
  /\ answers' = [answers EXCEPT ![e][q] = [f \in Matches(e, q) |-> flows[f]]]
  /\ UNCHANGED <<flowVars, handled, tasks, seen>>

Found(e) == UNION {DOMAIN answers[e][q] : q \in 1..Queries(e)}

Lists(e, f) == {q \in 1..Queries(e) : f \in DOMAIN answers[e][q]}

Copy(e, f, q) == [flow |-> f, document |-> answers[e][q][f]]

\* Mutant of Chosen: the flows of every list, repeated or not.
ChosenAll(e) == UNION {{Copy(e, f, q) : q \in Lists(e, f)} : f \in Found(e)}

\* One copy of each flow, that of the last list it is in.
Chosen(e) ==
  UNION {{Copy(e, f, q) : q \in {l \in Lists(e, f) : \A p \in Lists(e, f) : p <= l}} : f \in Found(e)}

\* Whether an event of a selected flow starts at head n.
Starts(n, e) ==
  CASE n.type \in {"device in", "device template in"} -> e.source = "publish"
    [] n.type = "event device in" -> n.ref = e.device /\ e.source \in n.events
    [] n.type = "event template in" ->
         (\E i \in DOMAIN e.templates : e.templates[i] = n.ref) /\ e.source \in n.events
    [] OTHER -> FALSE

\* The heads of a selected flow that an event starts.
Started(document, e) == {n \in document.red : n.id \in document.heads /\ Starts(n, e)}

Tasks(e, copy) ==
  {[event |-> e, flow |-> copy.flow, document |-> copy.document, head |-> n] :
     n \in Started(copy.document, e)}

\* The tasks carry the flow as it was found.
PublishTasks(e) ==
  /\ e \notin handled /\ Complete(e)
  /\ handled' = handled \cup {e}
  /\ tasks' = tasks \cup UNION {Tasks(e, copy) : copy \in Chosen(e)}
  /\ UNCHANGED <<flowVars, answers, seen>>

\* A request of the REST interface.
Reconfigure ==
  /\ FlowNext
  /\ seen' = [e \in Event |-> [f \in Flow |->
       IF Begun(e) /\ e \notin handled THEN seen[e][f] \cup {flows'[f]} ELSE seen[e][f]]]
  /\ UNCHANGED eventVars

Next ==
  \/ \E e \in Event : BeginEvent(e) \/ PublishTasks(e) \/ \E q \in 1..Queries(e) : AnswerQuery(e, q)
  \/ Reconfigure

Spec == Init /\ [][Next]_vars

-----------------------------------------------------------------------------
(* Properties *)

\* The heads of a document that an event of their own device or template starts.
Wanted(e, document) ==
  {n \in document.red :
     /\ n.wired /\ n.type \in HeadTypes
     /\ IF n.type \in {"event device in", "device in"} THEN n.ref = e.device
        ELSE \E i \in DOMAIN e.templates : e.templates[i] = n.ref
     /\ IF n.type \in {"device in", "device template in"} THEN e.source = "publish"
        ELSE e.source \in n.events}

TasksOf(e, f) == {t \in tasks : t.event = e /\ t.flow = f}

\* However the queries interleave with updates, an event goes through one
\* configuration of each flow, and it is one that was stored while the event
\* was in progress.
OneConfiguration ==
  \A e \in handled : \A f \in DOMAIN flows :
    /\ Cardinality({t.document : t \in TasksOf(e, f)}) <= 1
    /\ \A t \in TasksOf(e, f) : t.document \in seen[e][f]

\* A flow nobody changes in the meantime gets every event it wants, once for
\* each of its heads, whether it is found by the device or by a template.
StableFlowsServed ==
  \A e \in handled : \A f \in DOMAIN flows :
    \A document \in seen[e][f] \ {Null} :
      seen[e][f] = {document} =>
        Wanted(e, document) \subseteq {t.head : t \in TasksOf(e, f)}

\* A head for events starts for nothing but what it wants, although its flow
\* was found by another of its heads.
EventHeadsWantIt ==
  \A t \in tasks :
    t.head.type \in {"event device in", "event template in"} => t.head \in Wanted(t.event, t.document)

\* An event is served by the flows as they were stored at some moment of its
\* progress, and by each of them whole.
ServedAsStored == OneConfiguration /\ StableFlowsServed /\ EventHeadsWantIt
=============================================================================
