---------------------------- MODULE FlowManager ----------------------------
(***************************************************************************)
(* The flows of a tenant: the requests of the REST interface               *)
(* (orchestrator/api.js) on the collection of flows                        *)
(* (orchestrator/flowManager.js).  A configuration is a set of nodes; the  *)
(* parser keeps beside it the heads and the devices and templates that     *)
(* start it, by which events find the flow (module EventFlows).            *)
(***************************************************************************)
EXTENDS Naturals, FiniteSets

CONSTANTS
  Flow,      \* the identities uuid may give
  Red,       \* the configurations users send, sets of [id, type, ref, events, wired]
  Client,    \* requests of the REST interface
  Label,
  Null       \* a field that is not given, a flow that is not there

\* The editor gives each node an identity of its own.
ASSUME RedAssumption == \A red \in Red : \A n, m \in red : n.id = m.id => n = m

HeadTypes == {"event device in", "event template in", "device in", "device template in"}

VARIABLES
  flows,    \* the collection
  used,     \* identities given so far
  request   \* each request: its arguments, its progress, its answer

flowVars == <<flows, used, request>>

Idle == [phase |-> "idle"]

FlowInit ==
  /\ flows = [f \in Flow |-> Null]
  /\ used = {}
  /\ request = [c \in Client |-> Idle]

Stored == {f \in DOMAIN flows : flows[f] # Null}

-----------------------------------------------------------------------------
(* parse *)

\* Nodes without wires are passed over, whatever their type; so are tabs, which
\* are of none of the types asked for.
Of(red, types) == {n \in red : n.wired /\ n.type \in types}

Valid(red) == \A n \in red : n.type # "untyped"

Parse(red) ==
  [red |-> red,
   heads |-> {n.id : n \in Of(red, HeadTypes)},
   devices |-> {n.ref : n \in Of(red, {"event device in", "device in"})},
   templates |-> {n.ref : n \in Of(red, {"event template in", "device template in"})}]

-----------------------------------------------------------------------------
(* The requests *)

\* A flow as the collection keeps it.
Document(parsed, label, enabled) ==
  [red |-> parsed.red, heads |-> parsed.heads, devices |-> parsed.devices,
   templates |-> parsed.templates, label |-> label, enabled |-> enabled]

Answer(c, r, status, flow) ==
  request' = [request EXCEPT ![c] =
    [phase |-> "answered", op |-> r.op, id |-> r.id, enabled |-> r.enabled,
     status |-> status, flow |-> flow]]

\* POST: what can be refused is refused before the insertion.
Create(c) ==
  /\ request[c] = Idle
  /\ \E label \in Label, enabled \in BOOLEAN \cup {Null}, red \in Red :
       LET r == [op |-> "create", id |-> Null, enabled |-> enabled] IN
       IF Valid(red)
       THEN request' = [request EXCEPT ![c] =
              [phase |-> "inserting", op |-> r.op, enabled |-> enabled,
               flow |-> Document(Parse(red), label, IF enabled = Null THEN TRUE ELSE enabled)]]
       ELSE Answer(c, r, 400, Null)
  /\ UNCHANGED <<flows, used>>

Insert(c) ==
  /\ request[c].phase = "inserting"
  /\ \E f \in Flow \ used :
       /\ used' = used \cup {f}
       /\ flows' = [flows EXCEPT ![f] = request[c].flow]
       /\ Answer(c, [op |-> "create", id |-> f, enabled |-> request[c].enabled], 200, request[c].flow)

\* Mutant of Merged: the heads and indexes of the old configuration stay.
MergedRedOnly(old, r) ==
  [old EXCEPT !.red = IF r.red = Null THEN @ ELSE r.red,
              !.label = IF r.label = Null THEN @ ELSE r.label,
              !.enabled = IF r.enabled = TRUE THEN TRUE ELSE @]

\* What is given replaces what was there; FALSE counts as not given.
Merged(old, r) ==
  Document(IF r.red = Null THEN old ELSE Parse(r.red),
           IF r.label = Null THEN old.label ELSE r.label,
           IF r.enabled = TRUE THEN TRUE ELSE old.enabled)

\* PUT: the flow is read, and what it becomes computed from it,
Set(c) ==
  /\ request[c] = Idle
  /\ \E f \in used, label \in Label \cup {Null}, enabled \in BOOLEAN \cup {Null},
        red \in Red \cup {Null} :
       LET r == [op |-> "set", id |-> f, label |-> label, enabled |-> enabled, red |-> red] IN
       IF flows[f] = Null THEN Answer(c, r, 404, Null)
       ELSE IF red # Null /\ ~Valid(red) THEN Answer(c, r, 400, Null)
       ELSE request' = [request EXCEPT ![c] =
              [phase |-> "replacing", op |-> "set", id |-> f, enabled |-> enabled,
               flow |-> Merged(flows[f], r)]]
  /\ UNCHANGED <<flows, used>>

\* Mutant of Replaced: a flow that is gone is inserted again.
ReplacedOrInserted(f, flow) == [flows EXCEPT ![f] = flow]

Replaced(f, flow) == [flows EXCEPT ![f] = IF @ = Null THEN Null ELSE flow]

\* then it replaces what is stored by then.  A flow removed in between is not
\* stored again; the answer is the same.
Replace(c) ==
  /\ request[c].phase = "replacing"
  /\ flows' = Replaced(request[c].id, request[c].flow)
  /\ Answer(c, request[c], 200, request[c].flow)
  /\ UNCHANGED used

Remove(c) ==
  /\ request[c] = Idle
  /\ \E f \in used :
       LET r == [op |-> "remove", id |-> f, enabled |-> Null] IN
       IF flows[f] = Null
       THEN Answer(c, r, 404, Null) /\ UNCHANGED flows
       ELSE Answer(c, r, 200, flows[f]) /\ flows' = [flows EXCEPT ![f] = Null]
  /\ UNCHANGED used

RemoveAll(c) ==
  /\ request[c] = Idle
  /\ flows' = [f \in Flow |-> Null]
  /\ Answer(c, [op |-> "remove all", id |-> Null, enabled |-> Null], 200, Null)
  /\ UNCHANGED used

FlowNext ==
  \E c \in Client :
    \/ Create(c) \/ Insert(c) \/ Set(c) \/ Replace(c) \/ Remove(c) \/ RemoveAll(c)

FlowSpec == FlowInit /\ [][FlowNext]_flowVars

-----------------------------------------------------------------------------
(* Properties *)

\* Type invariant.  A configuration that was refused is never stored.
FlowTypeOK ==
  /\ Stored \subseteq used /\ used \subseteq DOMAIN flows
  /\ \A f \in Stored : Valid(flows[f].red) /\ flows[f].enabled \in BOOLEAN

\* Whatever updates interleave, the heads and the indexes of a flow are those
\* of the configuration stored with them: events find the flow they start.
\* (With the types.)
IndexesMatch ==
  /\ FlowTypeOK
  /\ \A f \in Stored :
       LET nodes == {n \in flows[f].red : n.wired /\ n.type \in HeadTypes} IN
       /\ flows[f].heads = {n.id : n \in nodes}
       /\ \A n \in nodes : n.ref \in flows[f].devices \cup flows[f].templates
       /\ \A ref \in flows[f].devices \cup flows[f].templates : \E n \in nodes : n.ref = ref

\* A flow that has been removed does not come back, an update of it under way
\* included.
RemovedForGoodStep == \A f \in used : flows[f] = Null => flows'[f] = Null

\* A flow that has been removed stays removed (RemovedForGoodStep).
RemovedForGood == [][RemovedForGoodStep]_flowVars
=============================================================================
