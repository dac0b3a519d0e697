----------------------------- MODULE FlowProofs -----------------------------
(***************************************************************************)
(* The indexes of flows, their removal and what events get from them, for  *)
(* every set of flows, configurations, requests and events.                *)
(***************************************************************************)
EXTENDS EventFlows, FiniteSetTheorems, WellFoundedInduction, TLAPS

HeadNodes(red) == Of(red, HeadTypes)

DeviceHeads == {"event device in", "device in"}
TemplateHeads == {"event template in", "device template in"}

Distinct(red) == \A n, m \in red : n.id = m.id => n = m

\* The heads and indexes of a document are those of its configuration, which
\* was not refused.
Indexed(flow) ==
  /\ Valid(flow.red) /\ Distinct(flow.red) /\ flow.enabled \in BOOLEAN
  /\ flow.heads = {n.id : n \in HeadNodes(flow.red)}
  /\ flow.devices = {n.ref : n \in Of(flow.red, DeviceHeads)}
  /\ flow.templates = {n.ref : n \in Of(flow.red, TemplateHeads)}

\* The inductive invariant: requests on their way carry documents whose indexes
\* match as those of the collection do; identities that were never given have
\* no flow.
IndInv ==
  /\ flows = [f \in Flow |-> flows[f]] /\ request = [c \in Client |-> request[c]]
  /\ Stored \subseteq used /\ used \subseteq Flow
  /\ \A f \in Stored : Indexed(flows[f])
  /\ \A c \in Client :
       /\ request[c].phase \in {"inserting", "replacing"} => Indexed(request[c].flow)
       /\ request[c].phase = "replacing" => request[c].id \in used

-----------------------------------------------------------------------------

\* What the parser makes of a valid configuration is indexed.
LEMMA ParseIndexed ==
  ASSUME NEW red \in Red, Valid(red), NEW label, NEW enabled \in BOOLEAN
  PROVE  Indexed(Document(Parse(red), label, enabled))
<1> DEFINE p == Parse(red)
<1>1. p.red = red /\ p.heads = {n.id : n \in HeadNodes(red)}
  BY DEF Parse, HeadNodes
<1>2. /\ p.devices = {n.ref : n \in Of(red, DeviceHeads)}
      /\ p.templates = {n.ref : n \in Of(red, TemplateHeads)}
  BY DEF Parse, DeviceHeads, TemplateHeads
<1>3. Distinct(red)
  BY RedAssumption DEF Distinct
<1> QED
  BY <1>1, <1>2, <1>3 DEF Document, Indexed

\* An update keeps the indexes of what it was read from, or parses again.
LEMMA MergedIndexed ==
  ASSUME NEW old, NEW r, Indexed(old),
         r.red = Null \/ (r.red \in Red /\ Valid(r.red))
  PROVE  Indexed(Merged(old, r))
<1> DEFINE enabled == IF r.enabled = TRUE THEN TRUE ELSE old.enabled
           label == IF r.label = Null THEN old.label ELSE r.label
<1>1. enabled \in BOOLEAN
  BY DEF Indexed
<1> HIDE DEF enabled
<1>2. CASE r.red = Null
  <2>1. Merged(old, r) = Document(old, label, enabled)
    BY <1>2 DEF Merged, enabled
  <2> QED
    BY <2>1, <1>1 DEF Document, Indexed
<1>3. CASE r.red # Null
  <2>1. Merged(old, r) = Document(Parse(r.red), label, enabled)
    BY <1>3 DEF Merged, enabled
  <2> QED
    BY <2>1, <1>1, <1>3, ParseIndexed
<1> QED
  BY <1>2, <1>3

\* An answer ends its request and touches no other.
LEMMA AnswerFacts ==
  ASSUME request = [c \in Client |-> request[c]], NEW c \in Client,
         NEW r, NEW status, NEW flow, Answer(c, r, status, flow)
  PROVE  /\ request' = [d \in Client |-> request'[d]] /\ request'[c].phase = "answered"
         /\ \A d \in Client : d # c => request'[d] = request[d]
BY DEF Answer

\* Nothing is stored, and nothing asked for, at the start.
LEMMA InitInd == FlowInit => IndInv
<1> SUFFICES ASSUME FlowInit PROVE IndInv
  OBVIOUS
<1>1. flows = [f \in Flow |-> flows[f]] /\ request = [c \in Client |-> request[c]]
  BY Zenon DEF FlowInit
<1>2. \A c \in Client : request[c].phase = "idle"
  BY DEF FlowInit, Idle
<1>3. Stored = {} /\ used = {}
  BY DEF FlowInit, Stored
<1> QED
  BY <1>1, <1>2, <1>3 DEF IndInv

\* Indexed documents are found by the events that start them.
LEMMA IndSound == IndInv => IndexesMatch
<1> SUFFICES ASSUME IndInv PROVE IndexesMatch
  OBVIOUS
<1>1. FlowTypeOK
  BY DEF IndInv, FlowTypeOK, Indexed
<1>2. ASSUME NEW f \in Stored
      PROVE  LET nodes == {n \in flows[f].red : n.wired /\ n.type \in HeadTypes} IN
             /\ flows[f].heads = {n.id : n \in nodes}
             /\ \A n \in nodes : n.ref \in flows[f].devices \cup flows[f].templates
             /\ \A ref \in flows[f].devices \cup flows[f].templates :
                  \E n \in nodes : n.ref = ref
  <2> DEFINE red == flows[f].red
  <2>1. /\ flows[f].heads = {n.id : n \in {n \in red : n.wired /\ n.type \in HeadTypes}}
        /\ flows[f].devices = {n.ref : n \in {n \in red : n.wired /\ n.type \in DeviceHeads}}
        /\ flows[f].templates = {n.ref : n \in {n \in red : n.wired /\ n.type \in TemplateHeads}}
    BY DEF IndInv, Indexed, HeadNodes, Of
  <2>2. HeadTypes = DeviceHeads \cup TemplateHeads
    BY DEF HeadTypes, DeviceHeads, TemplateHeads
  <2> HIDE DEF red
  <2>3. \A n \in {n \in red : n.wired /\ n.type \in HeadTypes} :
          n.ref \in flows[f].devices \cup flows[f].templates
    BY <2>1, <2>2
  <2>4. \A ref \in flows[f].devices \cup flows[f].templates :
          \E n \in {n \in red : n.wired /\ n.type \in HeadTypes} : n.ref = ref
    BY <2>1, <2>2
  <2> QED
    BY <2>1, <2>3, <2>4 DEF red
<1> QED
  BY <1>1, <1>2 DEF IndexesMatch

\* Every request, one step after the other, keeps it.
LEMMA StepInd == IndInv /\ [FlowNext]_flowVars => IndInv'
<1> SUFFICES ASSUME IndInv, [FlowNext]_flowVars PROVE IndInv'
  OBVIOUS
<1>1. CASE UNCHANGED flowVars
  BY <1>1 DEF flowVars, IndInv, Stored
<1>2. ASSUME NEW c \in Client, Create(c) PROVE IndInv'
  <2>1. PICK label \in Label, enabled \in BOOLEAN \cup {Null}, red \in Red :
          LET r == [op |-> "create", id |-> Null, enabled |-> enabled] IN
          IF Valid(red)
          THEN request' = [request EXCEPT ![c] =
                 [phase |-> "inserting", op |-> r.op, enabled |-> enabled,
                  flow |-> Document(Parse(red), label, IF enabled = Null THEN TRUE ELSE enabled)]]
          ELSE Answer(c, r, 400, Null)
    BY <1>2 DEF Create
  <2>2. CASE Valid(red)
    <3>1. /\ request' = [d \in Client |-> request'[d]]
          /\ request'[c].phase = "inserting" /\ Indexed(request'[c].flow)
          /\ \A d \in Client : d # c => request'[d] = request[d]
      <4> DEFINE flow == Document(Parse(red), label, IF enabled = Null THEN TRUE ELSE enabled)
                 r == [phase |-> "inserting", op |-> "create", enabled |-> enabled, flow |-> flow]
      <4>1. Indexed(flow)
        <5>1. (IF enabled = Null THEN TRUE ELSE enabled) \in BOOLEAN
          OBVIOUS
        <5> QED
          BY <2>2, <5>1, ParseIndexed
      <4>2. r.phase = "inserting" /\ r.flow = flow
        OBVIOUS
      <4>3. request' = [request EXCEPT ![c] = r]
        BY <2>1, <2>2
      <4> HIDE DEF r, flow
      <4> QED
        BY <4>1, <4>2, <4>3 DEF IndInv
    <3> QED
      BY <1>2, <3>1 DEF Create, IndInv, Stored
  <2>3. CASE ~Valid(red)
    BY <1>2, <2>1, <2>3, AnswerFacts DEF Create, IndInv, Stored
  <2> QED
    BY <2>2, <2>3
<1>3. ASSUME NEW c \in Client, Insert(c) PROVE IndInv'
  <2>1. PICK f \in Flow \ used :
          /\ used' = used \cup {f}
          /\ flows' = [flows EXCEPT ![f] = request[c].flow]
          /\ Answer(c, [op |-> "create", id |-> f, enabled |-> request[c].enabled], 200,
                    request[c].flow)
    BY <1>3 DEF Insert
  <2>2. /\ request' = [d \in Client |-> request'[d]] /\ request'[c].phase = "answered"
        /\ \A d \in Client : d # c => request'[d] = request[d]
    BY <2>1, AnswerFacts DEF IndInv
  <2> QED
    BY <1>3, <2>1, <2>2 DEF Insert, IndInv, Stored
<1>4. ASSUME NEW c \in Client, Set(c) PROVE IndInv'
  <2>1. PICK f \in used, label \in Label \cup {Null}, enabled \in BOOLEAN \cup {Null},
           red \in Red \cup {Null} :
          LET r == [op |-> "set", id |-> f, label |-> label, enabled |-> enabled, red |-> red] IN
          IF flows[f] = Null THEN Answer(c, r, 404, Null)
          ELSE IF red # Null /\ ~Valid(red) THEN Answer(c, r, 400, Null)
          ELSE request' = [request EXCEPT ![c] =
                 [phase |-> "replacing", op |-> "set", id |-> f, enabled |-> enabled,
                  flow |-> Merged(flows[f], r)]]
    BY <1>4 DEF Set
  <2>2. CASE flows[f] # Null /\ ~(red # Null /\ ~Valid(red))
    <3>1. Indexed(flows[f])
      BY <2>2 DEF IndInv, Stored
    <3>2. /\ request' = [d \in Client |-> request'[d]]
          /\ request'[c].phase = "replacing" /\ Indexed(request'[c].flow) /\ request'[c].id = f
          /\ \A d \in Client : d # c => request'[d] = request[d]
      BY <2>1, <2>2, <3>1, MergedIndexed DEF IndInv
    <3> QED
      BY <1>4, <3>2 DEF Set, IndInv, Stored
  <2>3. CASE flows[f] = Null \/ (red # Null /\ ~Valid(red))
    BY <1>4, <2>1, <2>3, AnswerFacts DEF Set, IndInv, Stored
  <2> QED
    BY <2>2, <2>3
<1>5. ASSUME NEW c \in Client, Replace(c) PROVE IndInv'
  <2>1. /\ request' = [d \in Client |-> request'[d]] /\ request'[c].phase = "answered"
        /\ \A d \in Client : d # c => request'[d] = request[d]
    BY <1>5, AnswerFacts DEF IndInv, Replace
  <2> QED
    BY <1>5, <2>1 DEF Replace, Replaced, IndInv, Stored
<1>6. ASSUME NEW c \in Client, Remove(c) PROVE IndInv'
  <2>1. /\ request' = [d \in Client |-> request'[d]] /\ request'[c].phase = "answered"
        /\ \A d \in Client : d # c => request'[d] = request[d]
    BY <1>6, AnswerFacts DEF IndInv, Remove
  <2> QED
    BY <1>6, <2>1 DEF Remove, IndInv, Stored
<1>7. ASSUME NEW c \in Client, RemoveAll(c) PROVE IndInv'
  <2>1. /\ request' = [d \in Client |-> request'[d]] /\ request'[c].phase = "answered"
        /\ \A d \in Client : d # c => request'[d] = request[d]
    BY <1>7, AnswerFacts DEF IndInv, RemoveAll
  <2> QED
    BY <1>7, <2>1 DEF RemoveAll, IndInv, Stored
<1> QED
  BY <1>1, <1>2, <1>3, <1>4, <1>5, <1>6, <1>7 DEF FlowNext

\* A step gives an identity it has given before no flow that is gone.
LEMMA StepRemoved == IndInv /\ [FlowNext]_flowVars => [RemovedForGoodStep]_flowVars
<1> SUFFICES ASSUME IndInv, [FlowNext]_flowVars, NEW f \in used, flows[f] = Null
             PROVE  flows'[f] = Null
  BY DEF RemovedForGoodStep
<1>1. f \in Flow
  BY DEF IndInv
<1>2. CASE UNCHANGED flows
  BY <1>2
<1>3. ASSUME NEW c \in Client, Insert(c) PROVE flows'[f] = Null
  BY <1>1, <1>3 DEF Insert, IndInv
<1>4. ASSUME NEW c \in Client, Replace(c) PROVE flows'[f] = Null
  BY <1>1, <1>4 DEF Replace, Replaced, IndInv
<1>5. ASSUME NEW c \in Client, Remove(c) PROVE flows'[f] = Null
  BY <1>1, <1>5 DEF Remove, IndInv
<1>6. ASSUME NEW c \in Client, RemoveAll(c) PROVE flows'[f] = Null
  BY <1>1, <1>6 DEF RemoveAll
<1> QED
  BY <1>2, <1>3, <1>4, <1>5, <1>6 DEF FlowNext, flowVars, Create, Set

\* Whatever requests overlap, the heads and indexes of every flow are those of
\* its configuration.
THEOREM IndexesAreRight == FlowSpec => []IndexesMatch
<1> QED
  BY InitInd, StepInd, IndSound, PTL DEF FlowSpec

\* Whatever requests overlap, a flow that was removed stays removed, an update
\* that was reading it included.
THEOREM RemovalsLast == FlowSpec => RemovedForGood
<1> QED
  BY InitInd, StepInd, StepRemoved, PTL DEF FlowSpec, RemovedForGood

-----------------------------------------------------------------------------
(* The events *)

\* The last of the queries that found a flow.
LEMMA MaxExists ==
  ASSUME NEW n \in Nat, NEW S \in SUBSET (0..n), S # {}
  PROVE  \E m \in S : \A k \in S : k <= m
<1> DEFINE T == {n - s : s \in S}
<1>0. \A s \in S : s \in Nat /\ s <= n /\ n - s \in Nat
  OBVIOUS
<1>1. T \subseteq Nat /\ T # {}
  BY <1>0
<1>2. PICK t \in T : \A u \in T : ~(<<u, t>> \in OpToRel(<, Nat))
  <2> HIDE DEF T
  <2> QED
    BY ONLY <1>1, NatLessThanWellFounded, WFMin, Zenon
<1>3. \A u \in T : t <= u
  <2> HIDE DEF T
  <2> SUFFICES ASSUME NEW u \in T, u < t PROVE FALSE
    BY <1>1
  <2>1. <<u, t>> \in OpToRel(<, Nat)
    BY <1>1 DEF OpToRel
  <2> QED
    BY <2>1, <1>2
<1>4. PICK m \in S : t = n - m
  OBVIOUS
<1>5. ASSUME NEW k \in S PROVE k <= m
  <2>1. n - m <= n - k
    BY <1>3, <1>4
  <2> HIDE DEF T
  <2> QED
    BY <2>1, <1>0
<1> QED
  BY <1>5

\* Query q of e asks for a flow like this one.
Hits(document, e, q) ==
  IF q = 1 THEN e.device \in document.devices ELSE e.templates[q - 1] \in document.templates

\* What an event has been told so far.
AnswersSound(e) ==
  \A q \in 1..Queries(e) :
    answers[e][q] # Null =>
      /\ \A f \in DOMAIN answers[e][q] : f \in Flow /\ answers[e][q][f] \in seen[e][f] \ {Null}
      /\ \A f \in Flow : \A d :
           seen[e][f] = {d} /\ d # Null /\ Hits(d, e, q) => f \in DOMAIN answers[e][q]

\* What was stored since the event came, the present flows included until it is
\* handled.
SeenSound(e) ==
  \A f \in Flow :
    /\ seen[e][f] # {}
    /\ \A d \in seen[e][f] : d = Null \/ Indexed(d)
    /\ e \notin handled => flows[f] \in seen[e][f]

TasksFor(e) == UNION {Tasks(e, copy) : copy \in Chosen(e)}

\* The inductive invariant of the events: each has been told of flows that were
\* stored since it came, and of all those that did not change; the tasks are
\* those of the events that are handled.
EventInv ==
  /\ IndInv
  /\ answers = [e \in Event |-> answers[e]] /\ seen = [e \in Event |-> seen[e]]
  /\ handled \subseteq Event /\ \A e \in handled : Complete(e)
  /\ \A e \in Event : Begun(e) =>
       /\ DOMAIN answers[e] = 1..Queries(e)
       /\ AnswersSound(e) /\ SeenSound(e)
  /\ tasks = UNION {TasksFor(e) : e \in handled}

\* Nothing has happened at the start.
LEMMA EventInitInd == Init => EventInv
<1> SUFFICES ASSUME Init PROVE EventInv
  OBVIOUS
<1>1. IndInv
  BY InitInd DEF Init
<1>2. /\ answers = [e \in Event |-> answers[e]] /\ seen = [e \in Event |-> seen[e]]
      /\ \A e \in Event : ~Begun(e)
  BY Zenon DEF Init, Begun
<1>3. handled = {} /\ tasks = UNION {TasksFor(e) : e \in handled}
  BY DEF Init
<1> QED
  BY <1>1, <1>2, <1>3 DEF EventInv

\* The tasks of an event depend on its answers only.
LEMMA TasksSame ==
  ASSUME NEW e, answers'[e] = answers[e]
  PROVE  TasksFor(e)' = TasksFor(e)
BY DEF TasksFor, Chosen, Lists, Copy, Found

\* An event whose answers and flows stay as they are.
LEMMA EventSame ==
  ASSUME NEW e, answers'[e] = answers[e], seen'[e] = seen[e],
         flows' = flows \/ e \in handled, handled \subseteq handled',
         Begun(e), AnswersSound(e), SeenSound(e), DOMAIN answers[e] = 1..Queries(e)
  PROVE  /\ Begun(e)' /\ DOMAIN answers'[e] = 1..Queries(e)
         /\ AnswersSound(e)' /\ SeenSound(e)'
BY DEF Begun, AnswersSound, SeenSound

\* A new event knows nothing and has seen what is stored.
LEMMA BeginInd ==
  ASSUME EventInv, NEW e \in Event, BeginEvent(e)
  PROVE  EventInv'
<1>1. IndInv'
  BY DEF EventInv, BeginEvent, IndInv, flowVars, Stored
<1>2. Queries(e) \in Nat /\ 1 \in 1..Queries(e)
  BY EventAssumption DEF Queries
<1>3. /\ answers' = [d \in Event |-> answers'[d]] /\ seen' = [d \in Event |-> seen'[d]]
      /\ \A d \in Event : d # e => answers'[d] = answers[d] /\ seen'[d] = seen[d]
  BY DEF EventInv, BeginEvent
<1>4. answers'[e] = [q \in 1..Queries(e) |-> Null]
  BY DEF EventInv, BeginEvent
<1>5. Begun(e)'
  <2>1. DOMAIN answers'[e] = 1..Queries(e)
    BY <1>4
  <2>2. DOMAIN <<>> = {}
    OBVIOUS
  <2> QED
    BY <1>2, <2>1, <2>2 DEF Begun
<1>6. e \notin handled /\ handled' = handled /\ tasks' = tasks /\ flows' = flows
  BY DEF EventInv, BeginEvent, Complete, flowVars
<1>7. SeenSound(e)'
  <2>1. \A f \in Flow : seen'[e][f] = {flows[f]}
    BY DEF EventInv, BeginEvent
  <2>2. \A f \in Flow : flows[f] = Null \/ Indexed(flows[f])
    BY DEF EventInv, IndInv, Stored
  <2> QED
    BY <1>6, <2>1, <2>2 DEF SeenSound
<1>8. DOMAIN answers'[e] = 1..Queries(e) /\ AnswersSound(e)'
  BY <1>4 DEF AnswersSound
<1>9. ASSUME NEW d \in Event, Begun(d)'
      PROVE  DOMAIN answers'[d] = 1..Queries(d) /\ AnswersSound(d)' /\ SeenSound(d)'
  BY <1>3, <1>6, <1>7, <1>8, <1>9, EventSame DEF EventInv, Begun
<1>10. \A d \in handled : TasksFor(d)' = TasksFor(d) /\ Complete(d)'
  BY <1>3, <1>6, TasksSame DEF EventInv, Complete, Begun
<1> QED
  BY <1>1, <1>3, <1>6, <1>9, <1>10 DEF EventInv

\* An answer is what is stored, of which the flows that did not change are part.
LEMMA AnswerInd ==
  ASSUME EventInv, NEW e \in Event, NEW q \in 1..Queries(e), AnswerQuery(e, q)
  PROVE  EventInv'
<1>1. IndInv'
  BY DEF EventInv, AnswerQuery, IndInv, flowVars, Stored
<1>2. /\ answers' = [d \in Event |-> answers'[d]] /\ seen' = seen
      /\ \A d \in Event : d # e => answers'[d] = answers[d]
  BY DEF EventInv, AnswerQuery
<1>3. e \notin handled /\ handled' = handled /\ tasks' = tasks /\ flows' = flows /\ Begun(e)
  BY DEF EventInv, AnswerQuery, Complete, flowVars
<1>4. DOMAIN answers[e] = 1..Queries(e) /\ AnswersSound(e) /\ SeenSound(e)
  BY <1>3 DEF EventInv
<1>5. /\ DOMAIN answers'[e] = 1..Queries(e)
      /\ answers'[e][q] = [f \in Matches(e, q) |-> flows[f]]
      /\ \A p \in 1..Queries(e) : p # q => answers'[e][p] = answers[e][p]
  BY <1>4 DEF EventInv, AnswerQuery
<1>6. Begun(e)'
  <2>1. q \in DOMAIN answers'[e] /\ DOMAIN <<>> = {}
    BY <1>5
  <2> QED
    BY <2>1 DEF Begun
<1>7. SeenSound(e)'
  BY <1>2, <1>3, <1>4 DEF SeenSound
<1>8. /\ \A f \in DOMAIN answers'[e][q] : f \in Flow /\ answers'[e][q][f] \in seen[e][f] \ {Null}
      /\ \A f \in Flow : \A d :
           seen[e][f] = {d} /\ d # Null /\ Hits(d, e, q) => f \in DOMAIN answers'[e][q]
  <2>1. DOMAIN flows = Flow
    BY DEF EventInv, IndInv
  <2>2. \A f \in Flow : flows[f] \in seen[e][f]
    BY <1>3, <1>4 DEF SeenSound
  <2>3. \A f \in Matches(e, q) : f \in Flow /\ flows[f] # Null
    BY <2>1 DEF Matches, Stored
  <2>4. ASSUME NEW f \in Flow, NEW d, seen[e][f] = {d}, d # Null, Hits(d, e, q)
        PROVE  f \in Matches(e, q)
    BY <2>1, <2>2, <2>4 DEF Matches, Stored, Hits
  <2> QED
    BY <1>5, <2>2, <2>3, <2>4
<1>9. AnswersSound(e)'
  BY <1>2, <1>4, <1>5, <1>8 DEF AnswersSound
<1>10. ASSUME NEW d \in Event, Begun(d)'
       PROVE  DOMAIN answers'[d] = 1..Queries(d) /\ AnswersSound(d)' /\ SeenSound(d)'
  BY <1>2, <1>3, <1>5, <1>7, <1>9, <1>10, EventSame DEF EventInv, Begun
<1>11. \A d \in handled : TasksFor(d)' = TasksFor(d) /\ Complete(d)'
  BY <1>2, <1>3, TasksSame DEF EventInv, Complete, Begun
<1> QED
  BY <1>1, <1>2, <1>3, <1>10, <1>11 DEF EventInv

\* The tasks of an event that is handled are added.
LEMMA PublishInd ==
  ASSUME EventInv, NEW e \in Event, PublishTasks(e)
  PROVE  EventInv'
<1>1. IndInv'
  BY DEF EventInv, PublishTasks, IndInv, flowVars, Stored
<1>2. /\ answers' = answers /\ seen' = seen /\ flows' = flows /\ handled' = handled \cup {e}
      /\ Complete(e)
  BY DEF PublishTasks, flowVars
<1>3. \A d \in Event : TasksFor(d)' = TasksFor(d) /\ (Complete(d) => Complete(d)')
  BY <1>2, TasksSame DEF Complete, Begun
<1>4. tasks' = tasks \cup TasksFor(e)
  BY DEF PublishTasks, TasksFor
<1>5. tasks' = UNION {TasksFor(d)' : d \in handled'}
  BY <1>2, <1>3, <1>4 DEF EventInv
<1>6. ASSUME NEW d \in Event, Begun(d)'
      PROVE  DOMAIN answers'[d] = 1..Queries(d) /\ AnswersSound(d)' /\ SeenSound(d)'
  BY <1>2, <1>6, EventSame DEF EventInv, Begun
<1> QED
  BY <1>1, <1>2, <1>3, <1>5, <1>6 DEF EventInv

\* What a request stores is seen by the events under way.
LEMMA ReconfigureInd ==
  ASSUME EventInv, Reconfigure
  PROVE  EventInv'
<1>1. IndInv'
  BY StepInd DEF EventInv, Reconfigure
<1>2. answers' = answers /\ handled' = handled /\ tasks' = tasks
  BY DEF Reconfigure, eventVars
<1>3. /\ seen' = [d \in Event |-> seen'[d]]
      /\ \A d \in Event, f \in Flow : seen'[d][f] =
           IF Begun(d) /\ d \notin handled THEN seen[d][f] \cup {flows'[f]} ELSE seen[d][f]
  BY DEF Reconfigure
<1>4. \A f \in Flow : flows'[f] = Null \/ Indexed(flows'[f])
  BY <1>1 DEF IndInv, Stored
<1>5. ASSUME NEW d \in Event, Begun(d)
      PROVE  AnswersSound(d)' /\ SeenSound(d)'
  <2>1. AnswersSound(d) /\ SeenSound(d)
    BY <1>5 DEF EventInv
  <2>2. SeenSound(d)'
    <3> SUFFICES ASSUME NEW f \in Flow
                 PROVE  /\ seen'[d][f] # {}
                        /\ \A x \in seen'[d][f] : x = Null \/ Indexed(x)
                        /\ d \notin handled => flows'[f] \in seen'[d][f]
      BY <1>2 DEF SeenSound
    <3>1. /\ seen[d][f] # {} /\ \A x \in seen[d][f] : x = Null \/ Indexed(x)
          /\ d \notin handled => flows[f] \in seen[d][f]
      BY <2>1 DEF SeenSound
    <3>2. seen'[d][f] = IF d \notin handled THEN seen[d][f] \cup {flows'[f]} ELSE seen[d][f]
      BY <1>3, <1>5
    <3> QED
      BY <1>4, <3>1, <3>2
  <2>3. \A f \in Flow : /\ seen[d][f] \subseteq seen'[d][f]
                        /\ \A x : seen'[d][f] = {x} => seen[d][f] = {x}
    <3>1. CASE d \in handled
      BY <1>3, <3>1
    <3>2. CASE d \notin handled
      <4> SUFFICES ASSUME NEW f \in Flow
                   PROVE  /\ seen[d][f] \subseteq seen'[d][f]
                          /\ \A x : seen'[d][f] = {x} => seen[d][f] = {x}
        OBVIOUS
      <4>1. seen'[d][f] = seen[d][f] \cup {flows'[f]} /\ seen[d][f] # {}
        BY <1>3, <1>5, <2>1, <3>2 DEF SeenSound
      <4> QED
        BY <4>1
    <3> QED
      BY <3>1, <3>2
  <2>4. AnswersSound(d)'
    BY <1>2, <2>1, <2>3 DEF AnswersSound
  <2> QED
    BY <2>2, <2>4
<1>6. \A d \in handled : TasksFor(d)' = TasksFor(d) /\ Complete(d)'
  BY <1>2, TasksSame DEF EventInv, Complete, Begun
<1>7. \A d \in Event : Begun(d)' = Begun(d)
  BY <1>2 DEF Begun
<1> QED
  BY <1>1, <1>2, <1>3, <1>5, <1>6, <1>7 DEF EventInv

LEMMA EventStepInd == EventInv /\ [Next]_vars => EventInv'
<1> SUFFICES ASSUME EventInv, [Next]_vars PROVE EventInv'
  OBVIOUS
<1>1. CASE UNCHANGED vars
  <2>1. IndInv'
    BY <1>1, StepInd DEF EventInv, vars
  <2>2. \A d \in Event : TasksFor(d)' = TasksFor(d)
    BY <1>1, TasksSame DEF vars
  <2>3. \A d \in Event : /\ Begun(d)' = Begun(d) /\ Complete(d)' = Complete(d)
                         /\ AnswersSound(d)' = AnswersSound(d) /\ SeenSound(d)' = SeenSound(d)
    BY <1>1 DEF vars, flowVars, Begun, Complete, AnswersSound, SeenSound
  <2> QED
    BY <1>1, <2>1, <2>2, <2>3 DEF EventInv, vars
<1> QED
  BY <1>1, BeginInd, AnswerInd, PublishInd, ReconfigureInd DEF Next

\* The copies an event chooses: flows as they were found, one of each.
LEMMA ChosenFacts ==
  ASSUME EventInv, NEW e \in handled
  PROVE  /\ \A c \in Chosen(e) : c.flow \in Flow /\ c.document \in seen[e][c.flow] \ {Null}
         /\ \A c, d \in Chosen(e) : c.flow = d.flow => c.document = d.document
<1>1. e \in Event /\ Queries(e) \in Nat /\ Complete(e)
  BY EventAssumption DEF EventInv, Queries
<1>2. AnswersSound(e)
  BY <1>1 DEF EventInv, Complete
<1>3. ASSUME NEW c \in Chosen(e)
      PROVE  \E q \in Lists(e, c.flow) :
               c.document = answers[e][q][c.flow] /\ \A p \in Lists(e, c.flow) : p <= q
  <2>1. PICK f \in Found(e) :
          c \in {Copy(e, f, q) : q \in {l \in Lists(e, f) : \A p \in Lists(e, f) : p <= l}}
    BY DEF Chosen
  <2> QED
    BY <2>1 DEF Copy
<1>4. ASSUME NEW c \in Chosen(e) PROVE c.flow \in Flow /\ c.document \in seen[e][c.flow] \ {Null}
  BY <1>1, <1>2, <1>3 DEF AnswersSound, Complete, Lists
<1>5. ASSUME NEW c \in Chosen(e), NEW d \in Chosen(e), c.flow = d.flow
      PROVE  c.document = d.document
  <2>1. PICK q \in Lists(e, c.flow) :
          c.document = answers[e][q][c.flow] /\ \A p \in Lists(e, c.flow) : p <= q
    BY <1>3
  <2>2. PICK r \in Lists(e, c.flow) :
          d.document = answers[e][r][c.flow] /\ \A p \in Lists(e, c.flow) : p <= r
    BY <1>3, <1>5
  <2>3. q <= r /\ r <= q /\ q \in Nat /\ r \in Nat
    BY <1>1, <2>1, <2>2 DEF Lists
  <2>4. q = r
    BY <2>3
  <2> QED
    BY <2>1, <2>2, <2>4
<1> QED
  BY <1>4, <1>5

\* Every task comes from a copy its event chose.
LEMMA TaskFacts ==
  ASSUME EventInv, NEW t \in tasks
  PROVE  /\ t.event \in handled
         /\ \E c \in Chosen(t.event) : /\ t.flow = c.flow /\ t.document = c.document
                                       /\ t.head \in Started(c.document, t.event)
<1>1. PICK e \in handled : t \in TasksFor(e)
  BY DEF EventInv
<1>2. PICK c \in Chosen(e) : t \in Tasks(e, c)
  BY <1>1 DEF TasksFor
<1>3. PICK n \in Started(c.document, e) :
        t = [event |-> e, flow |-> c.flow, document |-> c.document, head |-> n]
  BY <1>2 DEF Tasks
<1> QED
  BY <1>3

\* A flow some query found is chosen.
LEMMA FoundIsChosen ==
  ASSUME EventInv, NEW e \in handled, NEW f, NEW q \in Lists(e, f)
  PROVE  \E c \in Chosen(e) : c.flow = f
<1>1. Queries(e) \in Nat
  BY EventAssumption DEF EventInv, Queries
<1>2. Lists(e, f) \subseteq 0..Queries(e) /\ Lists(e, f) # {}
  BY <1>1 DEF Lists
<1>3. PICK m \in Lists(e, f) : \A p \in Lists(e, f) : p <= m
  BY ONLY <1>1, <1>2, MaxExists
<1>4. f \in Found(e)
  BY DEF Lists, Found
<1>5. Copy(e, f, m) \in Chosen(e)
  BY <1>3, <1>4 DEF Chosen
<1> QED
  BY <1>5 DEF Copy

LEMMA OneIsServed == EventInv => OneConfiguration
<1> SUFFICES ASSUME EventInv, NEW e \in handled, NEW f \in DOMAIN flows
             PROVE  /\ Cardinality({t.document : t \in TasksOf(e, f)}) <= 1
                    /\ \A t \in TasksOf(e, f) : t.document \in seen[e][f]
  BY DEF OneConfiguration
<1>1. \A t \in TasksOf(e, f) : \E c \in Chosen(e) : c.flow = f /\ t.document = c.document
  BY TaskFacts DEF TasksOf
<1>2. \A t \in TasksOf(e, f) : t.document \in seen[e][f]
  BY <1>1, ChosenFacts
<1>3. \A t, u \in TasksOf(e, f) : t.document = u.document
  BY <1>1, ChosenFacts
<1> DEFINE documents == {t.document : t \in TasksOf(e, f)}
<1>4. CASE TasksOf(e, f) = {}
  <2>1. documents = {}
    BY <1>4
  <2>2. Cardinality(documents) = 0
    BY <2>1, FS_EmptySet
  <2> QED
    BY <2>2, <1>2
<1>5. CASE TasksOf(e, f) # {}
  <2>1. PICK t \in TasksOf(e, f) : TRUE
    BY <1>5
  <2>2. documents = {t.document}
    BY <1>3, <2>1
  <2>3. Cardinality(documents) = 1
    BY <2>2, FS_Singleton
  <2> QED
    BY <2>3, <1>2
<1> QED
  BY <1>4, <1>5

LEMMA StableIsServed == EventInv => StableFlowsServed
<1> SUFFICES ASSUME EventInv, NEW e \in handled, NEW f \in DOMAIN flows,
                    NEW document \in seen[e][f] \ {Null}, seen[e][f] = {document},
                    NEW n \in Wanted(e, document)
             PROVE  \E t \in TasksOf(e, f) : t.head = n
  BY DEF StableFlowsServed
<1>1. e \in Event /\ Complete(e) /\ f \in Flow
  BY DEF EventInv, IndInv
<1>2. AnswersSound(e) /\ Indexed(document)
  BY <1>1 DEF EventInv, Complete, SeenSound
<1>3. Len(e.templates) \in Nat /\ Queries(e) = Len(e.templates) + 1
  BY <1>1, EventAssumption DEF Queries
<1>4. PICK q \in 1..Queries(e) : Hits(document, e, q)
  <2>1. CASE n.type \in DeviceHeads
    <3>1. n.ref = e.device /\ n \in Of(document.red, DeviceHeads)
      BY <2>1 DEF Wanted, DeviceHeads, Of
    <3>2. e.device \in document.devices
      BY <3>1, <1>2 DEF Indexed
    <3>3. 1 \in 1..Queries(e) /\ Hits(document, e, 1)
      BY <3>2, <1>3 DEF Hits
    <3> QED
      BY <3>3
  <2>2. CASE n.type \in TemplateHeads
    <3>1. PICK i \in DOMAIN e.templates : e.templates[i] = n.ref
      BY <2>2 DEF Wanted, TemplateHeads
    <3>2. n \in Of(document.red, TemplateHeads)
      BY <2>2 DEF Wanted, Of
    <3>3. e.templates[i] \in document.templates
      BY <3>1, <3>2, <1>2 DEF Indexed
    <3>4. i \in 1..Len(e.templates)
      BY <1>1, <3>1, EventAssumption
    <3>5. i + 1 \in 1..Queries(e) /\ i + 1 # 1 /\ (i + 1) - 1 = i
      BY <3>4, <1>3
    <3>6. Hits(document, e, i + 1)
      BY <3>3, <3>5 DEF Hits
    <3> QED
      BY <3>5, <3>6
  <2> QED
    BY <2>1, <2>2 DEF Wanted, HeadTypes, DeviceHeads, TemplateHeads
<1>5. f \in DOMAIN answers[e][q]
  <2>1. answers[e][q] # Null
    BY <1>1, <1>4 DEF Complete
  <2>2. document \in seen[e][f] /\ document # Null
    OBVIOUS
  <2>3. \A g \in Flow : \A d \in seen[e][g] :
          d # Null /\ seen[e][g] = {d} /\ Hits(d, e, q) => g \in DOMAIN answers[e][q]
    BY <1>2, <1>4, <2>1 DEF AnswersSound
  <2> QED
    BY <1>1, <1>4, <2>2, <2>3
<1>6. PICK c \in Chosen(e) : c.flow = f
  BY <1>4, <1>5, FoundIsChosen DEF Lists
<1>7. c.document = document
  BY <1>6, ChosenFacts
<1>8. n \in Started(document, e)
  <2>1. n \in document.red /\ n.id \in document.heads
    BY <1>2 DEF Wanted, Indexed, HeadNodes, Of
  <2>2. Starts(n, e)
    BY DEF Wanted, Starts, HeadTypes
  <2> QED
    BY <2>1, <2>2 DEF Started
<1> DEFINE t == [event |-> e, flow |-> f, document |-> document, head |-> n]
<1>9. t \in TasksFor(e)
  BY <1>6, <1>7, <1>8 DEF Tasks, TasksFor
<1>10. t \in tasks
  BY <1>9 DEF EventInv
<1> QED
  BY <1>10 DEF TasksOf

LEMMA WantedIsServed == EventInv => EventHeadsWantIt
<1> SUFFICES ASSUME EventInv, NEW t \in tasks,
                    t.head.type \in {"event device in", "event template in"}
             PROVE  t.head \in Wanted(t.event, t.document)
  BY DEF EventHeadsWantIt
<1>1. t.head \in Started(t.document, t.event)
  BY TaskFacts
<1>2. t.head \in t.document.red /\ t.head.id \in t.document.heads /\ Starts(t.head, t.event)
  BY <1>1 DEF Started
<1>3. Indexed(t.document)
  <2>1. PICK c \in Chosen(t.event) : t.document = c.document
    BY TaskFacts
  <2>2. t.event \in handled /\ t.event \in Event /\ Begun(t.event)
    BY TaskFacts DEF EventInv, Complete
  <2>3. c.flow \in Flow /\ c.document \in seen[t.event][c.flow] \ {Null}
    BY <2>2, ChosenFacts
  <2> QED
    BY <2>1, <2>2, <2>3 DEF EventInv, SeenSound
<1>4. t.head.wired
  <2>1. PICK n \in HeadNodes(t.document.red) : n.id = t.head.id
    BY <1>2, <1>3 DEF Indexed
  <2>2. n \in t.document.red /\ n.wired
    BY <2>1 DEF HeadNodes, Of
  <2> QED
    BY <1>2, <1>3, <2>1, <2>2 DEF Indexed, Distinct
<1> QED
  BY <1>2, <1>4 DEF Starts, Wanted, HeadTypes

\* However its queries interleave with requests on the flows, an event goes
\* once through one stored configuration of each flow, a flow nobody changes
\* meanwhile gets all it wants, and a head for events nothing else.
THEOREM EventsAreServed == Spec => []ServedAsStored
<1>1. EventInv => ServedAsStored
  BY OneIsServed, StableIsServed, WantedIsServed DEF ServedAsStored
<1> QED
  BY <1>1, EventInitInd, EventStepInd, PTL DEF Spec
=============================================================================
