------------------------------ MODULE MCEvents ------------------------------
(***************************************************************************)
(* DeviceIngestor and EventFlows for TLC, side by side with other          *)
(* instances of them and of FlowManager: the initial state says in part    *)
(* which of them the behaviour belongs to; the variables of the others     *)
(* stay as they are.                                                       *)
(***************************************************************************)
EXTENDS DeviceIngestor, EventFlows, TLC

VARIABLE part  \* "faults", "lost", "drops", "requests", "updates", "two flows"

eventFlowVars == <<eventVars, seen>>
mcVars == <<part, ingestVars, vars>>

-----------------------------------------------------------------------------
(* The constants give "faults": a lost connection to Redis, a crash, a     *)
(* failed request.                                                         *)

\* Every kind of event, a lost connection, a refused write, a failed request.
Lost == INSTANCE DeviceIngestor WITH MaxConfigures <- 1, MaxRefusals <- 1, MaxCrashes <- 0

\* A lost connection of the consumer, a failed request, one configuration.
Drops == INSTANCE DeviceIngestor WITH
  MaxDrops <- 1, MaxVersion <- 1, MaxLosses <- 0, MaxCrashes <- 0

-----------------------------------------------------------------------------
(* and "two flows": two flows, two requests on them and two events.        *)

Node1(id, type, ref, wired) ==
  [id |-> id, type |-> type, ref |-> ref, events |-> {"publish", "create"}, wired |-> wired]

Head1(id, type, ref) == Node1(id, type, ref, TRUE)

\* What the parser passes over: a tab, a head without wires.
Passed == {Node1("n0", "tab", Null, FALSE), Node1("n5", "event device in", "d", FALSE)}

\* By device; by template, with nodes that are passed over; by both, with a head for another device.
ByDevice == {Head1("n1", "event device in", "d")}
ByTemplate == {Head1("n3", "event template in", "t")} \cup Passed
ByBoth == ByDevice \cup {Head1("n4", "event template in", "u"), Head1("n2", "event device in", "e")}
Refused == ByDevice \cup {Head1("n6", "untyped", Null)}

Configurations == {ByTemplate, ByBoth}

Publication == [source |-> "publish", device |-> "d", templates |-> <<"t", "u">>]
Creation == [source |-> "create", device |-> "d", templates |-> <<"u">>]

Events == {Publication, Creation}

\* Three requests, one of the configurations refused.
Requests == INSTANCE FlowManager WITH
  Client <- Client \cup {3}, Red <- {ByDevice, ByTemplate, Refused}

\* Three requests on a flow beside an event with three queries.
Updates == INSTANCE EventFlows WITH
  Flow <- {1}, Client <- Client \cup {3}, Event <- {Publication}

-----------------------------------------------------------------------------
NoEvents == answers = <<>> /\ handled = {} /\ tasks = {} /\ seen = <<>>

MCInit ==
  \/ part = "faults" /\ IngestInit /\ Init
  \/ part = "lost" /\ Lost!IngestInit /\ Init
  \/ part = "drops" /\ Drops!IngestInit /\ Init
  \/ part = "requests" /\ Requests!FlowInit /\ IngestInit /\ NoEvents
  \/ part = "updates" /\ Updates!Init /\ IngestInit
  \/ part = "two flows" /\ Init /\ IngestInit

MCNext ==
  /\ \/ part = "faults" /\ IngestNext /\ UNCHANGED vars
     \/ part = "lost" /\ Lost!IngestNext /\ UNCHANGED vars
     \/ part = "drops" /\ Drops!IngestNext /\ UNCHANGED vars
     \/ part = "requests" /\ Requests!FlowNext /\ UNCHANGED <<ingestVars, eventFlowVars>>
     \/ part = "updates" /\ Updates!Next /\ UNCHANGED ingestVars
     \/ part = "two flows" /\ Next /\ UNCHANGED ingestVars
  /\ UNCHANGED part

\* The fairness of DeviceIngestor, with faults and with lost connections.
Goes(A) == part \in {"faults", "drops"} /\ A /\ UNCHANGED <<part, vars>>

SomeStep ==
  \E x \in handling : IF part = "faults" THEN Step(x) ELSE Drops!Step(x)

Fairness ==
  /\ WF_mcVars(Goes(PopulateReads)) /\ WF_mcVars(Goes(PopulateWrites))
  /\ \A s \in Subject : WF_mcVars(Goes(Enqueue(s)))
  /\ WF_mcVars(Goes(Deliver)) /\ WF_mcVars(Goes(SomeStep))
  /\ WF_mcVars(Goes(ConsumerConnects)) /\ WF_mcVars(Goes(RedisConnects))

MCSpec == MCInit /\ [][MCNext]_mcVars /\ Fairness

-----------------------------------------------------------------------------
(* The properties are those of the modules; the one below applies to the   *)
(* instances with fairness.                                                *)

\* Every event of the device ends.
FaultsEnd == part \in {"faults", "drops"} => EventsEnd
=============================================================================
