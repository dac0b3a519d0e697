----------------------------- MODULE DockerNode -----------------------------
(***************************************************************************)
(* A remote node on docker (nodes/dockerComposeRemoteNode/index.js): the   *)
(* handlers that create and remove its container, one request to the       *)
(* docker daemon after the other, each of which may fail, and the removals *)
(* that create starts without waiting for them.                            *)
(***************************************************************************)
EXTENDS Naturals, FiniteSets

CONSTANTS
  Handler,      \* the DataHandler objects made, each with a container of its own
  MaxRefused   \* requests the docker daemon fails

ASSUME DockerAssumption == MaxRefused \in Nat

VARIABLES
  container,   \* the container of each handler: "none", "created", "running"
  network,     \* the handlers whose container has joined the target network
  handler,     \* each handler: the step of its operation, info.container
  undoing,     \* handlers whose create removes the container and does not wait
  alive,       \* whether the process is
  refused

dockerVars == <<container, network, handler, undoing, alive, refused>>

DockerInit ==
  /\ container = [h \in Handler |-> "none"] /\ network = {}
  /\ handler = [h \in Handler |-> [step |-> "unused", known |-> FALSE]]
  /\ undoing = {} /\ alive = TRUE /\ refused = 0

GoTo(h, step) == handler' = [handler EXCEPT ![h].step = step]

Refuses == refused < MaxRefused /\ refused' = refused + 1

At(h, step) == alive /\ handler[h].step = step

-----------------------------------------------------------------------------
(* create *)

CreateContainer(h) ==
  /\ At(h, "unused") /\ GoTo(h, "pulling")
  /\ UNCHANGED <<container, network, undoing, alive, refused>>

ImageCreated(h) ==
  /\ At(h, "pulling") /\ GoTo(h, "creating")
  /\ UNCHANGED <<container, network, undoing, alive, refused>>

ContainerCreated(h) ==
  /\ At(h, "creating") /\ GoTo(h, "starting")
  /\ container' = [container EXCEPT ![h] = "created"]
  /\ UNCHANGED <<network, undoing, alive, refused>>

\* info.container and serverAddress are set when the container has started.
Started(h) == [step |-> "choosing network", known |-> TRUE]

ContainerStarted(h) ==
  /\ At(h, "starting")
  /\ container' = [container EXCEPT ![h] = "running"]
  /\ handler' = [handler EXCEPT ![h] = Started(h)]
  /\ UNCHANGED <<network, undoing, alive, refused>>

GetNetwork(h) ==
  /\ At(h, "choosing network") /\ GoTo(h, "connecting")
  /\ UNCHANGED <<container, network, undoing, alive, refused>>

Connected(h) ==
  /\ At(h, "connecting")
  /\ GoTo(h, "created") /\ network' = network \cup {h}
  /\ UNCHANGED <<container, undoing, alive, refused>>

\* Mutant of Undone: only a container that is not connected is removed.
UndoneConnecting == {"starting", "connecting"}

\* The steps whose failure removes the container again.
Undone == {"starting", "choosing network", "connecting"}

Failed(h) == "create failed"

\* The failure is passed on before the container is gone. That of
\* getNetwork is also a network the daemon does not have.
CreateFails(h) ==
  /\ alive /\ Refuses
  /\ handler[h].step \in {"pulling", "creating", "starting", "choosing network", "connecting"}
  /\ GoTo(h, Failed(h))
  /\ undoing' = IF handler[h].step \in Undone THEN undoing \cup {h} ELSE undoing
  /\ UNCHANGED <<container, network, alive>>

Gone(h) ==
  /\ container' = [container EXCEPT ![h] = "none"]
  /\ network' = network \ {h}

\* this.remove() of info.container; a failure of it is nobody's: the process
\* is killed.
Undo(h) ==
  /\ alive /\ h \in undoing /\ undoing' = undoing \ {h}
  /\ IF handler[h].known
     THEN Gone(h) /\ UNCHANGED <<alive, refused>>
     ELSE alive' = FALSE /\ UNCHANGED <<container, network, refused>>
  /\ UNCHANGED handler

UndoFails(h) ==
  /\ alive /\ h \in undoing /\ handler[h].known /\ Refuses
  /\ undoing' = undoing \ {h} /\ alive' = FALSE
  /\ UNCHANGED <<container, network, handler>>

-----------------------------------------------------------------------------
(* remove *)

RemoveContainer(h) ==
  /\ At(h, "created") /\ GoTo(h, "removing")
  /\ UNCHANGED <<container, network, undoing, alive, refused>>

ContainerRemoved(h) ==
  /\ At(h, "removing") /\ GoTo(h, "removed")
  /\ Gone(h)
  /\ UNCHANGED <<undoing, alive, refused>>

RemoveFails(h) ==
  /\ At(h, "removing") /\ Refuses
  /\ GoTo(h, "remove failed")
  /\ UNCHANGED <<container, network, undoing, alive>>

-----------------------------------------------------------------------------

DaemonAnswers(h) ==
  \/ ImageCreated(h) \/ ContainerCreated(h) \/ ContainerStarted(h) \/ GetNetwork(h)
  \/ Connected(h) \/ Undo(h) \/ ContainerRemoved(h)

DockerNext ==
  \E h \in Handler :
    CreateContainer(h) \/ RemoveContainer(h) \/ DaemonAnswers(h) \/ CreateFails(h) \/ UndoFails(h) \/ RemoveFails(h)

DockerSpec == DockerInit /\ [][DockerNext]_dockerVars

\* The docker daemon answers.
DockerFairSpec == DockerSpec /\ \A h \in Handler : WF_dockerVars(DaemonAnswers(h))

-----------------------------------------------------------------------------
(* Properties *)

AtRest == {"unused", "created", "create failed", "removed", "remove failed"}

\* Type invariant.
DockerTypeOK ==
  /\ container \in [Handler -> {"none", "created", "running"}]
  /\ network \subseteq Handler /\ undoing \subseteq Handler
  /\ \A h \in Handler :
       /\ handler[h].step \in AtRest \cup
            {"pulling", "creating", "starting", "choosing network", "connecting", "removing"}
       /\ handler[h].known \in BOOLEAN
  /\ alive \in BOOLEAN /\ refused \in 0..MaxRefused

\* A node that is created has a container that runs, is on the network where
\* the orchestrator can reach it, and can be removed; no other container stays
\* on that network.
CreatedIsReachable ==
  /\ \A h \in Handler : handler[h].step = "created" =>
       container[h] = "running" /\ h \in network /\ handler[h].known /\ h \notin undoing
  /\ \A h \in network : handler[h].step \in {"created", "removing", "remove failed"}

\* While the process lives, a create that has failed and has finished undoing
\* has left no container: one that stays has cost the process.
NothingLeftBehind ==
  \A h \in Handler :
    alive /\ handler[h].step = "create failed" /\ h \notin undoing => container[h] = "none"

\* The containers and the network agree with what the handlers have reported.
ContainersSound == DockerTypeOK /\ CreatedIsReachable /\ NothingLeftBehind

\* A failed create comes to leave no container, or the process ends.
UndoneInTheEnd ==
  <>[](alive => \A h \in Handler : handler[h].step = "create failed" => container[h] = "none")

\* Every operation comes to its end while the process lives.
DockerSettles == <>[](alive => \A h \in Handler : handler[h].step \in AtRest)
=============================================================================
