--------------------------- MODULE MCRemoteNodes ---------------------------
(***************************************************************************)
(* NodeManager, KubernetesNode, DockerNode and RemoteNode for TLC, side by *)
(* side with other instances of them: the initial state says in part which *)
(* of them the behaviour belongs to; the variables of the others stay as   *)
(* they are.                                                               *)
(***************************************************************************)
EXTENDS NodeManager, KubernetesNode, DockerNode, RemoteNode, TLC

CONSTANTS a, b

VARIABLE part  \* the instance

mcVars == <<part, vars, kubeVars, dockerVars, remoteVars>>

-----------------------------------------------------------------------------
(* The constants give "any moment": three requests at any moment, a crash  *)
(* and a failure; "side by side": three handlers on Kubernetes at the same *)
(* time; "docker": three handlers; "two callers" beside init: four         *)
(* requests, a fault.                                                      *)

\* Three requests one after the other, two crashes.
OneByOne == INSTANCE NodeManager WITH
  Overlap <- {}, MaxCrashes <- 2, MaxFailures <- 0, MaxContainers <- 6

\* Three handlers one after the other.
InTurn == INSTANCE KubernetesNode WITH Concurrent <- FALSE, MaxErrors <- 3

\* One caller beside init.
OneCaller == INSTANCE RemoteNode WITH Caller <- {"c1"}

-----------------------------------------------------------------------------
notManager == <<kubeVars, dockerVars, remoteVars>>
notKubernetes == <<vars, dockerVars, remoteVars>>
notDocker == <<vars, kubeVars, remoteVars>>
notRemote == <<vars, kubeVars, dockerVars>>

MCInit ==
  /\ Init /\ KubeInit /\ DockerInit
  /\ \/ part = "one caller" /\ OneCaller!RemoteInit
     \/ /\ part \in {"any moment", "one by one", "in turn", "side by side", "docker", "two callers"}
        /\ RemoteInit

MCNext ==
  /\ \/ part = "any moment" /\ Next /\ UNCHANGED notManager
     \/ part = "one by one" /\ OneByOne!Next /\ UNCHANGED notManager
     \/ part = "in turn" /\ InTurn!KubeNext /\ UNCHANGED notKubernetes
     \/ part = "side by side" /\ KubeNext /\ UNCHANGED notKubernetes
     \/ part = "docker" /\ DockerNext /\ UNCHANGED notDocker
     \/ part = "one caller" /\ OneCaller!RemoteNext /\ UNCHANGED notRemote
     \/ part = "two callers" /\ RemoteNext /\ UNCHANGED notRemote
  /\ UNCHANGED part

\* The fairness of each module, for the instances whose operations end.
Fairness ==
  /\ WF_mcVars(part = "one by one" /\ OneByOne!AddTenant /\ UNCHANGED <<part, notManager>>)
  /\ WF_mcVars(part = "one by one" /\ OneByOne!FindNodes /\ UNCHANGED <<part, notManager>>)
  /\ WF_mcVars(part = "one by one" /\ (\E l \in loads : OneByOne!LoadStep(l))
               /\ UNCHANGED <<part, notManager>>)
  /\ \A c \in Client :
       WF_mcVars(part = "one by one" /\ OneByOne!RequestStep(c) /\ UNCHANGED <<part, notManager>>)
  /\ \A h \in KubeHandler :
       WF_mcVars(part = "side by side" /\ ServerAnswers(h) /\ UNCHANGED <<part, notKubernetes>>)
  /\ \A h \in Handler :
       WF_mcVars(part = "docker" /\ DaemonAnswers(h) /\ UNCHANGED <<part, notDocker>>)
  /\ WF_mcVars(part = "one caller" /\ OneCaller!OnMessage /\ UNCHANGED <<part, notRemote>>)
  /\ WF_mcVars(part = "one caller" /\ OneCaller!AskForPage /\ UNCHANGED <<part, notRemote>>)
  /\ WF_mcVars(part = "one caller" /\ OneCaller!Take /\ UNCHANGED <<part, notRemote>>)
  /\ WF_mcVars(part = "one caller" /\ OneCaller!Handled /\ UNCHANGED <<part, notRemote>>)
  /\ WF_mcVars(part = "one caller" /\ OneCaller!NodeRestart /\ UNCHANGED <<part, notRemote>>)
  /\ WF_mcVars(part = "one caller" /\ OneCaller!TaskTimeout("c1") /\ UNCHANGED <<part, notRemote>>)

MCSpec == MCInit /\ [][MCNext]_mcVars /\ Fairness

-----------------------------------------------------------------------------
(* The properties are those of the modules; the one below is that of the   *)
(* instances with fairness.                                                *)

\* The nodes of the database run in the end; every operation on Kubernetes and
\* docker comes to its end, a failed create undone; tasks that wait for a remote
\* node end whatever happens to it, other calls while nothing breaks.
OperationsEnd ==
  /\ part = "one by one" => OneByOne!Restored
  /\ part = "side by side" => KubeSettles
  /\ part = "docker" => UndoneInTheEnd /\ DockerSettles
  /\ part = "one caller" => OneCaller!TasksEnd /\ OneCaller!CallsEnd
=============================================================================
