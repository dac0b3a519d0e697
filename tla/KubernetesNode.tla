--------------------------- MODULE KubernetesNode ---------------------------
(***************************************************************************)
(* A remote node on Kubernetes (nodes/kubernetesRemoteNode/index.js): the  *)
(* handlers that create and remove its deployment and its service, one     *)
(* request to the API server after the other, each of which may fail.      *)
(***************************************************************************)
EXTENDS Naturals, FiniteSets

CONSTANTS
  KubeHandler,  \* the DataHandler objects made for the node, in any process
  Concurrent,   \* whether two may be at work at the same time
  MaxErrors     \* requests the API server fails

VARIABLES
  deployment,  \* what the API server has for the node: "none", "up", "scaled down"
  service,     \* whether it has the service
  kube,        \* each handler: the step of its operation, serverAddress
  errors,
  together     \* whether an operation has begun while another was at work

kubeVars == <<deployment, service, kube, errors, together>>

KubeInit ==
  /\ deployment = "none" /\ service = FALSE
  /\ kube = [h \in KubeHandler |-> [step |-> "unused", address |-> FALSE]]
  /\ errors = 0 /\ together = FALSE

Resting == {"unused", "created", "create failed", "removed", "remove failed", "dead"}

AtWork == {h \in KubeHandler : kube[h].step \notin Resting}

Proceed(h, step) == kube' = [kube EXCEPT ![h].step = step]

Errs == errors < MaxErrors /\ errors' = errors + 1

\* An operation may begin.
Free ==
  /\ Concurrent \/ AtWork = {}
  /\ together' = (together \/ AtWork # {})

-----------------------------------------------------------------------------
(* create *)

\* A handler of addRemoteNode learns its address when its service is created,
\* one of _loadRemoteNodes knows it.
CreateNode(h) ==
  /\ kube[h].step = "unused" /\ Free
  /\ \E known \in BOOLEAN : kube' = [kube EXCEPT ![h] = [step |-> "listing", address |-> known]]
  /\ UNCHANGED <<deployment, service, errors>>

\* retrieveDeployments: one that exists is all that is asked for.
ListToCreate(h) ==
  /\ kube[h].step = "listing"
  /\ Proceed(h, IF deployment = "none" THEN "creating deployment" ELSE "created")
  /\ UNCHANGED <<deployment, service, errors, together>>

CreateDeployment(h) ==
  /\ kube[h].step = "creating deployment"
  /\ IF deployment = "none"
     THEN deployment' = "up" /\ Proceed(h, "creating service")
     ELSE UNCHANGED deployment /\ Proceed(h, "create failed")
  /\ UNCHANGED <<service, errors, together>>

CreateService(h) ==
  /\ kube[h].step = "creating service"
  /\ IF service
     THEN Proceed(h, "create failed") /\ UNCHANGED service
     ELSE service' = TRUE /\ kube' = [kube EXCEPT ![h] = [step |-> "created", address |-> TRUE]]
  /\ UNCHANGED <<deployment, errors, together>>

\* Mutant of FailedCreate: the failure of the service is not passed on.
FailedCreateSilent(h) == IF kube[h].step = "creating service" THEN "unanswered" ELSE "create failed"

\* What is there by then stays.
FailedCreate(h) == "create failed"

CreateErrs(h) ==
  /\ kube[h].step \in {"listing", "creating deployment", "creating service"} /\ Errs
  /\ Proceed(h, FailedCreate(h))
  /\ UNCHANGED <<deployment, service, together>>

-----------------------------------------------------------------------------
(* remove *)

RemoveNode(h) ==
  /\ kube[h].step = "created" /\ Free
  /\ Proceed(h, "listing to remove")
  /\ UNCHANGED <<deployment, service, errors>>

ListToRemove(h) ==
  /\ kube[h].step = "listing to remove"
  /\ Proceed(h, IF deployment = "none" THEN "remove failed" ELSE "scaling down")
  /\ UNCHANGED <<deployment, service, errors, together>>

ScaleDown(h) ==
  /\ kube[h].step = "scaling down" /\ deployment # "none"
  /\ deployment' = "scaled down"
  /\ Proceed(h, "removing deployment")
  /\ UNCHANGED <<service, errors, together>>

\* Nobody catches the failure of that request: the process is killed.
ScaleDownFails(h) ==
  /\ kube[h].step = "scaling down"
  /\ \/ deployment = "none" /\ UNCHANGED errors
     \/ Errs
  /\ kube' = [k \in KubeHandler |-> IF kube[k].step = "unused" THEN kube[k]
                                   ELSE [kube[k] EXCEPT !.step = "dead"]]
  /\ UNCHANGED <<deployment, service, together>>

\* Mutant of AfterDeployment: the service is forgotten.
AfterDeploymentDone == "removed"

AfterDeployment == "removing service"

RemoveDeployment(h) ==
  /\ kube[h].step = "removing deployment"
  /\ deployment' = "none"
  /\ Proceed(h, IF deployment = "none" THEN "remove failed" ELSE AfterDeployment)
  /\ UNCHANGED <<service, errors, together>>

RemoveService(h) ==
  /\ kube[h].step = "removing service"
  /\ service' = FALSE
  /\ Proceed(h, IF service THEN "removed" ELSE "remove failed")
  /\ UNCHANGED <<deployment, errors, together>>

RemoveErrs(h) ==
  /\ kube[h].step \in {"listing to remove", "removing deployment", "removing service"} /\ Errs
  /\ Proceed(h, "remove failed")
  /\ UNCHANGED <<deployment, service, together>>

-----------------------------------------------------------------------------

ServerAnswers(h) ==
  \/ ListToCreate(h) \/ CreateDeployment(h) \/ CreateService(h)
  \/ ListToRemove(h) \/ ScaleDown(h) \/ ScaleDownFails(h) \/ RemoveDeployment(h) \/ RemoveService(h)

KubeNext ==
  \E h \in KubeHandler : CreateNode(h) \/ RemoveNode(h) \/ ServerAnswers(h) \/ CreateErrs(h) \/ RemoveErrs(h)

KubeSpec == KubeInit /\ [][KubeNext]_kubeVars

\* The API server answers.
KubeFairSpec == KubeSpec /\ \A h \in KubeHandler : WF_kubeVars(ServerAnswers(h))

-----------------------------------------------------------------------------
(* Properties *)

\* A removal that is confirmed leaves neither a deployment nor a service, those
\* of earlier attempts that failed half-way included, if operations have come
\* one after the other.
RemovedIsGoneStep ==
  \A h \in KubeHandler :
    ~together /\ kube[h].step # "removed" /\ kube'[h].step = "removed"
      => deployment' = "none" /\ ~service'

\* A confirmed removal leaves nothing (RemovedIsGoneStep).
RemovedIsGone == [][RemovedIsGoneStep]_kubeVars

\* Every operation comes to its end, whatever fails.
KubeSettles == <>[](AtWork = {})
=============================================================================
