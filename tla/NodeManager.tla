---------------------------- MODULE NodeManager -----------------------------
(***************************************************************************)
(* The remote nodes of a tenant (orchestrator/nodeManager.js): requests    *)
(* that add and remove them, the containers they run in, the database from *)
(* which they are created again when the process starts.                   *)
(*                                                                         *)
(* A handler is known by its container; DockerNode and KubernetesNode have *)
(* the steps of the two engines.                                           *)
(***************************************************************************)
EXTENDS Naturals, FiniteSets

CONSTANTS
  Id,             \* the identities of remote nodes
  Client,         \* requests of the REST interface
  Misnamed,       \* identities asked for with images that may have another name
  Overlap,        \* what a request may come in the middle of: "requests", "loads"
  MaxCrashes,
  MaxFailures,    \* operations of engine, node or database that fail
  MaxContainers,  \* containers created in all
  Null

ASSUME ManagerAssumption == Null \notin Nat

VARIABLES
  nodes,       \* this.nodes: the container of each node the tenant has
  tenant,      \* "unknown", then "collection", when only this.collection has it, "known"
  docs,        \* the database: sets of [key, id, container]
  containers,  \* what runs at the engine
  made,        \* containers created so far
  loads,       \* the iterations of _loadRemoteNodes in progress
  request,     \* addRemoteNode and delRemoteNode
  rollbacks,   \* deletions nobody waits for
  crashes, failures,
  removed,     \* identities whose removal was confirmed and that nobody has added since
  met          \* what a request has come in the middle of so far: as Overlap

engineVars == <<containers, made>>
faultVars == <<crashes, failures>>
history == <<removed, met>>
vars == <<nodes, tenant, docs, engineVars, loads, request, rollbacks, faultVars, history>>

Idle == [phase |-> "idle"]
NoNodes == [i \in Id |-> Null]

Init ==
  /\ nodes = NoNodes /\ tenant = "unknown"
  /\ docs = {} /\ containers = {} /\ made = 0
  /\ loads = {} /\ request = [c \in Client |-> Idle] /\ rollbacks = {}
  /\ crashes = 0 /\ failures = 0
  /\ removed = {} /\ met = {}

Active == {c \in Client : request[c].phase \notin {"idle", "answered"}}

\* A request may begin.
Admitted ==
  /\ met' = met \cup (IF Active = {} THEN {} ELSE {"requests"})
                \cup (IF loads = {} /\ tenant = "known" THEN {} ELSE {"loads"})
  /\ met' \subseteq Overlap

Fails == failures < MaxFailures /\ failures' = failures + 1

Goes(c, r) == request' = [request EXCEPT ![c] = r]

Answer(c, r, status) == Goes(c, [phase |-> "answered", op |-> r.op, id |-> r.id, status |-> status])

\* The process is killed and starts again; what it had answered stays answered.
Restart ==
  /\ nodes' = NoNodes /\ tenant' = "unknown"
  /\ loads' = {} /\ rollbacks' = {}
  /\ request' = [c \in Client |-> IF c \in Active
       THEN [phase |-> "answered", op |-> request[c].op, id |-> request[c].id, status |-> 0]
       ELSE request[c]]

Crash ==
  /\ crashes < MaxCrashes /\ crashes' = crashes + 1
  /\ Restart
  /\ UNCHANGED <<docs, engineVars, failures, history>>

\* A container of its own for each create.
NewContainer ==
  /\ made < MaxContainers
  /\ made' = made + 1
  /\ containers' = containers \cup {made + 1}

-----------------------------------------------------------------------------
(* addTenant and _loadRemoteNodes *)

AddTenant ==
  /\ tenant = "unknown"
  /\ tenant' = "collection"
  /\ UNCHANGED <<nodes, docs, engineVars, loads, request, rollbacks, faultVars, history>>

\* The nodes of the database are loaded one beside the other; the tenant is
\* there with its local nodes before any of them is.
FindNodes ==
  /\ tenant = "collection"
  /\ tenant' = "known"
  /\ nodes' = NoNodes
  /\ loads' = {[doc |-> d, phase |-> "removing", container |-> Null] : d \in docs}
  /\ UNCHANGED <<docs, engineVars, request, rollbacks, faultVars, history>>

LoadTo(l, k) == loads' = (loads \ {l}) \cup {k}

\* Whether the old container could be removed or not, the load goes on.
AfterRemoval(l) == {[l EXCEPT !.phase = "creating"]}

LoadRemoves(l) ==
  /\ l.phase = "removing"
  /\ loads' = (loads \ {l}) \cup AfterRemoval(l)
  /\ \/ containers' = containers \ {l.doc.container} /\ UNCHANGED failures
     \/ Fails /\ UNCHANGED containers
  /\ UNCHANGED <<nodes, tenant, docs, made, request, rollbacks, crashes, history>>

LoadCreates(l) ==
  /\ l.phase = "creating"
  /\ NewContainer
  /\ LoadTo(l, [l EXCEPT !.phase = "starting", !.container = made + 1])
  /\ nodes' = [nodes EXCEPT ![l.doc.id] = made + 1]
  /\ UNCHANGED <<tenant, docs, request, rollbacks, faultVars, history>>

LoadStarted(l) ==
  /\ l.phase = "starting"
  /\ LoadTo(l, [l EXCEPT !.phase = "updating"])
  /\ nodes' = [nodes EXCEPT ![l.doc.id] = l.container]
  /\ UNCHANGED <<tenant, docs, engineVars, request, rollbacks, faultVars, history>>

LoadUpdates(l) ==
  /\ l.phase = "updating"
  /\ loads' = loads \ {l}
  /\ docs' = {IF d.key = l.doc.key THEN [d EXCEPT !.container = l.container] ELSE d : d \in docs}
  /\ UNCHANGED <<nodes, tenant, engineVars, request, rollbacks, faultVars, history>>

\* The rollback asks to remove a node by the identity of its container, which
\* no node has; the promise of the tenant is resolved long since.
LoadFails(l) ==
  /\ l.phase \in {"creating", "starting", "updating"} /\ Fails
  /\ loads' = loads \ {l}
  /\ UNCHANGED <<nodes, tenant, docs, engineVars, request, rollbacks, crashes, history>>

-----------------------------------------------------------------------------
(* addRemoteNode *)

Add(c, i) ==
  /\ request[c] = Idle /\ Admitted
  /\ LET r == [op |-> "add", id |-> i, phase |-> "creating"] IN
     IF tenant # "known" \/ nodes[i] # Null
     THEN Answer(c, r, 500) /\ UNCHANGED removed
     ELSE Goes(c, r) /\ removed' = removed \ {i}
  /\ UNCHANGED <<nodes, tenant, docs, engineVars, loads, rollbacks, faultVars>>

AddCreates(c) ==
  /\ request[c].phase = "creating"
  /\ NewContainer
  /\ Goes(c, [op |-> "add", id |-> request[c].id, phase |-> "starting", container |-> made + 1])
  /\ UNCHANGED <<nodes, tenant, docs, loads, rollbacks, faultVars, history>>

\* The node answers with its metadata.
AddStarted(c) ==
  /\ request[c].phase = "starting"
  /\ nodes' = [nodes EXCEPT ![request[c].id] = request[c].container]
  /\ Goes(c, [request[c] EXCEPT !.phase = "inserting"])
  /\ UNCHANGED <<tenant, docs, engineVars, loads, rollbacks, faultVars, history>>

AddInserts(c) ==
  /\ request[c].phase = "inserting"
  /\ docs' = docs \cup {[key |-> request[c].container, id |-> request[c].id,
                         container |-> request[c].container]}
  /\ Answer(c, request[c], 200)
  /\ UNCHANGED <<nodes, tenant, engineVars, loads, rollbacks, faultVars, history>>

\* The node has another name than it should: the rollback removes what the
\* tenant has under its identity, which is not this node.
AddMisnamed(c) ==
  /\ request[c].phase = "starting" /\ request[c].id \in Misnamed /\ Fails
  /\ Answer(c, request[c], 500)
  /\ rollbacks' = IF nodes[request[c].id] = Null THEN rollbacks
       ELSE rollbacks \cup {[id |-> request[c].id, phase |-> "removing",
                             container |-> nodes[request[c].id]]}
  /\ UNCHANGED <<nodes, tenant, docs, engineVars, loads, crashes, history>>

\* No container: nothing to undo.  No answer of the node, or no document: the
\* rollback asks to remove a node by the identity of its container and names no
\* tenant; it is refused and its failure logged.
AddFails(c) ==
  /\ request[c].phase \in {"creating", "starting", "inserting"} /\ Fails
  /\ Answer(c, request[c], 500)
  /\ UNCHANGED <<nodes, tenant, docs, engineVars, loads, rollbacks, crashes, history>>

-----------------------------------------------------------------------------
(* delRemoteNode *)

Del(c, i) ==
  /\ request[c] = Idle /\ Admitted
  /\ LET r == [op |-> "del", id |-> i, phase |-> "removing", container |-> nodes[i]] IN
     IF tenant = "known" /\ nodes[i] # Null THEN Goes(c, r) ELSE Answer(c, r, 500)
  /\ tenant # "collection"
  /\ UNCHANGED <<nodes, tenant, docs, engineVars, loads, rollbacks, faultVars, removed>>

\* Before the nodes of the tenant are there the promise of delRemoteNode throws:
\* an unhandled rejection, which kills the process (index.js).
DelTooEarly(c) ==
  /\ request[c] = Idle /\ Admitted /\ tenant = "collection"
  /\ crashes < MaxCrashes /\ crashes' = crashes + 1
  /\ Restart
  /\ UNCHANGED <<docs, engineVars, failures, removed>>

\* Mutant of Unmapped: the node stays in the map.
StillMapped(i) == nodes

Unmapped(i) == [nodes EXCEPT ![i] = Null]

\* Mutant of DocsOf: the filter names the container.
DocsByContainer(i) == {d \in docs : d.container = i}

DocsOf(i) == {d \in docs : d.id = i}

\* One step of a deletion d that goes on as e, or ends.
DelRemoves(d, e) ==
  /\ d.phase = "removing"
  /\ e = [d EXCEPT !.phase = "unmapping"]
  /\ \/ containers' = containers \ {d.container} /\ UNCHANGED failures
     \/ Fails /\ UNCHANGED containers
  /\ UNCHANGED <<nodes, docs>>

DelUnmaps(d, e) ==
  /\ d.phase = "unmapping"
  /\ e = [d EXCEPT !.phase = "deleting"]
  /\ nodes' = Unmapped(d.id)
  /\ UNCHANGED <<containers, docs, failures>>

\* A deletion that fails throws in its own report: that is Crash.
DelDeletes(d) ==
  /\ d.phase = "deleting"
  /\ IF DocsOf(d.id) = {} THEN UNCHANGED docs ELSE \E x \in DocsOf(d.id) : docs' = docs \ {x}

DelStep(c) ==
  /\ request[c].phase \in {"removing", "unmapping"}
  /\ \E e \in {[request[c] EXCEPT !.phase = p] : p \in {"unmapping", "deleting"}} :
       (DelRemoves(request[c], e) \/ DelUnmaps(request[c], e)) /\ Goes(c, e)
  /\ UNCHANGED <<tenant, made, loads, rollbacks, crashes, history>>

DelEnds(c) ==
  /\ request[c].phase = "deleting"
  /\ DelDeletes(request[c])
  /\ Answer(c, request[c], 200)
  /\ removed' = removed \cup {request[c].id}
  /\ UNCHANGED <<nodes, tenant, engineVars, loads, rollbacks, faultVars, met>>

RollbackStep(d) ==
  /\ \E e \in {[d EXCEPT !.phase = p] : p \in {"unmapping", "deleting"}} :
       (DelRemoves(d, e) \/ DelUnmaps(d, e)) /\ rollbacks' = (rollbacks \ {d}) \cup {e}
  /\ UNCHANGED <<tenant, made, loads, request, crashes, history>>

RollbackEnds(d) ==
  /\ DelDeletes(d)
  /\ rollbacks' = rollbacks \ {d}
  /\ UNCHANGED <<nodes, tenant, engineVars, loads, request, faultVars, history>>

-----------------------------------------------------------------------------

LoadStep(l) == LoadRemoves(l) \/ LoadCreates(l) \/ LoadStarted(l) \/ LoadUpdates(l)

RequestStep(c) ==
  AddCreates(c) \/ AddStarted(c) \/ AddInserts(c) \/ DelStep(c) \/ DelEnds(c)

Next ==
  \/ AddTenant \/ FindNodes \/ Crash
  \/ \E l \in loads : LoadStep(l) \/ LoadFails(l)
  \/ \E c \in Client :
       \/ \E i \in Id : Add(c, i) \/ Del(c, i)
       \/ RequestStep(c) \/ AddMisnamed(c) \/ AddFails(c) \/ DelTooEarly(c)
  \/ \E d \in rollbacks : RollbackStep(d) \/ RollbackEnds(d)

Spec == Init /\ [][Next]_vars

\* Engine, nodes and database answer.
FairSpec ==
  /\ Spec
  /\ WF_vars(AddTenant) /\ WF_vars(FindNodes)
  /\ WF_vars(\E l \in loads : LoadStep(l))
  /\ \A c \in Client : WF_vars(RequestStep(c))

-----------------------------------------------------------------------------
(* Properties *)

\* Type invariant.
TypeOK ==
  /\ \A i \in Id : nodes[i] \in 1..made \cup {Null}
  /\ containers \subseteq 1..made
  /\ \A d \in docs : d.key \in 1..made /\ d.container \in 1..made /\ d.id \in Id
  /\ \A d, e \in docs : d.key = e.key => d = e
  /\ tenant # "known" => loads = {} /\ nodes = NoNodes

Deletions == {request[c] : c \in Active} \cup rollbacks

\* A node the executor can be given has its container, or is being deleted, if
\* the requests have come when the nodes were loaded: neither two requests nor a
\* rollback leave one without it.
MappedRuns ==
  \A i \in Id :
    "loads" \notin met /\ nodes[i] # Null =>
      \/ nodes[i] \in containers
      \/ \E d \in Deletions : d.phase = "unmapping" /\ d.container = nodes[i]

\* A node whose addition was confirmed is in the database, whatever crashes,
\* until it is deleted, by a request or by the rollback of another addition.
Durable ==
  \A c \in Client :
    /\ request[c].phase = "answered" /\ request[c].op = "add" /\ request[c].status = 200
    /\ \A b \in Client \ {c} :
         request[b] # Idle /\ request[b].id = request[c].id =>
           request[b].op = "add" /\ (request[b].phase = "answered" => request[b].status # 500)
    => DocsOf(request[c].id) # {}

\* The nodes of a tenant, in the map, at the engine and in the database.
NodesSound == TypeOK /\ MappedRuns /\ Durable

\* A node whose removal was confirmed is not there again before it is added
\* again, whatever crashes: neither in the map nor, for the next start, in the
\* database, if the requests have come one after the other and nothing has
\* failed (a node that failed to load can be added again beside its document).
\* "Step 3: Remove remote node configuration from database" (nodeManager.js).
RemovedForGood ==
  met = {} /\ failures = 0 =>
    \A i \in removed : nodes[i] = Null /\ {d \in docs : d.id = i} = {}

Busy == Active # {} \/ loads # {} \/ rollbacks # {}

\* The addition that fails asks delRemoteNode to remove its node ("This method
\* removes a remote node", nodeManager.js): when everything is done, the container
\* of a request that failed does not stay without a node.
RolledBack ==
  crashes = 0 /\ ~Busy => \A k \in containers : \E i \in Id : nodes[i] = k

\* The nodes of the database run in the end.
Restored == <>[](\A d \in docs : nodes[d.id] \in containers)
=============================================================================
