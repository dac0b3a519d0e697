------------------------- MODULE RemoteNodesProofs -------------------------
(***************************************************************************)
(* Docker containers, Kubernetes deployments, messages to remote nodes and *)
(* the manager of the nodes: what MCRemoteNodes checks of them, for every  *)
(* set of handlers, callers, clients and identities and every bound.       *)
(***************************************************************************)
EXTENDS NodeManager, KubernetesNode, DockerNode, RemoteNode, FiniteSetTheorems, TLAPS

-----------------------------------------------------------------------------
(* NodeManager: the inductive invariant *)

Doc == [key : Nat, id : Id, container : Nat]
Creating == [op : {"add"}, id : Id, phase : {"creating"}]
Adding == [op : {"add"}, id : Id, phase : {"starting", "inserting"}, container : Nat]
Deleting == [op : {"del"}, id : Id, phase : {"removing", "unmapping", "deleting"}, container : Nat]
Ended == [op : {"add", "del"}, id : Id, phase : {"answered"}, status : {0, 200, 500}]
Request == {Idle} \cup Creating \cup Adding \cup Deleting \cup Ended
Loading == [doc : Doc, phase : {"removing", "creating", "starting", "updating"}, container : Nat \cup {Null}]
Rollback == [id : Id, phase : {"removing", "unmapping", "deleting"}, container : Nat]

Phase(c) == request[c].phase
AddPhases == {"creating", "starting", "inserting"}
DelPhases == {"removing", "unmapping", "deleting"}

ManagerTyped ==
  /\ made \in Nat /\ failures \in Nat
  /\ nodes \in [Id -> Nat \cup {Null}]
  /\ tenant \in {"unknown", "collection", "known"}
  /\ docs \subseteq Doc /\ containers \subseteq Nat
  /\ loads \subseteq Loading /\ rollbacks \subseteq Rollback
  /\ request \in [Client -> Request]

\* The deletions in progress, of requests and of rollbacks.
Dels == {request[c] : c \in {d \in Client : Phase(d) \in DelPhases}} \cup rollbacks

\* Containers that exist, once did, or are named anywhere.
Bounded ==
  /\ \A i \in Id : nodes[i] # Null => nodes[i] \in 1..made
  /\ containers \subseteq 1..made
  /\ \A d \in docs : d.key \in 1..made /\ d.container \in 1..made
  /\ \A c \in Client : Phase(c) \in {"starting", "inserting"} => request[c].container \in 1..made
  /\ \A d \in Dels : d.container \in 1..made
  /\ \A l \in loads : /\ l.doc.container \in 1..made
                      /\ l.phase \in {"starting", "updating"} => l.container \in 1..made

\* Before the tenant is known nothing is under way.
NothingBefore ==
  tenant # "known" => loads = {} /\ nodes = NoNodes /\ rollbacks = {} /\ Active = {}

\* A rollback is that of an addition that failed.
Cause(c, i) ==
  /\ Phase(c) = "answered" /\ request[c].op = "add" /\ request[c].id = i
  /\ request[c].status = 500

RollbacksHaveCause == \A d \in rollbacks : \E c \in Client : Cause(c, d.id)

\* Wherever a container is named as that of a node, it is named as one node's.
Owns(i, k) ==
  \/ nodes[i] = k
  \/ \E c \in Client :
       Phase(c) \in {"starting", "inserting"} /\ request[c].id = i /\ request[c].container = k
  \/ \E d \in Dels : d.id = i /\ d.container = k
  \/ \E l \in loads : l.phase = "starting" /\ l.doc.id = i /\ l.container = k

OneOwner == \A i, j \in Id : \A k \in Nat : Owns(i, k) /\ Owns(j, k) => i = j

BasicInv ==
  ManagerTyped /\ Bounded /\ NothingBefore /\ RollbacksHaveCause /\ Durable /\ OneOwner

\* A document has the key of the container it was inserted with, which no other
\* document has, and no other addition.
NewPhases == {"starting", "inserting"}

OneKey == \A d, e \in docs : d.key = e.key => d = e

KeysInv ==
  /\ OneKey
  /\ \A c \in Client : Phase(c) \in NewPhases =>
       /\ \A d \in docs : d.key # request[c].container
       /\ \A b \in Client :
            Phase(b) \in NewPhases /\ request[b].container = request[c].container => b = c

\* The containers that are about to be removed.
Doomed(k) ==
  \/ \E d \in Dels : d.container = k
  \/ \E l \in loads : l.phase = "removing" /\ l.doc.container = k

\* A container that is not in the map yet runs, and nobody removes it.
StartingRuns ==
  /\ \A c \in Client : Phase(c) = "starting" =>
       /\ request[c].container \in containers /\ ~Doomed(request[c].container)
       /\ \A i \in Id : nodes[i] # request[c].container
       /\ \A d \in Client :
            Phase(d) = "starting" /\ request[d].container = request[c].container => d = c
  /\ \A l \in loads : l.phase = "starting" => l.container \in containers /\ ~Doomed(l.container)

\* While the nodes are loaded nothing else happens, and what they ran in before
\* is in the map no more.
LoadsAlone ==
  /\ loads # {} => rollbacks = {} /\ Active = {}
  /\ \A l \in loads : l.phase = "removing" => \A i \in Id : nodes[i] # l.doc.container

Runs(i) ==
  nodes[i] \in containers \/ \E d \in Dels : d.phase = "unmapping" /\ d.container = nodes[i]

MapInv == (\A i \in Id : nodes[i] # Null => Runs(i)) /\ StartingRuns /\ LoadsAlone

\* One request at a time and no failure: the documents and the map agree, but
\* for the node that is being added, deleted or loaded.
OneDoc == \A d, e \in docs : d.id = e.id => d = e

Mapped(i) ==
  \/ nodes[i] # Null
  \/ \E l \in loads : l.doc.id = i /\ l.phase \in {"removing", "creating"}
  \/ \E c \in Client : Phase(c) = "deleting" /\ request[c].id = i

NoDoc(i) == \A d \in docs : d.id # i

InTurnInv ==
  /\ rollbacks = {} /\ \A c, d \in Active : c = d
  /\ OneDoc /\ removed \subseteq Id
  /\ tenant = "known" => \A d \in docs : Mapped(d.id)
  /\ \A l \in loads : /\ ~NoDoc(l.doc.id)
                      /\ l.phase \in {"starting", "updating"} => nodes[l.doc.id] # Null
  /\ \A c \in Client : Phase(c) \in AddPhases =>
       /\ NoDoc(request[c].id) /\ request[c].id \notin removed
       /\ Phase(c) = "inserting" => nodes[request[c].id] # Null
  /\ \A c \in Client : Phase(c) = "deleting" => nodes[request[c].id] = Null
  /\ \A i \in removed : nodes[i] = Null /\ NoDoc(i)

ManagerInv ==
  /\ BasicInv /\ KeysInv
  /\ "loads" \notin met => MapInv
  /\ met = {} /\ failures = 0 => InTurnInv

-----------------------------------------------------------------------------
(* The shape of the records *)

\* What the phase of a request says of it.
LEMMA RequestShape ==
  ASSUME NEW r \in Request
  PROVE  /\ r.phase \in {"idle", "answered"} \cup AddPhases \cup DelPhases
         /\ r.phase = "idle" <=> r = Idle
         /\ r.phase # "idle" => r.id \in Id /\ r.op \in {"add", "del"}
         /\ r.phase \in AddPhases => r.op = "add"
         /\ r.phase \in {"starting", "inserting"} => r \in Adding /\ r.container \in Nat
         /\ r.phase \in DelPhases => r \in Deleting /\ r.op = "del" /\ r.container \in Nat
         /\ r.phase = "answered" => r.status \in {0, 200, 500}
BY DEF Request, Idle, Creating, Adding, Deleting, Ended, AddPhases, DelPhases

\* A request goes on; the others stay.
Turns(c) ==
  request' \in [Client -> Request] /\ \A d \in Client \ {c} : request'[d] = request[d]

\* A request that goes on as a record of the type is that record.
LEMMA GoesTo ==
  ASSUME ManagerTyped, NEW c \in Client, NEW r \in Request, Goes(c, r)
  PROVE  Turns(c) /\ request'[c] = r
BY DEF ManagerTyped, Goes, Turns

\* It is answered.
LEMMA AnswersWith ==
  ASSUME ManagerTyped, NEW c \in Client, NEW r, NEW s \in {0, 200, 500}, Answer(c, r, s),
         r.op \in {"add", "del"}, r.id \in Id
  PROVE  /\ Turns(c) /\ request'[c].phase = "answered"
         /\ request'[c].op = r.op /\ request'[c].id = r.id /\ request'[c].status = s
<1> DEFINE x == [phase |-> "answered", op |-> r.op, id |-> r.id, status |-> s]
<1>1. x \in Ended /\ x.phase = "answered" /\ x.op = r.op /\ x.id = r.id /\ x.status = s
  BY DEF Ended
<1>2. x \in Request /\ Goes(c, x)
  BY <1>1 DEF Request, Answer
<1> HIDE DEF x
<1> QED
  BY <1>1, <1>2, GoesTo

\* An addition in its next phase is that addition still.
LEMMA NextAdding ==
  ASSUME NEW r \in Adding, NEW x, x = [r EXCEPT !.phase = "inserting"]
  PROVE  x \in Adding /\ x.phase = "inserting" /\ x.id = r.id /\ x.op = "add" /\ x.container = r.container
BY DEF Adding

\* So is a deletion.
LEMMA NextDeleting ==
  ASSUME NEW r \in Deleting, NEW p \in DelPhases, NEW x, x = [r EXCEPT !.phase = p]
  PROVE  x \in Deleting /\ x.phase = p /\ x.id = r.id /\ x.op = "del" /\ x.container = r.container
BY DEF Deleting, DelPhases

\* So is a rollback.
LEMMA NextRollback ==
  ASSUME NEW r \in Rollback, NEW p \in DelPhases, NEW x, x = [r EXCEPT !.phase = p]
  PROVE  x \in Rollback /\ x.phase = p /\ x.id = r.id /\ x.container = r.container
BY DEF Rollback, DelPhases

\* So is a load.
LEMMA NextLoading ==
  ASSUME NEW l \in Loading, NEW p \in {"creating", "updating"}, NEW x, x = [l EXCEPT !.phase = p]
  PROVE  x \in Loading /\ x.phase = p /\ x.doc = l.doc /\ x.container = l.container
BY DEF Loading

-----------------------------------------------------------------------------
(* What each step does to the requests *)

\* An addition begins, if the tenant is known and has no such node, or is refused.
LEMMA AddFacts ==
  ASSUME ManagerTyped, NEW c \in Client, NEW i \in Id, Add(c, i)
  PROVE  /\ Turns(c) /\ request[c].phase = "idle" /\ request'[c].op = "add" /\ request'[c].id = i
         /\ \/ /\ request'[c].phase = "answered" /\ request'[c].status = 500 /\ removed' = removed
            \/ /\ request'[c].phase = "creating" /\ removed' = removed \ {i}
               /\ tenant = "known" /\ nodes[i] = Null
<1> DEFINE r == [op |-> "add", id |-> i, phase |-> "creating"]
<1>1. r \in Creating /\ r.op = "add" /\ r.id = i /\ r.phase = "creating"
  BY DEF Creating
<1>2. r \in Request
  BY <1>1 DEF Request
<1>3. /\ request[c] = Idle
      /\ IF tenant # "known" \/ nodes[i] # Null
         THEN Answer(c, r, 500) /\ UNCHANGED removed
         ELSE Goes(c, r) /\ removed' = removed \ {i}
  BY DEF Add
<1>4. request[c].phase = "idle"
  BY <1>3 DEF Idle
<1> HIDE DEF r
<1>5. CASE tenant # "known" \/ nodes[i] # Null
  BY <1>1, <1>3, <1>4, <1>5, AnswersWith
<1>6. CASE ~(tenant # "known" \/ nodes[i] # Null)
  BY <1>1, <1>2, <1>3, <1>4, <1>6, GoesTo
<1> QED
  BY <1>5, <1>6

\* The addition gets a container nobody has had.
LEMMA AddCreatesFacts ==
  ASSUME ManagerTyped, NEW c \in Client, AddCreates(c)
  PROVE  /\ Turns(c) /\ request[c].phase = "creating" /\ request'[c].phase = "starting"
         /\ request'[c].op = "add" /\ request'[c].id = request[c].id
         /\ request'[c].container = made + 1 /\ made' = made + 1 /\ made + 1 \in Nat
         /\ containers' = containers \cup {made + 1}
<1> DEFINE r == [op |-> "add", id |-> request[c].id, phase |-> "starting", container |-> made + 1]
<1>1. request[c].phase = "creating" /\ request[c].id \in Id /\ made + 1 \in Nat
  BY RequestShape DEF ManagerTyped, AddCreates
<1>2. /\ r \in Adding /\ r.phase = "starting" /\ r.op = "add" /\ r.id = request[c].id
      /\ r.container = made + 1
  BY <1>1 DEF Adding
<1>3. r \in Request /\ Goes(c, r)
  BY <1>2 DEF Request, AddCreates
<1> HIDE DEF r
<1> QED
  BY <1>1, <1>2, <1>3, GoesTo DEF AddCreates, NewContainer

\* The node of the addition enters the map.
LEMMA AddStartedFacts ==
  ASSUME ManagerTyped, NEW c \in Client, AddStarted(c)
  PROVE  /\ Turns(c) /\ request[c].phase = "starting" /\ request'[c].phase = "inserting"
         /\ request'[c].op = "add" /\ request'[c].id = request[c].id
         /\ request'[c].container = request[c].container
         /\ nodes' = [nodes EXCEPT ![request[c].id] = request[c].container]
<1>1. request[c].phase = "starting" /\ request[c] \in Adding
  BY RequestShape DEF ManagerTyped, AddStarted
<1> DEFINE r == [request[c] EXCEPT !.phase = "inserting"]
<1>2. /\ r \in Adding /\ r.phase = "inserting" /\ r.op = "add" /\ r.id = request[c].id
      /\ r.container = request[c].container
  BY <1>1, NextAdding
<1>3. r \in Request /\ Goes(c, r)
  BY <1>2 DEF Request, AddStarted
<1> HIDE DEF r
<1> QED
  BY <1>1, <1>2, <1>3, GoesTo DEF AddStarted

\* The addition is confirmed.
LEMMA AddInsertsFacts ==
  ASSUME ManagerTyped, NEW c \in Client, AddInserts(c)
  PROVE  /\ Turns(c) /\ request[c].phase = "inserting" /\ request'[c].phase = "answered"
         /\ request'[c].op = "add" /\ request'[c].id = request[c].id /\ request'[c].status = 200
         /\ request[c].container \in Nat /\ request[c].id \in Id
<1>1. request[c].phase = "inserting" /\ Answer(c, request[c], 200)
  BY DEF AddInserts
<1>2. request[c].op = "add" /\ request[c].id \in Id /\ request[c].container \in Nat
  BY <1>1, RequestShape DEF ManagerTyped, AddPhases
<1> QED
  BY <1>1, <1>2, AnswersWith

\* The addition fails, and is answered so.
LEMMA AddRefusedFacts ==
  ASSUME ManagerTyped, NEW c \in Client, AddMisnamed(c) \/ AddFails(c)
  PROVE  /\ Turns(c) /\ request[c].phase \in AddPhases /\ request'[c].phase = "answered"
         /\ request'[c].op = "add" /\ request'[c].id = request[c].id /\ request'[c].status = 500
         /\ failures' = failures + 1 /\ request[c].id \in Id
<1>1. request[c].phase \in AddPhases /\ Answer(c, request[c], 500) /\ failures' = failures + 1
  BY DEF AddMisnamed, AddFails, AddPhases, Fails
<1>2. request[c].op = "add" /\ request[c].id \in Id
  BY <1>1, RequestShape DEF ManagerTyped, AddPhases
<1> QED
  BY <1>1, <1>2, AnswersWith

\* A deletion begins with the container the map names, or is refused.
LEMMA DelFacts ==
  ASSUME ManagerTyped, NEW c \in Client, NEW i \in Id, Del(c, i)
  PROVE  /\ Turns(c) /\ request[c].phase = "idle" /\ request'[c].op = "del" /\ request'[c].id = i
         /\ \/ request'[c].phase = "answered"
            \/ /\ request'[c].phase = "removing" /\ request'[c].container = nodes[i]
               /\ tenant = "known" /\ nodes[i] # Null
<1> DEFINE r == [op |-> "del", id |-> i, phase |-> "removing", container |-> nodes[i]]
<1>1. r.op = "del" /\ r.id = i /\ r.phase = "removing" /\ r.container = nodes[i]
  OBVIOUS
<1>2. nodes[i] # Null => r \in Request
  BY DEF ManagerTyped, Request, Deleting
<1>3. /\ request[c] = Idle
      /\ IF tenant = "known" /\ nodes[i] # Null THEN Goes(c, r) ELSE Answer(c, r, 500)
  BY DEF Del
<1>4. request[c].phase = "idle"
  BY <1>3 DEF Idle
<1> HIDE DEF r
<1>5. CASE tenant = "known" /\ nodes[i] # Null
  BY <1>1, <1>2, <1>3, <1>4, <1>5, GoesTo
<1>6. CASE ~(tenant = "known" /\ nodes[i] # Null)
  BY <1>1, <1>3, <1>4, <1>6, AnswersWith
<1> QED
  BY <1>5, <1>6

\* One step of a deletion, as what becomes of its record.
GoesOnAs(d, e) == e.id = d.id /\ e.container = d.container /\ (DelRemoves(d, e) \/ DelUnmaps(d, e))

\* A deletion goes on and stays the deletion of the same node and container.
LEMMA DelStepFacts ==
  ASSUME ManagerTyped, NEW c \in Client, DelStep(c)
  PROVE  /\ Turns(c) /\ GoesOnAs(request[c], request'[c])
         /\ request[c].phase \in DelPhases /\ request'[c].phase \in DelPhases /\ request'[c].op = "del"
<1>1. request[c].phase \in DelPhases /\ request[c] \in Deleting
  BY RequestShape DEF ManagerTyped, DelStep, DelPhases
<1>2. PICK p \in {"unmapping", "deleting"} : \E e :
        /\ e = [request[c] EXCEPT !.phase = p]
        /\ DelRemoves(request[c], e) \/ DelUnmaps(request[c], e)
        /\ Goes(c, e)
  BY DEF DelStep
<1>0. PICK e : /\ e = [request[c] EXCEPT !.phase = p]
               /\ DelRemoves(request[c], e) \/ DelUnmaps(request[c], e)
               /\ Goes(c, e)
  BY <1>2
<1>3. /\ e \in Deleting /\ e.phase = p /\ e.id = request[c].id /\ e.op = "del"
      /\ e.container = request[c].container /\ p \in DelPhases
  <2>1. p \in DelPhases
    BY DEF DelPhases
  <2>2. \A r \in Deleting : e = [r EXCEPT !.phase = p] =>
          e \in Deleting /\ e.phase = p /\ e.id = r.id /\ e.op = "del" /\ e.container = r.container
    BY <2>1 DEF Deleting, DelPhases
  <2> QED
    BY <1>1, <1>0, <2>1, <2>2, Zenon
<1>4. e \in Request
  BY <1>3 DEF Request
<1>5. Turns(c) /\ request'[c] = e
  BY <1>0, <1>4, GoesTo
<1> QED
  BY <1>1, <1>0, <1>3, <1>5 DEF GoesOnAs

\* A deletion is confirmed.
LEMMA DelEndsFacts ==
  ASSUME ManagerTyped, NEW c \in Client, DelEnds(c)
  PROVE  /\ Turns(c) /\ request[c].phase = "deleting" /\ request'[c].phase = "answered"
         /\ request'[c].op = "del" /\ request'[c].id = request[c].id /\ request[c].id \in Id
<1>1. request[c].phase = "deleting" /\ Answer(c, request[c], 200)
  BY DEF DelEnds
<1>2. request[c].op = "del" /\ request[c].id \in Id
  BY <1>1, RequestShape DEF ManagerTyped, DelPhases
<1> QED
  BY <1>1, <1>2, AnswersWith

\* A deletion removes at most one document, of its node.
LEMMA DeletesOne ==
  ASSUME NEW d, DelDeletes(d)
  PROVE  /\ d.phase = "deleting" /\ docs' \subseteq docs
         /\ \A x \in docs \ docs' : x.id = d.id
         /\ OneDoc => \A x \in docs' : x.id # d.id
BY DEF DelDeletes, DocsOf, OneDoc

\* A rollback goes on in its own place.
LEMMA RollbackStepFacts ==
  ASSUME ManagerTyped, NEW d \in rollbacks, RollbackStep(d)
  PROVE  \E e \in Rollback : GoesOnAs(d, e) /\ rollbacks' = (rollbacks \ {d}) \cup {e}
<1>1. d \in Rollback
  BY DEF ManagerTyped
<1>2. PICK e \in {[d EXCEPT !.phase = p] : p \in {"unmapping", "deleting"}} :
        (DelRemoves(d, e) \/ DelUnmaps(d, e)) /\ rollbacks' = (rollbacks \ {d}) \cup {e}
  BY DEF RollbackStep
<1>3. e \in Rollback /\ e.id = d.id /\ e.container = d.container
  <2>1. PICK p \in {"unmapping", "deleting"} : e = [d EXCEPT !.phase = p]
    OBVIOUS
  <2>2. p \in DelPhases
    BY DEF DelPhases
  <2> QED
    BY <1>1, <2>1, <2>2, NextRollback
<1> QED
  BY <1>2, <1>3 DEF GoesOnAs

\* The process starts again: what was answered stays answered.
LEMMA RestartFacts ==
  ASSUME ManagerTyped, Restart
  PROVE  /\ request' \in [Client -> Request]
         /\ \A c \in Client :
              /\ request[c].phase \in {"idle", "answered"} => request'[c] = request[c]
              /\ request[c].phase \in AddPhases \cup DelPhases =>
                   /\ request'[c].phase = "answered" /\ request'[c].op = request[c].op
                   /\ request'[c].id = request[c].id /\ request'[c].status = 0
<1>1. \A c \in Client : c \in Active <=> request[c].phase \in AddPhases \cup DelPhases
  BY RequestShape DEF ManagerTyped, Active, AddPhases, DelPhases
<1>2. ASSUME NEW c \in Client, c \in Active
      PROVE  /\ request'[c] \in Request /\ request'[c].phase = "answered"
             /\ request'[c].op = request[c].op /\ request'[c].id = request[c].id
             /\ request'[c].status = 0
  <2>1. request[c] \in Request /\ request[c].phase # "idle"
    BY <1>2 DEF ManagerTyped, Active
  <2>2. request[c].id \in Id /\ request[c].op \in {"add", "del"}
    BY <2>1, RequestShape
  <2> DEFINE x == [phase |-> "answered", op |-> request[c].op, id |-> request[c].id, status |-> 0]
  <2>3. /\ x \in Ended /\ x.phase = "answered" /\ x.op = request[c].op /\ x.id = request[c].id
        /\ x.status = 0
    BY <2>2 DEF Ended
  <2>4. request'[c] = x
    BY <1>2 DEF Restart
  <2> HIDE DEF x
  <2> QED
    BY <2>3, <2>4 DEF Request
<1>3. ASSUME NEW c \in Client, c \notin Active PROVE request'[c] = request[c]
  BY <1>3 DEF Restart
<1>4. ASSUME NEW c \in Client, request[c].phase \in {"idle", "answered"} PROVE c \notin Active
  BY <1>4 DEF Active
<1>5. \A c \in Client : request'[c] \in Request
  BY <1>2, <1>3 DEF ManagerTyped
<1>6. DOMAIN request' = Client /\ request' = [c \in Client |-> request'[c]]
  BY DEF Restart
<1>7. request' \in [Client -> Request]
  BY <1>5, <1>6
<1> QED
  BY <1>1, <1>2, <1>3, <1>4, <1>7

-----------------------------------------------------------------------------
(* The basic invariant *)

\* A request that has begun stays what it is, one that is answered answered.
Progress ==
  \A b \in Client : Phase(b) # "idle" =>
    /\ request'[b].phase # "idle" /\ request'[b].op = request[b].op /\ request'[b].id = request[b].id
    /\ Phase(b) = "answered" => request'[b] = request[b]

\* A turn of one request is progress of them all.
LEMMA ProgressOfTurn ==
  ASSUME NEW c \in Client, Turns(c), Phase(c) # "answered",
         Phase(c) # "idle" => /\ request'[c].phase # "idle" /\ request'[c].op = request[c].op
                              /\ request'[c].id = request[c].id
  PROVE  Progress
BY DEF Turns, Progress, Phase

\* What a step must show of the documents.
DocsStay ==
  \A x \in docs :
    \/ \E y \in docs' : y.id = x.id
    \/ \E b \in Client :
         /\ request'[b].phase # "idle" /\ request'[b].id = x.id
         /\ \/ request'[b].op = "del"
            \/ request'[b].phase = "answered" /\ request'[b].status = 500

\* An addition is confirmed when its document is there.
ConfirmsWithDoc ==
  \A c \in Client :
    request'[c].phase = "answered" /\ request'[c].op = "add" /\ request'[c].status = 200 =>
      Phase(c) = "answered" \/ \E y \in docs' : y.id = request'[c].id

\* A confirmed node stays in the database when the steps take away the documents
\* of deletions and rollbacks only, and confirm what has its document.
LEMMA DurableStep ==
  ASSUME ManagerTyped, request' \in [Client -> Request], Durable, Progress, DocsStay, ConfirmsWithDoc
  PROVE  Durable'
<1> SUFFICES ASSUME NEW c \in Client,
               request'[c].phase = "answered", request'[c].op = "add", request'[c].status = 200,
               \A b \in Client \ {c} :
                 request'[b] # Idle /\ request'[b].id = request'[c].id =>
                   request'[b].op = "add" /\ (request'[b].phase = "answered" => request'[b].status # 500)
             PROVE  \E y \in docs' : y.id = request'[c].id
  BY DEF Durable, DocsOf
<1>1. CASE Phase(c) # "answered"
  BY <1>1 DEF ConfirmsWithDoc
<1>2. CASE Phase(c) = "answered"
  <2>1. request'[c] = request[c] /\ request[c].phase = "answered"
    BY <1>2 DEF Progress, Phase
  <2>2. \A b \in Client : (request[b] # Idle <=> Phase(b) # "idle") /\ (request'[b] # Idle <=> request'[b].phase # "idle")
    BY RequestShape DEF ManagerTyped, Phase
  <2>3. ASSUME NEW b \in Client \ {c}, request[b] # Idle, request[b].id = request[c].id
        PROVE  request[b].op = "add" /\ (request[b].phase = "answered" => request[b].status # 500)
    BY <2>1, <2>2, <2>3 DEF Progress, Phase
  <2>4. DocsOf(request[c].id) # {}
    BY <2>1, <2>3 DEF Durable
  <2>5. PICK x \in docs : x.id = request[c].id
    BY <2>4 DEF DocsOf
  <2>6. ASSUME NEW b \in Client, request'[b].phase # "idle", request'[b].id = x.id,
               \/ request'[b].op = "del"
               \/ request'[b].phase = "answered" /\ request'[b].status = 500
        PROVE  FALSE
    BY <2>1, <2>2, <2>5, <2>6
  <2> QED
    BY <2>1, <2>5, <2>6 DEF DocsStay
<1> QED
  BY <1>1, <1>2

\* The addition a rollback belongs to stays refused.
LEMMA CauseStep ==
  ASSUME RollbacksHaveCause, Progress,
         \A d \in rollbacks' : (\E e \in rollbacks : e.id = d.id) \/ \E c \in Client : Cause(c, d.id)'
  PROVE  RollbacksHaveCause'
BY DEF RollbacksHaveCause, Progress, Cause, Phase

\* A container that is named exists or did.
LEMMA OwnedBounded ==
  ASSUME ManagerTyped, Bounded, NEW i \in Id, NEW k \in Nat, Owns(i, k)
  PROVE  k \in 1..made
BY ManagerAssumption DEF ManagerTyped, Bounded, Owns

\* One node per container, if a step names none but a new one.
LEMMA OwnerStep ==
  ASSUME ManagerTyped, Bounded, OneOwner, NEW o,
         \A i \in Id : \A k \in Nat : Owns(i, k)' /\ ~Owns(i, k) => i = o /\ k = made + 1
  PROVE  OneOwner'
<1> SUFFICES ASSUME NEW i \in Id, NEW j \in Id, NEW k \in Nat, Owns(i, k)', Owns(j, k)' PROVE i = j
  BY DEF OneOwner
<1>1. k = made + 1 => ~Owns(i, k) /\ ~Owns(j, k)
  BY OwnedBounded DEF ManagerTyped
<1> QED
  BY <1>1 DEF OneOwner

\* The deletions after the turn of a request, or a turn that is no deletion's.
LEMMA DelsAfter ==
  ASSUME NEW c \in Client, Turns(c), rollbacks' = rollbacks
  PROVE  /\ \A x \in Dels' \ Dels : x = request'[c] /\ request'[c].phase \in DelPhases
         /\ \A x \in Dels \ Dels' : x = request[c] /\ Phase(c) \in DelPhases
BY DEF Turns, Dels, Phase

\* A turn of an addition leaves the deletions.
LEMMA DelsUnchanged ==
  ASSUME NEW c \in Client, Turns(c), rollbacks' = rollbacks, Phase(c) \notin DelPhases,
         request'[c].phase \notin DelPhases
  PROVE  Dels' = Dels
BY DelsAfter

\* So does a step of no request and no rollback.
LEMMA DelsSame == ASSUME UNCHANGED <<request, rollbacks>> PROVE Dels' = Dels
BY DEF Dels, Phase

\* The loads go on while the requests wait.
LEMMA LoadKeepsRequests ==
  ASSUME UNCHANGED <<request, rollbacks>>
  PROVE  /\ Dels' = Dels /\ Progress /\ Active' = Active
         /\ RollbacksHaveCause => RollbacksHaveCause'
         /\ DocsStay /\ ManagerTyped /\ Durable => Durable'
<1>1. Progress
  BY DEF Progress, Phase
<1>2. ConfirmsWithDoc
  BY DEF ConfirmsWithDoc, Phase
<1>3. Active' = Active
  BY DEF Active
<1>4. RollbacksHaveCause => RollbacksHaveCause'
  BY <1>1, CauseStep
<1>5. ManagerTyped => request' \in [Client -> Request]
  BY DEF ManagerTyped
<1> QED
  BY <1>1, <1>2, <1>3, <1>4, <1>5, DelsSame, DurableStep

\* The tenant, then the loads, appear; the process starts again.
LEMMA BasicTenant == ASSUME BasicInv, AddTenant PROVE BasicInv'
<1>1. UNCHANGED <<nodes, docs, containers, made, loads, request, rollbacks, failures>>
        /\ tenant = "unknown" /\ tenant' = "collection"
  BY DEF AddTenant, engineVars, faultVars
<1>2. Dels' = Dels /\ Active' = Active /\ RollbacksHaveCause' /\ Durable'
  BY <1>1, LoadKeepsRequests DEF BasicInv, DocsStay
<1>3. OneOwner'
  BY <1>1, <1>2 DEF BasicInv, OneOwner, Owns, Phase
<1> QED
  BY <1>1, <1>2, <1>3 DEF BasicInv, ManagerTyped, Bounded, NothingBefore, Phase

\* The loads appear.
LEMMA BasicFindNodes == ASSUME BasicInv, FindNodes PROVE BasicInv'
<1>1. /\ UNCHANGED <<docs, containers, made, request, rollbacks, failures>>
      /\ tenant' = "known" /\ nodes' = NoNodes
      /\ loads' = {[doc |-> d, phase |-> "removing", container |-> Null] : d \in docs}
  BY DEF FindNodes, engineVars, faultVars
<1>2. \A l \in loads' : l \in Loading /\ l.doc \in docs /\ l.phase = "removing"
  BY <1>1 DEF BasicInv, ManagerTyped, Loading
<1>3. Dels' = Dels /\ RollbacksHaveCause' /\ Durable'
  BY <1>1, LoadKeepsRequests DEF BasicInv, DocsStay
<1>4. ManagerTyped'
  BY <1>1, <1>2 DEF BasicInv, ManagerTyped, NoNodes
<1>5. Bounded'
  BY <1>1, <1>2, <1>3 DEF BasicInv, Bounded, NoNodes, Phase
<1>6. \A i \in Id : \A k \in Nat : Owns(i, k)' => Owns(i, k)
  BY <1>1, <1>2, <1>3, ManagerAssumption DEF Owns, Phase, NoNodes
<1>7. OneOwner'
  BY <1>6 DEF BasicInv, OneOwner
<1> QED
  BY <1>1, <1>3, <1>4, <1>5, <1>7 DEF BasicInv, NothingBefore

\* The process starts again; no deletion is in progress.
LEMMA BasicRestart ==
  ASSUME BasicInv, Restart, UNCHANGED <<docs, containers, made, failures>>
  PROVE  BasicInv' /\ Dels' = {}
<1>1. /\ nodes' = NoNodes /\ tenant' = "unknown" /\ loads' = {} /\ rollbacks' = {}
      /\ request' \in [Client -> Request]
      /\ \A c \in Client :
           /\ request[c].phase \in {"idle", "answered"} => request'[c] = request[c]
           /\ request[c].phase \in AddPhases \cup DelPhases =>
                /\ request'[c].phase = "answered" /\ request'[c].op = request[c].op
                /\ request'[c].id = request[c].id /\ request'[c].status = 0
  BY RestartFacts DEF BasicInv, Restart
<1>2. \A c \in Client : request[c].phase \in {"idle", "answered"} \cup AddPhases \cup DelPhases
  BY RequestShape DEF BasicInv, ManagerTyped
<1>3. \A c \in Client : request'[c].phase \in {"idle", "answered"}
  BY <1>1, <1>2
<1>4. Dels' = {} /\ Active' = {}
  BY <1>1, <1>3 DEF Dels, Active, Phase, DelPhases
<1>5. ManagerTyped'
  BY <1>1 DEF BasicInv, ManagerTyped, NoNodes
<1>6. Bounded'
  BY <1>1, <1>3, <1>4 DEF BasicInv, Bounded, NoNodes, Phase
<1>7. Progress
  BY <1>1, <1>2, <1>3 DEF Progress, Phase, AddPhases, DelPhases
<1>8. ConfirmsWithDoc /\ DocsStay
  BY <1>1, <1>2 DEF ConfirmsWithDoc, DocsStay, Phase
<1>9. Durable'
  BY <1>1, <1>7, <1>8, DurableStep DEF BasicInv
<1>10. \A i \in Id : \A k \in Nat : ~Owns(i, k)'
  BY <1>1, <1>3, <1>4, ManagerAssumption DEF Owns, Phase, NoNodes
<1> QED
  BY <1>1, <1>4, <1>5, <1>6, <1>9, <1>10 DEF BasicInv, NothingBefore, RollbacksHaveCause, OneOwner

-----------------------------------------------------------------------------

\* The loads.
LoadTurns(l, k) == loads' = (loads \ {l}) \cup {k} /\ k \in Loading /\ k.doc = l.doc

\* The old container of the load goes, or fails to.
LEMMA LoadRemovesFacts ==
  ASSUME ManagerTyped, NEW l \in loads, LoadRemoves(l)
  PROVE  \E k : /\ LoadTurns(l, k) /\ k.phase = "creating" /\ l.phase = "removing"
                /\ \/ containers' = containers \ {l.doc.container} /\ failures' = failures
                   \/ containers' = containers /\ failures' = failures + 1
                /\ UNCHANGED <<nodes, tenant, docs, made, request, rollbacks, removed, met>>
<1> DEFINE k == [l EXCEPT !.phase = "creating"]
<1>1. k \in Loading /\ k.phase = "creating" /\ k.doc = l.doc
  BY NextLoading DEF ManagerTyped
<1>2. loads' = (loads \ {l}) \cup {k}
  BY DEF LoadRemoves, AfterRemoval
<1> HIDE DEF k
<1> QED
  BY <1>1, <1>2 DEF LoadRemoves, LoadTurns, Fails, history

\* The load gets a container nobody has had, and the node is in the map with it.
LEMMA LoadCreatesFacts ==
  ASSUME ManagerTyped, NEW l \in loads, LoadCreates(l)
  PROVE  \E k : /\ LoadTurns(l, k) /\ k.phase = "starting" /\ k.container = made + 1
                /\ l.phase = "creating"
                /\ made' = made + 1 /\ containers' = containers \cup {made + 1}
                /\ nodes' = [nodes EXCEPT ![l.doc.id] = made + 1] /\ l.doc.id \in Id
                /\ UNCHANGED <<tenant, docs, request, rollbacks, failures, removed, met>>
<1> DEFINE k == [l EXCEPT !.phase = "starting", !.container = made + 1]
<1>0. made + 1 \in Nat /\ l \in Loading /\ l.doc.id \in Id
  BY DEF ManagerTyped, Loading, Doc
<1>1. k \in Loading /\ k.phase = "starting" /\ k.doc = l.doc /\ k.container = made + 1
  BY <1>0 DEF Loading
<1>2. loads' = (loads \ {l}) \cup {k}
  BY DEF LoadCreates, LoadTo
<1> HIDE DEF k
<1> QED
  BY <1>0, <1>1, <1>2 DEF LoadCreates, LoadTurns, NewContainer, history, faultVars

\* The node of the load has answered.
LEMMA LoadStartedFacts ==
  ASSUME ManagerTyped, NEW l \in loads, LoadStarted(l)
  PROVE  \E k : /\ LoadTurns(l, k) /\ k.phase = "updating" /\ k.container = l.container
                /\ l.phase = "starting" /\ nodes' = [nodes EXCEPT ![l.doc.id] = l.container]
                /\ l.doc.id \in Id
                /\ UNCHANGED <<tenant, docs, containers, made, request, rollbacks, failures, removed, met>>
<1> DEFINE k == [l EXCEPT !.phase = "updating"]
<1>0. l \in Loading /\ l.doc.id \in Id
  BY DEF ManagerTyped, Loading, Doc
<1>1. k \in Loading /\ k.phase = "updating" /\ k.doc = l.doc /\ k.container = l.container
  BY <1>0, NextLoading
<1>2. loads' = (loads \ {l}) \cup {k}
  BY DEF LoadStarted, LoadTo
<1> HIDE DEF k
<1> QED
  BY <1>0, <1>1, <1>2 DEF LoadStarted, LoadTurns, history, faultVars, engineVars

\* The update of a document keeps its identity and its key.
LEMMA LoadUpdatesFacts ==
  ASSUME ManagerTyped, NEW l \in loads, LoadUpdates(l), Bounded
  PROVE  /\ l.phase = "updating" /\ loads' = loads \ {l}
         /\ \A x \in docs : \E y \in docs' : y.id = x.id
         /\ \A y \in docs' : /\ y \in Doc
                             /\ \E x \in docs : /\ y.id = x.id /\ y.key = x.key
                                                /\ y.container \in {x.container, l.container}
         /\ OneDoc => OneDoc'
         /\ OneKey => OneKey'
         /\ UNCHANGED <<nodes, tenant, containers, made, request, rollbacks, failures, removed, met>>
<1> DEFINE U(d) == IF d.key = l.doc.key THEN [d EXCEPT !.container = l.container] ELSE d
<1>1. l.phase = "updating" /\ loads' = loads \ {l} /\ docs' = {U(d) : d \in docs}
  BY DEF LoadUpdates
<1>2. l.container \in Nat
  BY <1>1 DEF Bounded, ManagerTyped
<1>3. \A d \in Doc : LET x == [d EXCEPT !.container = l.container] IN
        x \in Doc /\ x.id = d.id /\ x.key = d.key /\ x.container = l.container
  BY <1>2 DEF Doc
<1>4. \A d \in docs : /\ U(d) \in Doc /\ U(d).id = d.id /\ U(d).key = d.key
                      /\ U(d).container \in {d.container, l.container}
  BY <1>3 DEF ManagerTyped
<1> HIDE DEF U
<1>5. /\ OneDoc => OneDoc'
      /\ OneKey => OneKey'
  BY <1>1, <1>4 DEF OneDoc, OneKey
<1> QED
  BY <1>1, <1>4, <1>5 DEF LoadUpdates, engineVars, faultVars, history

\* What a load that goes on as K, or ends, must show.
LoadStays(l, K, o) ==
  /\ UNCHANGED <<tenant, request, rollbacks>>
  /\ loads' = (loads \ {l}) \cup K
  /\ \A k \in K : /\ k \in Loading /\ k.doc = l.doc
                  /\ k.phase \in {"starting", "updating"} => k.container \in 1..made'
                  /\ k.phase = "starting" => k.doc.id = o /\ k.container = made + 1
  /\ made' \in {made, made + 1} /\ failures' \in Nat /\ containers' \subseteq 1..made'
  /\ nodes' \in [Id -> Nat \cup {Null}]
  /\ \A i \in Id : nodes'[i] # nodes[i] =>
       /\ nodes'[i] \in 1..made'
       /\ \/ Owns(i, nodes'[i])
          \/ i = o /\ nodes'[i] = made + 1
  /\ \A x \in docs : \E y \in docs' : y.id = x.id
  /\ \A y \in docs' : y \in Doc /\ y.key \in 1..made' /\ y.container \in 1..made'

\* Such a load keeps the basic invariant.
LEMMA BasicLoad ==
  ASSUME BasicInv, NEW l \in loads, NEW K, NEW o, LoadStays(l, K, o)
  PROVE  BasicInv'
<1> USE DEF LoadStays
<1>1. Dels' = Dels /\ Active' = Active /\ RollbacksHaveCause' /\ Durable'
  BY LoadKeepsRequests DEF BasicInv, DocsStay
<1>2. tenant = "known"
  BY DEF BasicInv, NothingBefore
<1>3. ManagerTyped'
  BY DEF BasicInv, ManagerTyped
<1>4. 1..made \subseteq 1..made'
  BY DEF BasicInv, ManagerTyped
<1>5. Bounded'
  <2>1. \A i \in Id : nodes'[i] # Null => nodes'[i] \in 1..made'
    BY <1>4 DEF BasicInv, Bounded
  <2>2. \A d \in docs' : d.key \in 1..made' /\ d.container \in 1..made'
    OBVIOUS
  <2>3. \A c \in Client : request'[c].phase \in {"starting", "inserting"} => request'[c].container \in 1..made'
    BY <1>4 DEF BasicInv, Bounded, Phase
  <2>4. \A d \in Dels' : d.container \in 1..made'
    BY <1>1, <1>4 DEF BasicInv, Bounded
  <2>5. \A m \in loads' : /\ m.doc.container \in 1..made'
                          /\ m.phase \in {"starting", "updating"} => m.container \in 1..made'
    BY <1>4 DEF BasicInv, Bounded
  <2> QED
    BY <2>1, <2>2, <2>3, <2>4, <2>5 DEF Bounded, Phase
<1>6. OneOwner'
  <2>1. ASSUME NEW i \in Id, NEW k \in Nat, Owns(i, k)', ~Owns(i, k) PROVE i = o /\ k = made + 1
    BY <1>1, <2>1 DEF Owns, Phase
  <2> QED
    BY <2>1, OwnerStep DEF BasicInv
<1> QED
  BY <1>1, <1>2, <1>3, <1>5, <1>6 DEF BasicInv, NothingBefore

\* The steps of the loads are such.
LEMMA BasicLoads ==
  ASSUME BasicInv, NEW l \in loads, LoadStep(l) \/ LoadFails(l)
  PROVE  BasicInv'
<1>0. ManagerTyped /\ Bounded /\ made \in Nat /\ made + 1 \in Nat
  BY DEF BasicInv, ManagerTyped
<1>1. CASE LoadRemoves(l)
  <2>1. PICK k : /\ LoadTurns(l, k) /\ k.phase = "creating"
                 /\ \/ containers' = containers \ {l.doc.container} /\ failures' = failures
                    \/ containers' = containers /\ failures' = failures + 1
                 /\ UNCHANGED <<nodes, tenant, docs, made, request, rollbacks>>
    BY <1>0, <1>1, LoadRemovesFacts
  <2>2. /\ containers' \subseteq 1..made /\ failures' \in Nat
        /\ \A y \in docs : y \in Doc /\ y.key \in 1..made /\ y.container \in 1..made
        /\ nodes \in [Id -> Nat \cup {Null}]
    <3>1. containers \subseteq 1..made /\ failures \in Nat
      BY <1>0 DEF ManagerTyped, Bounded
    <3>2. containers' \subseteq 1..made /\ failures' \in Nat
      <4>1. containers' \subseteq containers /\ failures' \in {failures, failures + 1}
        BY <2>1, Zenon
      <4> QED
        BY <3>1, <4>1
    <3> QED
      BY <1>0, <3>2 DEF ManagerTyped, Bounded
  <2>3. loads' = (loads \ {l}) \cup {k} /\ k \in Loading /\ k.doc = l.doc
    BY <2>1 DEF LoadTurns
  <2>4. LoadStays(l, {k}, Null)
    BY <2>1, <2>2, <2>3 DEF LoadStays
  <2> QED
    BY <2>4, BasicLoad
<1>2. CASE LoadCreates(l)
  <2>1. PICK k : /\ LoadTurns(l, k) /\ k.phase = "starting" /\ k.container = made + 1
                 /\ made' = made + 1 /\ containers' = containers \cup {made + 1}
                 /\ nodes' = [nodes EXCEPT ![l.doc.id] = made + 1] /\ l.doc.id \in Id
                 /\ UNCHANGED <<tenant, docs, request, rollbacks, failures>>
    BY <1>0, <1>2, LoadCreatesFacts
  <2>2. 1..made \subseteq 1..made' /\ made + 1 \in 1..made'
    BY <1>0, <2>1
  <2>3. /\ containers' \subseteq 1..made' /\ failures' \in Nat
        /\ \A y \in docs : y \in Doc /\ y.key \in 1..made' /\ y.container \in 1..made'
    BY <1>0, <2>1, <2>2 DEF ManagerTyped, Bounded
  <2>4. nodes' \in [Id -> Nat \cup {Null}] /\ \A i \in Id : nodes'[i] # nodes[i] => i = l.doc.id /\ nodes'[i] = made + 1
    BY <1>0, <2>1 DEF ManagerTyped
  <2>5. loads' = (loads \ {l}) \cup {k} /\ k \in Loading /\ k.doc = l.doc
    BY <2>1 DEF LoadTurns
  <2>6. LoadStays(l, {k}, l.doc.id)
    BY <2>1, <2>2, <2>3, <2>4, <2>5 DEF LoadStays
  <2> QED
    BY <2>6, BasicLoad
<1>3. CASE LoadStarted(l)
  <2>1. PICK k : /\ LoadTurns(l, k) /\ k.phase = "updating" /\ k.container = l.container
                 /\ l.phase = "starting" /\ nodes' = [nodes EXCEPT ![l.doc.id] = l.container]
                 /\ l.doc.id \in Id
                 /\ UNCHANGED <<tenant, docs, containers, made, request, rollbacks, failures>>
    BY <1>0, <1>3, LoadStartedFacts
  <2>2. l.container \in 1..made /\ l.container \in Nat
    BY <1>0, <2>1 DEF Bounded
  <2>3. /\ containers' \subseteq 1..made' /\ failures' \in Nat
        /\ \A y \in docs : y \in Doc /\ y.key \in 1..made' /\ y.container \in 1..made'
    BY <1>0, <2>1 DEF ManagerTyped, Bounded
  <2>4. nodes' \in [Id -> Nat \cup {Null}] /\ \A i \in Id : nodes'[i] # nodes[i] => i = l.doc.id /\ nodes'[i] = l.container
    BY <1>0, <2>1, <2>2 DEF ManagerTyped
  <2>5. loads' = (loads \ {l}) \cup {k} /\ k \in Loading /\ k.doc = l.doc
    BY <2>1 DEF LoadTurns
  <2>6. Owns(l.doc.id, l.container)
    BY <2>1 DEF Owns
  <2>7. LoadStays(l, {k}, Null)
    BY <2>1, <2>2, <2>3, <2>4, <2>5, <2>6 DEF LoadStays
  <2> QED
    BY <2>7, BasicLoad
<1>4. CASE LoadUpdates(l)
  <2>1. /\ l.phase = "updating" /\ loads' = loads \ {l}
        /\ \A x \in docs : \E y \in docs' : y.id = x.id
        /\ \A y \in docs' : /\ y \in Doc
                            /\ \E x \in docs : /\ y.key = x.key
                                               /\ y.container \in {x.container, l.container}
        /\ UNCHANGED <<nodes, tenant, containers, made, request, rollbacks, failures>>
    BY <1>0, <1>4, LoadUpdatesFacts
  <2>2. l.container \in 1..made
    BY <1>0, <2>1 DEF Bounded
  <2>3. /\ containers' \subseteq 1..made' /\ failures' \in Nat /\ nodes' \in [Id -> Nat \cup {Null}]
        /\ \A y \in docs' : y \in Doc /\ y.key \in 1..made' /\ y.container \in 1..made'
    BY <1>0, <2>1, <2>2 DEF ManagerTyped, Bounded
  <2>4. loads' = (loads \ {l}) \cup {}
    BY <2>1
  <2>5. LoadStays(l, {}, Null)
    BY <2>1, <2>3, <2>4 DEF LoadStays
  <2> QED
    BY <2>5, BasicLoad
<1>5. CASE LoadFails(l)
  <2>1. loads' = (loads \ {l}) \cup {} /\ failures' = failures + 1
          /\ UNCHANGED <<nodes, tenant, docs, containers, made, request, rollbacks>>
    BY <1>5 DEF LoadFails, Fails, engineVars
  <2>2. /\ containers' \subseteq 1..made' /\ failures' \in Nat /\ nodes' \in [Id -> Nat \cup {Null}]
        /\ \A y \in docs' : y \in Doc /\ y.key \in 1..made' /\ y.container \in 1..made'
    BY <1>0, <2>1 DEF ManagerTyped, Bounded
  <2>3. LoadStays(l, {}, Null)
    BY <2>1, <2>2 DEF LoadStays
  <2> QED
    BY <2>3, BasicLoad
<1> QED
  BY <1>1, <1>2, <1>3, <1>4, <1>5 DEF LoadStep

-----------------------------------------------------------------------------

\* What the turn of a request must show, of which documents, map and containers
\* may be part.
TurnStays(c, o) ==
  /\ Turns(c) /\ Progress /\ ConfirmsWithDoc /\ DocsStay
  /\ UNCHANGED <<tenant, loads>>
  /\ tenant = "known" \/ request'[c].phase \in {"idle", "answered"}
  /\ rollbacks' \subseteq Rollback /\ (rollbacks' # {} => tenant = "known")
  /\ RollbacksHaveCause'
  /\ made' \in {made, made + 1} /\ failures' \in Nat /\ containers' \subseteq 1..made'
  /\ \A y \in docs' : y \in Doc /\ y.key \in 1..made' /\ y.container \in 1..made'
  /\ nodes' \in [Id -> Nat \cup {Null}] /\ (nodes' # nodes => tenant = "known")
  /\ \A i \in Id : nodes'[i] \notin {nodes[i], Null} => Owns(i, nodes'[i])
  /\ request'[c].phase \in {"starting", "inserting"} \cup DelPhases =>
       \/ Owns(request'[c].id, request'[c].container)
       \/ request'[c].id = o /\ request'[c].container = made + 1 /\ made' = made + 1
  /\ \A d \in rollbacks' : Owns(d.id, d.container)

\* Such a turn keeps the basic invariant.
LEMMA BasicTurn ==
  ASSUME BasicInv, NEW c \in Client, NEW o, TurnStays(c, o)
  PROVE  BasicInv'
<1> USE DEF TurnStays
<1>1. request' \in [Client -> Request] /\ \A d \in Client \ {c} : request'[d] = request[d]
  BY DEF Turns
<1>2. Durable'
  BY <1>1, DurableStep DEF BasicInv
<1>3. 1..made \subseteq 1..made' /\ made' \in Nat /\ made + 1 \in 1..(made + 1) /\ made \in Nat
  BY DEF BasicInv, ManagerTyped
<1>4. \A d \in Dels' : \/ d \in Dels
                       \/ d \in rollbacks'
                       \/ d = request'[c] /\ request'[c].phase \in DelPhases
  BY <1>1 DEF Dels, Phase
<1>5. \A i \in Id : \A k \in Nat : Owns(i, k) => k \in 1..made'
  BY <1>3, OwnedBounded DEF BasicInv
<1>6. request'[c].phase \in {"starting", "inserting"} \cup DelPhases =>
        request'[c].id \in Id /\ request'[c].container \in Nat
  BY <1>1, RequestShape DEF DelPhases, AddPhases
<1>7. \A d \in rollbacks' : d.id \in Id /\ d.container \in Nat
  BY DEF Rollback
<1>8. ManagerTyped'
  BY <1>1, <1>3 DEF BasicInv, ManagerTyped
<1>9. Bounded'
  <2>1. \A i \in Id : nodes'[i] # Null => nodes'[i] \in 1..made'
    <3> SUFFICES ASSUME NEW i \in Id, nodes'[i] # Null PROVE nodes'[i] \in 1..made'
      OBVIOUS
    <3>1. nodes'[i] \in Nat
      OBVIOUS
    <3>2. CASE nodes'[i] = nodes[i]
      BY <1>3, <3>2 DEF BasicInv, Bounded
    <3>3. CASE nodes'[i] # nodes[i]
      BY <1>5, <3>1, <3>3
    <3> QED
      BY <3>2, <3>3
  <2>2. request'[c].phase \in {"starting", "inserting"} \cup DelPhases => request'[c].container \in 1..made'
    BY <1>3, <1>5, <1>6
  <2>3. \A d \in Client : request'[d].phase \in {"starting", "inserting"} => request'[d].container \in 1..made'
    BY <1>1, <1>3, <2>2 DEF BasicInv, Bounded, Phase
  <2>4. \A d \in Dels' : d.container \in 1..made'
    BY <1>3, <1>4, <1>5, <1>7, <2>2 DEF BasicInv, Bounded
  <2>5. \A m \in loads' : /\ m.doc.container \in 1..made'
                          /\ m.phase \in {"starting", "updating"} => m.container \in 1..made'
    BY <1>3 DEF BasicInv, Bounded
  <2> QED
    BY <2>1, <2>3, <2>4, <2>5 DEF Bounded, Phase
<1>10. NothingBefore'
  <2> SUFFICES ASSUME tenant # "known"
               PROVE  loads' = {} /\ nodes' = NoNodes /\ rollbacks' = {} /\ Active' = {}
    BY DEF NothingBefore
  <2>1. Active = {}
    BY DEF BasicInv, NothingBefore
  <2>2. \A d \in Client : request'[d].phase \in {"idle", "answered"}
    BY <1>1, <2>1 DEF Active
  <2> QED
    BY <2>2 DEF BasicInv, NothingBefore, Active
<1>11. OneOwner'
  <2>1. ASSUME NEW i \in Id, NEW k \in Nat, Owns(i, k)', ~Owns(i, k) PROVE i = o /\ k = made + 1
    <3>1. CASE nodes'[i] = k
      BY <2>1, <3>1, ManagerAssumption DEF Owns
    <3>2. CASE \E d \in Client : request'[d].phase \in {"starting", "inserting"}
                                   /\ request'[d].id = i /\ request'[d].container = k
      BY <1>1, <2>1, <3>2 DEF Owns, Phase
    <3>3. CASE \E d \in Dels' : d.id = i /\ d.container = k
      BY <1>4, <2>1, <3>3 DEF Owns
    <3>4. CASE \E m \in loads' : m.phase = "starting" /\ m.doc.id = i /\ m.container = k
      BY <2>1, <3>4 DEF Owns
    <3> QED
      BY <2>1, <3>1, <3>2, <3>3, <3>4 DEF Owns, Phase
  <2> QED
    BY <2>1, OwnerStep DEF BasicInv
<1> QED
  BY <1>2, <1>8, <1>9, <1>10, <1>11 DEF BasicInv

\* What the basic invariant says of what a turn leaves alone.
LEMMA BasicFacts ==
  ASSUME BasicInv
  PROVE  /\ made \in Nat /\ failures \in Nat /\ containers \subseteq 1..made
         /\ \A y \in docs : y \in Doc /\ y.key \in 1..made /\ y.container \in 1..made
         /\ nodes \in [Id -> Nat \cup {Null}] /\ rollbacks \subseteq Rollback
         /\ (rollbacks # {} => tenant = "known")
         /\ \A d \in rollbacks : Owns(d.id, d.container)
         /\ \A c \in Client : Phase(c) \in AddPhases \cup DelPhases => tenant = "known"
<1>1. \A d \in rollbacks : d \in Dels
  BY DEF Dels
<1>2. \A c \in Client : Phase(c) \in AddPhases \cup DelPhases => c \in Active
  BY DEF Active, Phase, AddPhases, DelPhases
<1> QED
  BY <1>1, <1>2 DEF BasicInv, ManagerTyped, Bounded, NothingBefore, Owns

\* A turn that leaves the documents alone and confirms nothing.
LEMMA QuietTurn ==
  ASSUME BasicInv, NEW c \in Client, Turns(c), UNCHANGED docs,
         ~(request'[c].phase = "answered" /\ request'[c].op = "add" /\ request'[c].status = 200)
  PROVE  ConfirmsWithDoc /\ DocsStay
BY DEF ConfirmsWithDoc, DocsStay, Turns, Phase

\* A request that begins keeps the basic invariant.
LEMMA BasicAdd ==
  ASSUME BasicInv, NEW c \in Client, NEW i \in Id, Add(c, i) \/ Del(c, i)
  PROVE  BasicInv'
<1>1. ManagerTyped
  BY DEF BasicInv
<1>2. UNCHANGED <<nodes, tenant, docs, containers, made, loads, rollbacks, failures>>
  BY DEF Add, Del, engineVars, faultVars
<1>3. /\ Turns(c) /\ Phase(c) = "idle" /\ request'[c].phase \in {"answered", "creating", "removing"}
      /\ request'[c].phase \in {"creating", "removing"} => tenant = "known"
      /\ request'[c].phase = "removing" => Owns(request'[c].id, request'[c].container)
      /\ ~(request'[c].phase = "answered" /\ request'[c].op = "add" /\ request'[c].status = 200)
  <2>1. CASE Add(c, i)
    BY <1>1, <2>1, AddFacts DEF Phase
  <2>2. CASE Del(c, i)
    BY <1>1, <2>2, DelFacts DEF Phase, Owns
  <2> QED
    BY <2>1, <2>2
<1>4. Progress
  BY <1>3, ProgressOfTurn
<1>5. ConfirmsWithDoc /\ DocsStay
  BY <1>2, <1>3, QuietTurn
<1>6. RollbacksHaveCause'
  BY <1>2, <1>4, CauseStep DEF BasicInv
<1>7. TurnStays(c, Null)
  BY <1>2, <1>3, <1>4, <1>5, <1>6, BasicFacts DEF TurnStays, DelPhases
<1> QED
  BY <1>7, BasicTurn

\* So does an addition that creates its container,
LEMMA BasicAddCreates ==
  ASSUME BasicInv, NEW c \in Client, AddCreates(c)
  PROVE  BasicInv'
<1>2. UNCHANGED <<nodes, tenant, docs, loads, rollbacks, failures>>
  BY DEF AddCreates, faultVars
<1>3. /\ Turns(c) /\ Phase(c) = "creating" /\ request'[c].phase = "starting"
      /\ request'[c].op = "add" /\ request'[c].id = request[c].id
      /\ request'[c].container = made + 1 /\ made' = made + 1
      /\ containers' = containers \cup {made + 1}
  BY AddCreatesFacts DEF BasicInv, Phase
<1>o. request[c].op = "add"
  BY <1>3, RequestShape DEF BasicInv, ManagerTyped, Phase, AddPhases
<1>4. Progress
  BY <1>3, <1>o, ProgressOfTurn
<1>5. ConfirmsWithDoc /\ DocsStay
  BY <1>2, <1>3, QuietTurn
<1>6. RollbacksHaveCause'
  BY <1>2, <1>4, CauseStep DEF BasicInv
<1>7. 1..made \subseteq 1..made' /\ containers' \subseteq 1..made'
  BY <1>3, BasicFacts
<1>8. tenant = "known"
  BY <1>3, BasicFacts DEF AddPhases
<1>9. TurnStays(c, request[c].id)
  BY <1>2, <1>3, <1>4, <1>5, <1>6, <1>7, <1>8, BasicFacts DEF TurnStays, DelPhases
<1> QED
  BY <1>9, BasicTurn

\* one that maps its node,
LEMMA BasicAddStarted ==
  ASSUME BasicInv, NEW c \in Client, AddStarted(c)
  PROVE  BasicInv'
<1>2. UNCHANGED <<tenant, docs, containers, made, loads, rollbacks, failures>>
  BY DEF AddStarted, engineVars, faultVars
<1>3. /\ Turns(c) /\ Phase(c) = "starting" /\ request'[c].phase = "inserting"
      /\ request'[c].op = "add" /\ request'[c].id = request[c].id
      /\ request'[c].container = request[c].container
      /\ nodes' = [nodes EXCEPT ![request[c].id] = request[c].container]
  BY AddStartedFacts DEF BasicInv, Phase
<1>o. request[c].op = "add" /\ request[c].id \in Id /\ request[c].container \in Nat
  BY <1>3, RequestShape DEF BasicInv, ManagerTyped, Phase, AddPhases
<1>4. Progress
  BY <1>3, <1>o, ProgressOfTurn
<1>5. ConfirmsWithDoc /\ DocsStay
  BY <1>2, <1>3, QuietTurn
<1>6. RollbacksHaveCause'
  BY <1>2, <1>4, CauseStep DEF BasicInv
<1>7. Owns(request[c].id, request[c].container)
  BY <1>3 DEF Owns
<1>8. tenant = "known"
  BY <1>3, BasicFacts DEF AddPhases
<1>9. nodes' \in [Id -> Nat \cup {Null}] /\ \A i \in Id : nodes'[i] # nodes[i] => i = request[c].id /\ nodes'[i] = request[c].container
  BY <1>3, <1>o, BasicFacts
<1>10. TurnStays(c, Null)
  BY <1>2, <1>3, <1>4, <1>5, <1>6, <1>7, <1>8, <1>9, BasicFacts DEF TurnStays, DelPhases
<1> QED
  BY <1>10, BasicTurn

\* one that is confirmed,
LEMMA BasicAddInserts ==
  ASSUME BasicInv, NEW c \in Client, AddInserts(c)
  PROVE  BasicInv'
<1> DEFINE y == [key |-> request[c].container, id |-> request[c].id, container |-> request[c].container]
<1>2. UNCHANGED <<nodes, tenant, containers, made, loads, rollbacks, failures>> /\ docs' = docs \cup {y}
  BY DEF AddInserts, engineVars, faultVars
<1>3. /\ Turns(c) /\ Phase(c) = "inserting" /\ request'[c].phase = "answered"
      /\ request'[c].op = "add" /\ request'[c].id = request[c].id /\ request'[c].status = 200
      /\ request[c].container \in Nat /\ request[c].id \in Id
  BY AddInsertsFacts DEF BasicInv, Phase
<1>o. request[c].op = "add" /\ request[c].container \in 1..made
  BY <1>3, RequestShape DEF BasicInv, ManagerTyped, Phase, AddPhases, Bounded
<1>y. /\ y \in Doc /\ y.key \in 1..made /\ y.container \in 1..made /\ y.id = request[c].id
  BY <1>3, <1>o DEF Doc
<1> HIDE DEF y
<1>4. Progress
  BY <1>3, <1>o, ProgressOfTurn
<1>5. ConfirmsWithDoc /\ DocsStay
  BY <1>2, <1>3, <1>y DEF ConfirmsWithDoc, DocsStay, Turns, Phase
<1>6. RollbacksHaveCause'
  BY <1>2, <1>4, CauseStep DEF BasicInv
<1>7. TurnStays(c, Null)
  BY <1>2, <1>3, <1>4, <1>5, <1>6, <1>y, BasicFacts DEF TurnStays, DelPhases
<1> QED
  BY <1>7, BasicTurn

\* The rollback of an addition that was refused.
LEMMA MisnamedRollback ==
  ASSUME ManagerTyped, NEW c \in Client, AddMisnamed(c)
  PROVE  /\ UNCHANGED <<nodes, tenant, docs, containers, made, loads, removed, met>>
         /\ \/ rollbacks' = rollbacks
            \/ \E d \in Rollback : /\ d.id = request[c].id /\ d.phase = "removing"
                                   /\ d.container = nodes[d.id] /\ d.container # Null
                                   /\ rollbacks' = rollbacks \cup {d}
<1>1. request[c].id \in Id
  BY RequestShape DEF ManagerTyped, AddMisnamed, AddPhases
<1> DEFINE d == [id |-> request[c].id, phase |-> "removing", container |-> nodes[request[c].id]]
<1>2. nodes[request[c].id] # Null => d \in Rollback
  BY <1>1 DEF ManagerTyped, Rollback
<1>3. d.id = request[c].id /\ d.phase = "removing" /\ d.container = nodes[request[c].id]
  OBVIOUS
<1>4. rollbacks' = IF nodes[request[c].id] = Null THEN rollbacks ELSE rollbacks \cup {d}
  BY DEF AddMisnamed
<1> HIDE DEF d
<1> QED
  BY <1>2, <1>3, <1>4 DEF AddMisnamed, engineVars, history

\* and one that fails, with or without a rollback.
LEMMA BasicAddRefused ==
  ASSUME BasicInv, NEW c \in Client, AddMisnamed(c) \/ AddFails(c)
  PROVE  BasicInv'
<1>1. ManagerTyped
  BY DEF BasicInv
<1>2. UNCHANGED <<nodes, tenant, docs, containers, made, loads>>
  BY DEF AddMisnamed, AddFails, engineVars
<1>3. /\ Turns(c) /\ Phase(c) \in AddPhases /\ request'[c].phase = "answered"
      /\ request'[c].op = "add" /\ request'[c].id = request[c].id /\ request'[c].status = 500
      /\ failures' = failures + 1 /\ request[c].id \in Id
  BY <1>1, AddRefusedFacts DEF Phase
<1>o. request[c].op = "add" /\ Phase(c) # "answered" /\ tenant = "known"
  BY <1>1, <1>3, RequestShape, BasicFacts DEF ManagerTyped, Phase, AddPhases
<1>4. Progress
  BY <1>3, <1>o, ProgressOfTurn
<1>5. ConfirmsWithDoc /\ DocsStay
  BY <1>2, <1>3, QuietTurn
<1>6. /\ \A d \in rollbacks' : d \notin rollbacks => d.id = request[c].id /\ nodes[d.id] = d.container
      /\ rollbacks' \subseteq Rollback
  <2>1. CASE AddMisnamed(c)
    BY <1>1, <2>1, MisnamedRollback, BasicFacts
  <2>2. CASE AddFails(c)
    BY <2>2, BasicFacts DEF AddFails
  <2> QED
    BY <2>1, <2>2
<1>7. RollbacksHaveCause'
  <2>1. ASSUME NEW i, i = request[c].id PROVE Cause(c, i)'
    BY <1>3, <2>1 DEF Cause, Phase
  <2>2. \A d \in rollbacks' : (\E e \in rollbacks : e.id = d.id) \/ \E b \in Client : Cause(b, d.id)'
    <3> SUFFICES ASSUME NEW d \in rollbacks', d \notin rollbacks PROVE Cause(c, d.id)'
      OBVIOUS
    <3> QED
      BY <1>6, <2>1
  <2> QED
    BY <1>4, <2>2, CauseStep DEF BasicInv
<1>8. \A d \in rollbacks' : Owns(d.id, d.container)
  BY <1>6, BasicFacts DEF Owns
<1>9. failures' \in Nat
  BY <1>3, BasicFacts
<1>10. TurnStays(c, Null)
  BY <1>2, <1>3, <1>4, <1>5, <1>6, <1>7, <1>8, <1>9, <1>o, BasicFacts DEF TurnStays, DelPhases
<1> QED
  BY <1>10, BasicTurn

\* A step of a deletion: nothing that runs or is mapped is new.
LEMMA DeletionShrinks ==
  ASSUME BasicInv, NEW d, NEW e, GoesOnAs(d, e)
  PROVE  /\ containers' \subseteq containers /\ docs' = docs /\ failures' \in {failures, failures + 1}
         /\ nodes' \in [Id -> Nat \cup {Null}] /\ \A i \in Id : nodes'[i] \in {nodes[i], Null}
<1>1. nodes' = nodes \/ nodes' = [nodes EXCEPT ![d.id] = Null]
  BY DEF GoesOnAs, DelRemoves, DelUnmaps, Unmapped
<1>2. nodes' \in [Id -> Nat \cup {Null}] /\ \A i \in Id : nodes'[i] \in {nodes[i], Null}
  BY <1>1, BasicFacts
<1>3. CASE DelRemoves(d, e)
  BY <1>2, <1>3 DEF DelRemoves, Fails
<1>4. CASE DelUnmaps(d, e)
  BY <1>2, <1>4 DEF DelUnmaps
<1> QED
  BY <1>3, <1>4 DEF GoesOnAs

\* So does a deletion that goes on,
LEMMA BasicDelStep ==
  ASSUME BasicInv, NEW c \in Client, DelStep(c)
  PROVE  BasicInv'
<1>1. /\ Turns(c) /\ GoesOnAs(request[c], request'[c])
      /\ Phase(c) \in DelPhases /\ request'[c].phase \in DelPhases /\ request'[c].op = "del"
  BY DelStepFacts DEF BasicInv, Phase
<1>2. UNCHANGED <<tenant, made, loads, rollbacks>>
  BY DEF DelStep
<1>3. /\ containers' \subseteq containers /\ docs' = docs /\ failures' \in {failures, failures + 1}
      /\ nodes' \in [Id -> Nat \cup {Null}] /\ \A i \in Id : nodes'[i] \in {nodes[i], Null}
  BY <1>1, DeletionShrinks
<1>4. request[c].op = "del" /\ tenant = "known" /\ Phase(c) # "answered"
  BY <1>1, RequestShape, BasicFacts DEF BasicInv, ManagerTyped, Phase, DelPhases
<1>5. request'[c].id = request[c].id /\ request'[c].container = request[c].container
  BY <1>1 DEF GoesOnAs
<1>6. Progress
  BY <1>1, <1>4, <1>5, ProgressOfTurn DEF DelPhases
<1>7. ConfirmsWithDoc /\ DocsStay
  BY <1>1, <1>3, QuietTurn
<1>8. RollbacksHaveCause'
  BY <1>2, <1>6, CauseStep DEF BasicInv
<1>9. Owns(request[c].id, request[c].container)
  BY <1>1 DEF Owns, Dels
<1>10. TurnStays(c, Null)
  BY <1>1, <1>2, <1>3, <1>4, <1>5, <1>6, <1>7, <1>8, <1>9, BasicFacts DEF TurnStays
<1> QED
  BY <1>10, BasicTurn

\* and one that is confirmed.
LEMMA BasicDelEnds ==
  ASSUME BasicInv, NEW c \in Client, DelEnds(c)
  PROVE  BasicInv'
<1>1. /\ Turns(c) /\ Phase(c) = "deleting" /\ request'[c].phase = "answered"
      /\ request'[c].op = "del" /\ request'[c].id = request[c].id
  BY DelEndsFacts DEF BasicInv, Phase
<1>2. UNCHANGED <<nodes, tenant, containers, made, loads, rollbacks, failures>>
  BY DEF DelEnds, engineVars, faultVars
<1>3. docs' \subseteq docs /\ \A x \in docs \ docs' : x.id = request[c].id
  BY DeletesOne DEF DelEnds
<1>4. request[c].op = "del"
  BY <1>1, RequestShape DEF BasicInv, ManagerTyped, Phase, DelPhases
<1>5. Progress
  BY <1>1, <1>4, ProgressOfTurn
<1>6. ConfirmsWithDoc
  BY <1>1 DEF ConfirmsWithDoc, Turns, Phase
<1>7. DocsStay
  BY <1>1, <1>3 DEF DocsStay
<1>8. RollbacksHaveCause'
  BY <1>2, <1>5, CauseStep DEF BasicInv
<1>9. TurnStays(c, Null)
  BY <1>1, <1>2, <1>3, <1>5, <1>6, <1>7, <1>8, BasicFacts DEF TurnStays, DelPhases
<1> QED
  BY <1>9, BasicTurn

\* A rollback goes on beside the requests; that of its own has been answered.
LEMMA BasicRollback ==
  ASSUME BasicInv, NEW d \in rollbacks, RollbackStep(d) \/ RollbackEnds(d)
  PROVE  BasicInv'
<1>1. PICK c \in Client : Cause(c, d.id)
  BY DEF BasicInv, RollbacksHaveCause
<1>2. request' = request /\ UNCHANGED <<tenant, made, loads>> /\ tenant = "known"
  BY BasicFacts DEF RollbackStep, RollbackEnds, engineVars
<1>3. Turns(c) /\ Progress /\ ConfirmsWithDoc
  BY <1>2 DEF Turns, Progress, ConfirmsWithDoc, Phase, BasicInv, ManagerTyped
<1>4. /\ \A x \in rollbacks' : /\ x \in Rollback
                               /\ \E e \in rollbacks : e.id = x.id /\ e.container = x.container
      /\ containers' \subseteq containers /\ failures' \in {failures, failures + 1}
      /\ nodes' \in [Id -> Nat \cup {Null}] /\ \A i \in Id : nodes'[i] \in {nodes[i], Null}
      /\ docs' \subseteq docs /\ \A x \in docs \ docs' : x.id = d.id
  <2>1. CASE RollbackStep(d)
    <3>1. PICK e \in Rollback : GoesOnAs(d, e) /\ rollbacks' = (rollbacks \ {d}) \cup {e}
      BY <2>1, RollbackStepFacts DEF BasicInv
    <3>2. e.id = d.id /\ e.container = d.container
      BY <3>1 DEF GoesOnAs
    <3>3. \A x \in rollbacks' : /\ x \in Rollback
                                /\ \E y \in rollbacks : y.id = x.id /\ y.container = x.container
      BY <3>1, <3>2, BasicFacts
    <3> QED
      BY <3>1, <3>3, DeletionShrinks
  <2>2. CASE RollbackEnds(d)
    BY <2>2, DeletesOne, BasicFacts DEF RollbackEnds, engineVars, faultVars
  <2> QED
    BY <2>1, <2>2
<1>5. DocsStay
  <2>1. request'[c].phase = "answered" /\ request'[c].id = d.id /\ request'[c].status = 500
    BY <1>1, <1>2 DEF Cause, Phase
  <2> QED
    BY <1>4, <2>1 DEF DocsStay
<1>6. RollbacksHaveCause'
  BY <1>3, <1>4, CauseStep DEF BasicInv
<1>7. request'[c].phase = "answered"
  BY <1>1, <1>2 DEF Cause, Phase
<1>8. \A x \in rollbacks' : Owns(x.id, x.container)
  BY <1>4, BasicFacts
<1>9. TurnStays(c, Null)
  BY <1>2, <1>3, <1>4, <1>5, <1>6, <1>7, <1>8, BasicFacts DEF TurnStays, DelPhases
<1> QED
  BY <1>9, BasicTurn

\* Every step keeps the basic invariant.
LEMMA BasicStep == BasicInv /\ [Next]_vars => BasicInv'
<1> SUFFICES ASSUME BasicInv, [Next]_vars PROVE BasicInv'
  OBVIOUS
<1>1. CASE UNCHANGED vars
  <2>1. UNCHANGED <<nodes, tenant, docs, containers, made, loads, request, rollbacks, failures>>
    BY <1>1 DEF vars, engineVars, faultVars
  <2>2. Dels' = Dels /\ Active' = Active /\ RollbacksHaveCause' /\ Durable'
    BY <2>1, LoadKeepsRequests DEF BasicInv, DocsStay
  <2>3. OneOwner'
    BY <2>1, <2>2 DEF BasicInv, OneOwner, Owns, Phase
  <2> QED
    BY <2>1, <2>2, <2>3 DEF BasicInv, ManagerTyped, Bounded, NothingBefore, Phase
<1>2. CASE Crash \/ \E c \in Client : DelTooEarly(c)
  <2>1. Restart /\ UNCHANGED <<docs, containers, made, failures>>
    BY <1>2 DEF Crash, DelTooEarly, engineVars
  <2> QED
    BY <2>1, BasicRestart
<1>3. CASE \E c \in Client : RequestStep(c) \/ AddMisnamed(c) \/ AddFails(c) \/ \E i \in Id : Add(c, i) \/ Del(c, i)
  BY <1>3, BasicAdd, BasicAddCreates, BasicAddStarted, BasicAddInserts, BasicAddRefused, BasicDelStep,
     BasicDelEnds DEF RequestStep
<1> QED
  BY <1>1, <1>2, <1>3, BasicTenant, BasicFindNodes, BasicLoads, BasicRollback DEF Next

-----------------------------------------------------------------------------
(* The keys of the documents *)

\* No container and no document is new.
LEMMA KeysKept ==
  ASSUME KeysInv, docs' \subseteq docs,
         \A c \in Client : request'[c].phase \in NewPhases =>
           Phase(c) \in NewPhases /\ request'[c].container = request[c].container
  PROVE  KeysInv'
BY DEF KeysInv, OneKey, Phase

\* Every step keeps the keys apart.
LEMMA KeysStep == BasicInv /\ KeysInv /\ [Next]_vars => KeysInv'
<1> SUFFICES ASSUME BasicInv, KeysInv, [Next]_vars PROVE KeysInv'
  OBVIOUS
<1>0. ManagerTyped /\ Bounded
  BY DEF BasicInv
<1>1. CASE UNCHANGED vars \/ AddTenant \/ FindNodes
  BY <1>1, KeysKept DEF vars, AddTenant, FindNodes, Phase
<1>2. CASE Crash \/ \E c \in Client : DelTooEarly(c)
  <2>1. Restart /\ docs' = docs
    BY <1>2 DEF Crash, DelTooEarly
  <2>2. \A c \in Client : request'[c].phase \notin NewPhases
    BY <1>0, <2>1, RestartFacts, RequestShape DEF ManagerTyped, NewPhases
  <2> QED
    BY <2>1, <2>2, KeysKept
<1>3. ASSUME NEW l \in loads, LoadStep(l) \/ LoadFails(l) PROVE KeysInv'
  <2>1. request' = request
    BY <1>3 DEF LoadStep, LoadFails, LoadRemoves, LoadCreates, LoadStarted, LoadUpdates
  <2>2. CASE LoadUpdates(l)
    <3>1. /\ OneKey'
          /\ \A y \in docs' : \E x \in docs : y.key = x.key
      BY <1>0, <2>2, LoadUpdatesFacts DEF KeysInv
    <3> QED
      BY <2>1, <3>1 DEF KeysInv, Phase
  <2>3. CASE ~LoadUpdates(l)
    <3>1. docs' = docs
      BY <1>3, <2>3 DEF LoadStep, LoadFails, LoadRemoves, LoadCreates, LoadStarted
    <3> QED
      BY <2>1, <3>1, KeysKept DEF Phase
  <2> QED
    BY <2>2, <2>3
<1>4. ASSUME NEW c \in Client, NEW i \in Id, Add(c, i) \/ Del(c, i) PROVE KeysInv'
  <2>1. docs' = docs
    BY <1>4 DEF Add, Del
  <2>2. Turns(c) /\ request'[c].phase \notin NewPhases
    BY <1>0, <1>4, AddFacts, DelFacts DEF NewPhases
  <2> QED
    BY <2>1, <2>2, KeysKept DEF Turns, Phase
<1>5. ASSUME NEW c \in Client, AddCreates(c) PROVE KeysInv'
  <2>1. /\ Turns(c) /\ request'[c].container = made + 1 /\ docs' = docs
    BY <1>0, <1>5, AddCreatesFacts DEF AddCreates
  <2>2. /\ \A d \in docs : d.key # made + 1
        /\ \A b \in Client : Phase(b) \in NewPhases => request[b].container # made + 1
    BY <1>0 DEF ManagerTyped, Bounded, NewPhases
  <2>3. \A b \in Client \ {c} : request'[b] = request[b]
    BY <2>1 DEF Turns
  <2> QED
    BY <2>1, <2>2, <2>3 DEF KeysInv, OneKey, Phase
<1>6. ASSUME NEW c \in Client, AddInserts(c) PROVE KeysInv'
  <2>1. Turns(c) /\ Phase(c) \in NewPhases /\ request'[c].phase \notin NewPhases
    BY <1>0, <1>6, AddInsertsFacts DEF NewPhases, Phase
  <2>2. PICK x : x.key = request[c].container /\ docs' = docs \cup {x}
    BY <1>6 DEF AddInserts
  <2>3. \A b \in Client \ {c} : request'[b] = request[b]
    BY <2>1 DEF Turns
  <2> QED
    BY <2>1, <2>2, <2>3 DEF KeysInv, OneKey, Phase
<1>7. ASSUME NEW c \in Client, AddStarted(c) \/ AddMisnamed(c) \/ AddFails(c) \/ DelStep(c) \/ DelEnds(c)
      PROVE  KeysInv'
  <2>1. CASE AddStarted(c)
    BY <1>0, <2>1, AddStartedFacts, KeysKept DEF Turns, Phase, NewPhases, AddStarted
  <2>2. CASE AddMisnamed(c) \/ AddFails(c)
    <3>1. docs' = docs
      BY <2>2 DEF AddMisnamed, AddFails
    <3>2. Turns(c) /\ request'[c].phase \notin NewPhases
      BY <1>0, <2>2, AddRefusedFacts DEF NewPhases
    <3> QED
      BY <3>1, <3>2, KeysKept DEF Turns, Phase
  <2>3. CASE DelStep(c)
    <3>1. Turns(c) /\ GoesOnAs(request[c], request'[c]) /\ request'[c].phase \in DelPhases
      BY <1>0, <2>3, DelStepFacts
    <3>2. docs' = docs /\ request'[c].phase \notin NewPhases
      BY <3>1, DeletionShrinks DEF DelPhases, NewPhases
    <3> QED
      BY <3>1, <3>2, KeysKept DEF Turns, Phase
  <2>4. CASE DelEnds(c)
    <3>1. Turns(c) /\ request'[c].phase = "answered"
      BY <1>0, <2>4, DelEndsFacts
    <3>2. docs' \subseteq docs
      BY <2>4, DeletesOne DEF DelEnds
    <3> QED
      BY <3>1, <3>2, KeysKept DEF Turns, Phase, NewPhases
  <2> QED
    BY <1>7, <2>1, <2>2, <2>3, <2>4
<1>8. ASSUME NEW d \in rollbacks, RollbackStep(d) \/ RollbackEnds(d) PROVE KeysInv'
  <2>1. request' = request /\ docs' \subseteq docs
    BY <1>8, DeletesOne DEF RollbackStep, RollbackEnds, DelRemoves, DelUnmaps
  <2> QED
    BY <2>1, KeysKept DEF Phase
<1> QED
  BY <1>1, <1>2, <1>3, <1>4, <1>5, <1>6, <1>7, <1>8 DEF Next, RequestStep

-----------------------------------------------------------------------------
(* The map and the containers *)

\* What requests have met is not forgotten.
LEMMA MetGrows == [Next]_vars => met \subseteq met' /\ (failures \in Nat => failures' \in Nat /\ (failures' = 0 => failures = 0))
<1> SUFFICES ASSUME [Next]_vars
             PROVE  met \subseteq met' /\ (failures \in Nat => failures' \in Nat /\ (failures' = 0 => failures = 0))
  OBVIOUS
<1>0. ASSUME failures' \in {failures, failures + 1}
      PROVE  failures \in Nat => failures' \in Nat /\ (failures' = 0 => failures = 0)
  BY <1>0
<1>1. CASE UNCHANGED vars \/ AddTenant \/ FindNodes \/ Crash
  BY <1>1 DEF vars, faultVars, history, AddTenant, FindNodes, Crash
<1>2. CASE \E l \in loads : LoadStep(l) \/ LoadFails(l)
  BY <1>0, <1>2 DEF LoadStep, LoadFails, LoadRemoves, LoadCreates, LoadStarted, LoadUpdates, Fails, faultVars, history
<1>3. CASE \E c \in Client : DelTooEarly(c) \/ \E i \in Id : Add(c, i) \/ Del(c, i)
  BY <1>3 DEF DelTooEarly, Add, Del, Admitted, faultVars
<1>4. CASE \E c \in Client : RequestStep(c) \/ AddMisnamed(c) \/ AddFails(c)
  BY <1>0, <1>4 DEF RequestStep, AddMisnamed, AddFails, AddCreates, AddStarted, AddInserts, DelStep, DelEnds,
     DelRemoves, DelUnmaps, Fails, faultVars, history
<1>5. CASE \E d \in rollbacks : RollbackStep(d) \/ RollbackEnds(d)
  BY <1>0, <1>5 DEF RollbackStep, RollbackEnds, DelRemoves, DelUnmaps, Fails, faultVars, history
<1> QED
  BY <1>1, <1>2, <1>3, <1>4, <1>5 DEF Next

\* Beside no load: what a step of requests and rollbacks that maps and starts
\* nothing must show.
LEMMA MapTurn ==
  ASSUME BasicInv, MapInv, loads' = {},
         \A c \in Client : request'[c].phase = "starting" =>
           request'[c] = request[c] /\ request[c].container \in containers',
         \A x \in Dels' : \/ \E y \in Dels : y.container = x.container
                          \/ \E i \in Id : nodes[i] = x.container,
         \A i \in Id : nodes'[i] \in {nodes[i], Null},
         \A i \in Id : nodes'[i] # Null => Runs(i)'
  PROVE  MapInv'
<1>1. StartingRuns'
  <2>1. ASSUME NEW c \in Client, request'[c].phase = "starting"
        PROVE  /\ request'[c] = request[c] /\ Phase(c) = "starting"
               /\ request[c].container \in containers'
               /\ \A x \in Dels' : x.container # request[c].container
               /\ \A i \in Id : nodes'[i] # request[c].container
    <3>1. request'[c] = request[c] /\ Phase(c) = "starting" /\ request[c].container \in containers'
      BY <2>1 DEF Phase
    <3>2. \A i \in Id : nodes[i] # request[c].container
      BY <3>1 DEF MapInv, StartingRuns
    <3>3. \A y \in Dels : y.container # request[c].container
      BY <3>1 DEF MapInv, StartingRuns, Doomed
    <3>4. request[c].container # Null
      BY <3>1, RequestShape, ManagerAssumption DEF BasicInv, ManagerTyped, Phase
    <3> QED
      BY <3>1, <3>2, <3>3, <3>4
  <2>2. ASSUME NEW c \in Client, request'[c].phase = "starting",
               NEW d \in Client, request'[d].phase = "starting", request'[c].container = request'[d].container
        PROVE  d = c
    BY <2>1, <2>2 DEF MapInv, StartingRuns
  <2> QED
    BY <2>1, <2>2 DEF StartingRuns, Phase, Doomed
<1> QED
  BY <1>1 DEF MapInv, LoadsAlone

\* A node runs as it did unless its deletion, or the container, is gone.
LEMMA RunsKept ==
  ASSUME NEW i \in Id, Runs(i), nodes'[i] = nodes[i], containers \subseteq containers',
         \A x \in Dels : x.phase = "unmapping" => x \in Dels'
  PROVE  Runs(i)'
BY DEF Runs

\* An active request or rollback is beside no load.
LEMMA NoLoads ==
  ASSUME MapInv
  PROVE  /\ \A c \in Client : Phase(c) \in AddPhases \cup DelPhases => loads = {}
         /\ rollbacks # {} => loads = {}
BY DEF MapInv, LoadsAlone, Active, AddPhases, DelPhases, Phase

\* A request that begins keeps the map in agreement with the containers.
LEMMA MapAdd ==
  ASSUME BasicInv, MapInv, NEW c \in Client, NEW i \in Id, Add(c, i) \/ Del(c, i), "loads" \notin met'
  PROVE  MapInv'
<1>1. ManagerTyped
  BY DEF BasicInv
<1>2. UNCHANGED <<nodes, containers, loads, rollbacks>>
  BY DEF Add, Del, engineVars
<1>3. loads = {}
  BY DEF Add, Del, Admitted
<1>4. /\ Turns(c) /\ Phase(c) = "idle" /\ request'[c].phase \in {"answered", "creating", "removing"}
      /\ request'[c].phase = "removing" => nodes[i] = request'[c].container
  <2>1. CASE Add(c, i)
    BY <1>1, <2>1, AddFacts DEF Phase
  <2>2. CASE Del(c, i)
    BY <1>1, <2>2, DelFacts DEF Phase
  <2> QED
    BY <2>1, <2>2
<1>5. /\ \A x \in Dels' : x \in Dels \/ nodes[i] = x.container
      /\ Dels \subseteq Dels'
  BY <1>2, <1>4, DelsAfter DEF DelPhases
<1>6. \A d \in Client : request'[d].phase = "starting" => request'[d] = request[d] /\ request[d].container \in containers'
  BY <1>2, <1>4 DEF Turns, Phase, MapInv, StartingRuns
<1>7. \A j \in Id : nodes'[j] # Null => Runs(j)'
  BY <1>2, <1>5, RunsKept DEF MapInv
<1> QED
  BY <1>2, <1>3, <1>5, <1>6, <1>7, MapTurn

\* So does an addition that creates its container: it is not about to be removed,
LEMMA MapAddCreates ==
  ASSUME BasicInv, MapInv, NEW c \in Client, AddCreates(c)
  PROVE  MapInv'
<1>2. UNCHANGED <<nodes, loads, rollbacks>>
  BY DEF AddCreates
<1>3. /\ Turns(c) /\ Phase(c) = "creating" /\ request'[c].phase = "starting"
      /\ request'[c].container = made + 1 /\ containers' = containers \cup {made + 1}
  BY AddCreatesFacts DEF BasicInv, Phase
<1>4. loads = {}
  BY <1>3, NoLoads DEF AddPhases
<1>5. Dels' = Dels
  BY <1>2, <1>3, DelsUnchanged DEF DelPhases
<1>6. /\ \A i \in Id : nodes[i] # made + 1
      /\ \A x \in Dels : x.container # made + 1
      /\ \A d \in Client : Phase(d) = "starting" => request[d].container # made + 1
  BY ManagerAssumption DEF BasicInv, ManagerTyped, Bounded
<1>7. \A j \in Id : nodes'[j] # Null => Runs(j)'
  BY <1>2, <1>3, <1>5, RunsKept DEF MapInv
<1>8. \A d \in Client \ {c} : request'[d] = request[d]
  BY <1>3 DEF Turns
<1>9. StartingRuns'
  <2>1. ASSUME NEW d \in Client, request'[d].phase = "starting"
        PROVE  /\ request'[d].container \in containers'
               /\ \A x \in Dels' : x.container # request'[d].container
               /\ \A i \in Id : nodes'[i] # request'[d].container
               /\ d # c => Phase(d) = "starting" /\ request'[d] = request[d] /\ request'[d].container # made + 1
    BY <1>2, <1>3, <1>5, <1>6, <1>8, <2>1 DEF MapInv, StartingRuns, Doomed, Phase
  <2>2. ASSUME NEW d \in Client, NEW e \in Client, request'[d].phase = "starting", request'[e].phase = "starting",
               request'[d].container = request'[e].container
        PROVE  e = d
    BY <1>3, <2>1, <2>2 DEF MapInv, StartingRuns
  <2> QED
    BY <1>2, <1>4, <2>1, <2>2 DEF StartingRuns, Doomed, Phase
<1> QED
  BY <1>2, <1>4, <1>7, <1>9 DEF MapInv, LoadsAlone

\* one that maps its node: its container still runs,
LEMMA MapAddStarted ==
  ASSUME BasicInv, MapInv, NEW c \in Client, AddStarted(c)
  PROVE  MapInv'
<1>2. UNCHANGED <<containers, loads, rollbacks>>
  BY DEF AddStarted, engineVars
<1>3. /\ Turns(c) /\ Phase(c) = "starting" /\ request'[c].phase = "inserting"
      /\ nodes' = [nodes EXCEPT ![request[c].id] = request[c].container]
  BY AddStartedFacts DEF BasicInv, Phase
<1>4. loads = {}
  BY <1>3, NoLoads DEF AddPhases
<1>5. Dels' = Dels
  BY <1>2, <1>3, DelsUnchanged DEF DelPhases
<1>6. \A i \in Id : \/ nodes'[i] = nodes[i]
                    \/ nodes'[i] = request[c].container
  BY <1>3 DEF BasicInv, ManagerTyped
<1>7. request[c].container \in containers
  BY <1>3 DEF MapInv, StartingRuns
<1>8. \A j \in Id : nodes'[j] # Null => Runs(j)'
  <2> SUFFICES ASSUME NEW j \in Id, nodes'[j] # Null PROVE Runs(j)'
    OBVIOUS
  <2>1. CASE nodes'[j] = nodes[j]
    BY <1>2, <1>5, <2>1, RunsKept DEF MapInv
  <2>2. CASE nodes'[j] = request[c].container
    BY <1>2, <1>7, <2>2 DEF Runs
  <2> QED
    BY <1>6, <2>1, <2>2
<1>9. \A d \in Client : request'[d].phase = "starting" => d # c /\ request'[d] = request[d]
  BY <1>3 DEF Turns
<1>10. StartingRuns'
  <2>1. ASSUME NEW d \in Client, request'[d].phase = "starting"
        PROVE  /\ request'[d].container \in containers'
               /\ \A x \in Dels' : x.container # request'[d].container
               /\ \A i \in Id : nodes'[i] # request'[d].container
    BY <1>2, <1>3, <1>5, <1>6, <1>9, <2>1 DEF MapInv, StartingRuns, Doomed, Phase
  <2>2. ASSUME NEW d \in Client, NEW e \in Client, request'[d].phase = "starting", request'[e].phase = "starting",
               request'[d].container = request'[e].container
        PROVE  e = d
    BY <1>9, <2>2 DEF MapInv, StartingRuns, Phase
  <2> QED
    BY <1>2, <1>4, <2>1, <2>2 DEF StartingRuns, Doomed, Phase
<1> QED
  BY <1>2, <1>4, <1>8, <1>10 DEF MapInv, LoadsAlone

\* and one that ends: a rollback takes a container that is in the map.
LEMMA MapAddEnds ==
  ASSUME BasicInv, MapInv, NEW c \in Client, AddInserts(c) \/ AddMisnamed(c) \/ AddFails(c)
  PROVE  MapInv'
<1>1. ManagerTyped
  BY DEF BasicInv
<1>2. UNCHANGED <<nodes, containers, loads>>
  BY DEF AddInserts, AddMisnamed, AddFails, engineVars
<1>3. Turns(c) /\ Phase(c) \in AddPhases /\ request'[c].phase = "answered"
  <2>1. CASE AddInserts(c)
    BY <1>1, <2>1, AddInsertsFacts DEF Phase, AddPhases
  <2>2. CASE AddMisnamed(c) \/ AddFails(c)
    BY <1>1, <2>2, AddRefusedFacts DEF Phase
  <2> QED
    BY <2>1, <2>2
<1>4. loads = {}
  BY <1>3, NoLoads
<1>5. rollbacks \subseteq rollbacks' /\ \A d \in rollbacks' \ rollbacks : \E i \in Id : nodes[i] = d.container
  <2>1. CASE AddMisnamed(c)
    BY <1>1, <2>1, MisnamedRollback DEF Rollback
  <2>2. CASE AddInserts(c) \/ AddFails(c)
    BY <2>2 DEF AddInserts, AddFails
  <2> QED
    BY <2>1, <2>2
<1>6. /\ Dels \subseteq Dels'
      /\ \A x \in Dels' : x \in Dels \/ x \in rollbacks' \ rollbacks
  BY <1>3, <1>5 DEF Dels, Turns, Phase, AddPhases, DelPhases
<1>7. \A d \in Client : request'[d].phase = "starting" => request'[d] = request[d] /\ request[d].container \in containers'
  BY <1>2, <1>3 DEF Turns, Phase, MapInv, StartingRuns
<1>8. \A j \in Id : nodes'[j] # Null => Runs(j)'
  BY <1>2, <1>6, RunsKept DEF MapInv
<1> QED
  BY <1>2, <1>4, <1>5, <1>6, <1>7, <1>8, MapTurn

\* One step of a deletion that all is the same for, a request's or a rollback's:
\* the node it removes goes from running to being unmapped, then from the map.
LEMMA MapDeletion ==
  ASSUME BasicInv, MapInv, NEW d \in Dels, NEW e \in Dels', GoesOnAs(d, e), loads = {}, loads' = {},
         \A x \in Dels' : x \in Dels \/ x = e,
         \A x \in Dels : x \in Dels' \/ x = d,
         \A c \in Client : request'[c].phase = "starting" => request'[c] = request[c]
  PROVE  MapInv'
<1>1. e.container = d.container /\ e.id = d.id /\ Owns(d.id, d.container)
  BY DEF GoesOnAs, Owns
<1>2. d.id \in Id /\ d.container \in Nat
  <2>1. CASE d \in rollbacks
    BY <2>1 DEF BasicInv, ManagerTyped, Rollback
  <2>2. CASE d \notin rollbacks
    BY <2>2, RequestShape DEF BasicInv, ManagerTyped, Dels, Phase, DelPhases
  <2> QED
    BY <2>1, <2>2
<1>3. CASE DelRemoves(d, e)
  <2>1. /\ d.phase = "removing" /\ e.phase = "unmapping" /\ nodes' = nodes
        /\ containers' = containers \ {d.container} \/ containers' = containers
    <3>1. e = [d EXCEPT !.phase = "unmapping"] /\ d.phase = "removing" /\ nodes' = nodes
      BY <1>3 DEF DelRemoves
    <3>2. e.phase = "unmapping"
      <4>1. CASE d \in rollbacks
        BY <3>1, <4>1, NextRollback DEF BasicInv, ManagerTyped, DelPhases
      <4>2. CASE d \notin rollbacks
        <5>1. d \in Deleting
          BY <4>2, RequestShape DEF BasicInv, ManagerTyped, Dels, Phase
        <5>2. "unmapping" \in DelPhases
          BY DEF DelPhases
        <5> QED
          BY <3>1, <5>1, <5>2, NextDeleting, Zenon
      <4> QED
        BY <4>1, <4>2
    <3> QED
      BY <1>3, <3>1, <3>2 DEF DelRemoves
  <2>2. \A c \in Client : Phase(c) = "starting" => request[c].container \in containers'
    BY <2>1 DEF MapInv, StartingRuns, Doomed
  <2>3. \A i \in Id : nodes'[i] # Null => Runs(i)'
    <3> SUFFICES ASSUME NEW i \in Id, nodes[i] # Null PROVE Runs(i)'
      BY <2>1
    <3>1. CASE nodes[i] = d.container
      BY <1>1, <2>1, <3>1 DEF Runs
    <3>2. CASE nodes[i] # d.container
      <4>1. Runs(i)
        BY DEF MapInv
      <4>2. \A x \in Dels : x.phase = "unmapping" => x \in Dels'
        BY <2>1
      <4> QED
        BY <2>1, <3>2, <4>1, <4>2 DEF Runs
    <3> QED
      BY <3>1, <3>2
  <2> QED
    BY <1>1, <2>1, <2>2, <2>3, MapTurn DEF Phase
<1>4. CASE DelUnmaps(d, e)
  <2>1. d.phase = "unmapping" /\ containers' = containers /\ nodes' = [nodes EXCEPT ![d.id] = Null]
    BY <1>4 DEF DelUnmaps, Unmapped
  <2>2. nodes \in [Id -> Nat \cup {Null}]
    BY BasicFacts
  <2>3. nodes'[d.id] = Null /\ \A i \in Id \ {d.id} : nodes'[i] = nodes[i]
    BY <1>2, <2>1, <2>2
  <2>4. \A c \in Client : Phase(c) = "starting" => request[c].container \in containers'
    BY <2>1 DEF MapInv, StartingRuns
  <2>5. \A i \in Id : nodes'[i] # Null => Runs(i)'
    <3> SUFFICES ASSUME NEW i \in Id, nodes'[i] # Null PROVE Runs(i)'
      OBVIOUS
    <3>1. i # d.id /\ nodes'[i] = nodes[i] /\ nodes[i] \in Nat
      BY <2>2, <2>3
    <3>2. nodes[i] # d.container
      <4>1. nodes[i] = d.container => Owns(i, d.container)
        BY DEF Owns
      <4> QED
        BY <1>1, <1>2, <3>1, <4>1 DEF BasicInv, OneOwner
    <3>3. Runs(i)
      BY <3>1 DEF MapInv
    <3> QED
      BY <2>1, <3>1, <3>2, <3>3 DEF Runs
  <2> QED
    BY <1>1, <2>3, <2>4, <2>5, MapTurn DEF Phase
<1> QED
  BY <1>3, <1>4 DEF GoesOnAs

\* The deletion of a request is such a deletion.
LEMMA MapDelStep ==
  ASSUME BasicInv, MapInv, NEW c \in Client, DelStep(c)
  PROVE  MapInv'
<1>1. /\ Turns(c) /\ GoesOnAs(request[c], request'[c])
      /\ Phase(c) \in DelPhases /\ request'[c].phase \in DelPhases
  BY DelStepFacts DEF BasicInv, Phase
<1>2. loads' = loads /\ rollbacks' = rollbacks /\ loads = {}
  BY <1>1, NoLoads DEF DelStep
<1>3. request[c] \in Dels /\ request'[c] \in Dels'
  BY <1>1 DEF Dels, Phase
<1>4. /\ \A x \in Dels' : x \in Dels \/ x = request'[c]
      /\ \A x \in Dels : x \in Dels' \/ x = request[c]
  BY <1>1, <1>2, DelsAfter
<1>5. \A d \in Client : request'[d].phase = "starting" => request'[d] = request[d]
  BY <1>1 DEF Turns, DelPhases
<1> QED
  BY <1>1, <1>2, <1>3, <1>4, <1>5, MapDeletion

\* So is that of a rollback.
LEMMA MapRollbackStep ==
  ASSUME BasicInv, MapInv, NEW d \in rollbacks, RollbackStep(d)
  PROVE  MapInv'
<1>1. PICK e \in Rollback : GoesOnAs(d, e) /\ rollbacks' = (rollbacks \ {d}) \cup {e}
  BY RollbackStepFacts DEF BasicInv
<1>2. loads' = loads /\ request' = request /\ loads = {}
  BY NoLoads DEF RollbackStep
<1>3. d \in Dels /\ e \in Dels'
  BY <1>1 DEF Dels
<1>4. /\ \A x \in Dels' : x \in Dels \/ x = e
      /\ \A x \in Dels : x \in Dels' \/ x = d
  BY <1>1, <1>2 DEF Dels, Phase
<1> QED
  BY <1>1, <1>2, <1>3, <1>4, MapDeletion

\* A deletion that ends has unmapped its node before.
LEMMA MapDeletionEnds ==
  ASSUME BasicInv, MapInv, (\E c \in Client : DelEnds(c)) \/ \E d \in rollbacks : RollbackEnds(d)
  PROVE  MapInv'
<1>1. UNCHANGED <<nodes, containers, loads>>
  BY DEF DelEnds, RollbackEnds, engineVars
<1>2. /\ loads = {} /\ Dels' \subseteq Dels
      /\ \A x \in Dels : x.phase = "unmapping" => x \in Dels'
      /\ \A b \in Client : request'[b].phase = "starting" => request'[b] = request[b]
  <2>1. ASSUME NEW c \in Client, DelEnds(c)
        PROVE  /\ loads = {} /\ Dels' \subseteq Dels
               /\ \A x \in Dels : x.phase = "unmapping" => x \in Dels'
               /\ \A b \in Client : request'[b].phase = "starting" => request'[b] = request[b]
    <3>1. Turns(c) /\ Phase(c) = "deleting" /\ request'[c].phase = "answered" /\ rollbacks' = rollbacks
      BY <2>1, DelEndsFacts DEF BasicInv, Phase, DelEnds
    <3>2. loads = {}
      BY <3>1, NoLoads DEF DelPhases
    <3>3. Dels' \subseteq Dels /\ \A x \in Dels \ Dels' : x = request[c]
      BY <3>1, DelsAfter DEF DelPhases
    <3> QED
      BY <3>1, <3>2, <3>3 DEF Turns, Phase
  <2>2. ASSUME NEW d \in rollbacks, RollbackEnds(d)
        PROVE  /\ loads = {} /\ Dels' \subseteq Dels
               /\ \A x \in Dels : x.phase = "unmapping" => x \in Dels'
               /\ \A b \in Client : request'[b].phase = "starting" => request'[b] = request[b]
    <3>1. request' = request /\ rollbacks' = rollbacks \ {d} /\ d.phase = "deleting" /\ loads = {}
      BY <2>2, NoLoads DEF RollbackEnds, DelDeletes
    <3> QED
      BY <3>1 DEF Dels, Phase
  <2> QED
    BY <2>1, <2>2
<1>3. \A j \in Id : nodes'[j] # Null => Runs(j)'
  BY <1>1, <1>2, RunsKept DEF MapInv
<1>4. \A b \in Client : request'[b].phase = "starting" => request[b].container \in containers'
  BY <1>1, <1>2 DEF MapInv, StartingRuns, Phase
<1> QED
  BY <1>1, <1>2, <1>3, <1>4, MapTurn

-----------------------------------------------------------------------------

\* The loads, which nothing else is beside.
LEMMA MapLoads ==
  ASSUME BasicInv, MapInv, NEW l \in loads, LoadStep(l) \/ LoadFails(l)
  PROVE  MapInv'
<1>0. ManagerTyped /\ Bounded /\ made \in Nat
  BY DEF BasicInv, ManagerTyped
<1>1. rollbacks = {} /\ Active = {}
  BY DEF MapInv, LoadsAlone
<1>2. request' = request /\ rollbacks' = rollbacks
  BY DEF LoadStep, LoadFails, LoadRemoves, LoadCreates, LoadStarted, LoadUpdates
<1>3. Active' = {} /\ Dels = {} /\ Dels' = {} /\ \A c \in Client : request'[c].phase # "starting"
  BY <1>1, <1>2 DEF Active, Dels, Phase, DelPhases
<1>4. /\ \A i \in Id : nodes[i] # Null => nodes[i] \in containers
      /\ \A m \in loads : m.phase = "starting" => m.container \in containers
      /\ \A m, n \in loads : m.phase = "starting" /\ n.phase = "removing" => m.container # n.doc.container
      /\ \A n \in loads : n.phase = "removing" => \A i \in Id : nodes[i] # n.doc.container
  BY <1>3 DEF MapInv, Runs, StartingRuns, Doomed, LoadsAlone
<1>5. ASSUME \A i \in Id : nodes'[i] # Null => nodes'[i] \in containers',
             \A m \in loads' : m.phase = "starting" => m.container \in containers',
             \A m, n \in loads' : m.phase = "starting" /\ n.phase = "removing" => m.container # n.doc.container,
             \A n \in loads' : n.phase = "removing" => \A i \in Id : nodes'[i] # n.doc.container
      PROVE  MapInv'
  BY <1>1, <1>2, <1>3, <1>5 DEF MapInv, Runs, StartingRuns, Doomed, LoadsAlone, Phase
<1>6. CASE LoadRemoves(l)
  <2>1. PICK k : /\ LoadTurns(l, k) /\ k.phase = "creating" /\ l.phase = "removing"
                 /\ \/ containers' = containers \ {l.doc.container} /\ failures' = failures
                    \/ containers' = containers /\ failures' = failures + 1
                 /\ UNCHANGED <<nodes, tenant, docs, made, request, rollbacks>>
    BY <1>0, <1>6, LoadRemovesFacts
  <2>2. loads' = (loads \ {l}) \cup {k} /\ \A x \in containers : x = l.doc.container \/ x \in containers'
    BY <2>1 DEF LoadTurns
  <2>3. \A m \in loads' : m.phase # "creating" => m \in loads
    BY <2>1, <2>2
  <2> QED
    BY <1>4, <1>5, <2>1, <2>2, <2>3
<1>7. CASE LoadCreates(l)
  <2>1. PICK k : /\ LoadTurns(l, k) /\ k.phase = "starting" /\ k.container = made + 1
                 /\ containers' = containers \cup {made + 1}
                 /\ nodes' = [nodes EXCEPT ![l.doc.id] = made + 1] /\ l.doc.id \in Id
    BY <1>0, <1>7, LoadCreatesFacts
  <2>2. loads' = (loads \ {l}) \cup {k}
    BY <2>1 DEF LoadTurns
  <2>3. \A i \in Id : nodes'[i] = nodes[i] \/ nodes'[i] = made + 1
    BY <1>0, <2>1 DEF ManagerTyped
  <2>4. \A n \in loads : n.doc.container # made + 1
    BY <1>0 DEF Bounded
  <2>5. \A m \in loads' : \/ m \in loads
                          \/ m.phase = "starting" /\ m.container = made + 1
    BY <2>1, <2>2
  <2> QED
    BY <1>4, <1>5, <2>1, <2>3, <2>4, <2>5
<1>8. CASE LoadStarted(l)
  <2>1. PICK k : /\ LoadTurns(l, k) /\ k.phase = "updating"
                 /\ l.phase = "starting" /\ nodes' = [nodes EXCEPT ![l.doc.id] = l.container]
                 /\ l.doc.id \in Id /\ containers' = containers
    BY <1>0, <1>8, LoadStartedFacts
  <2>2. loads' = (loads \ {l}) \cup {k}
    BY <2>1 DEF LoadTurns
  <2>3. \A i \in Id : nodes'[i] = nodes[i] \/ nodes'[i] = l.container
    BY <1>0, <2>1 DEF ManagerTyped
  <2>4. \A m \in loads' : m \in loads \/ m.phase = "updating"
    BY <2>1, <2>2
  <2> QED
    BY <1>4, <1>5, <2>1, <2>3, <2>4
<1>9. CASE LoadUpdates(l) \/ LoadFails(l)
  <2>1. loads' \subseteq loads /\ UNCHANGED <<nodes, containers>>
    BY <1>9 DEF LoadUpdates, LoadFails, engineVars
  <2> QED
    BY <1>4, <1>5, <2>1
<1> QED
  BY <1>6, <1>7, <1>8, <1>9 DEF LoadStep

\* Every step keeps the map and the containers in agreement.
LEMMA MapStep == BasicInv /\ MapInv /\ [Next]_vars /\ "loads" \notin met' => MapInv'
<1> SUFFICES ASSUME BasicInv, MapInv, [Next]_vars, "loads" \notin met' PROVE MapInv'
  OBVIOUS
<1>1. CASE UNCHANGED vars \/ AddTenant
  <2>1. UNCHANGED <<nodes, containers, loads, request, rollbacks>>
    BY <1>1 DEF vars, engineVars, AddTenant
  <2>2. Dels' = Dels /\ Active' = Active
    BY <2>1, LoadKeepsRequests
  <2>3. \A i \in Id : nodes'[i] # Null => Runs(i)'
    BY <2>1, <2>2, RunsKept DEF MapInv
  <2> QED
    BY <2>1, <2>2, <2>3 DEF MapInv, StartingRuns, LoadsAlone, Doomed, Phase
<1>2. CASE FindNodes
  <2>1. /\ nodes' = NoNodes /\ request' = request /\ rollbacks' = rollbacks /\ rollbacks = {} /\ Active = {}
        /\ \A l \in loads' : l.phase = "removing" /\ l.doc \in docs
    BY <1>2 DEF FindNodes, BasicInv, NothingBefore
  <2>2. Active' = {} /\ Dels' = {} /\ \A c \in Client : request'[c].phase # "starting"
    BY <2>1 DEF Active, Dels, Phase, DelPhases
  <2>3. \A d \in docs : d.container \in Nat
    BY DEF BasicInv, ManagerTyped, Doc
  <2> QED
    BY <2>1, <2>2, <2>3, ManagerAssumption DEF MapInv, StartingRuns, LoadsAlone, Doomed, Phase, NoNodes
<1>3. CASE Crash \/ \E c \in Client : DelTooEarly(c)
  <2>1. Restart /\ UNCHANGED <<docs, containers, made, failures>>
    BY <1>3 DEF Crash, DelTooEarly, engineVars
  <2>2. nodes' = NoNodes /\ loads' = {}
    BY <2>1 DEF Restart
  <2>3. \A c \in Client : request'[c].phase # "starting"
    BY <2>1, RestartFacts, RequestShape DEF BasicInv, ManagerTyped
  <2> QED
    BY <2>2, <2>3 DEF MapInv, StartingRuns, LoadsAlone, Phase, NoNodes
<1>4. CASE \E c \in Client : RequestStep(c) \/ AddMisnamed(c) \/ AddFails(c) \/ \E i \in Id : Add(c, i) \/ Del(c, i)
  BY <1>4, MapAdd, MapAddCreates, MapAddStarted, MapAddEnds, MapDelStep, MapDeletionEnds DEF RequestStep
<1> QED
  BY <1>1, <1>2, <1>3, <1>4, MapLoads, MapRollbackStep, MapDeletionEnds DEF Next

-----------------------------------------------------------------------------
(* One request at a time, and nothing fails *)

\* Only c, if any request, is under way.
Alone(c) ==
  /\ loads = {} /\ rollbacks = {} /\ tenant = "known"
  /\ \A d \in Client \ {c} : Phase(d) \in {"idle", "answered"}
  /\ \A d \in docs : \/ nodes[d.id] # Null
                     \/ Phase(c) = "deleting" /\ request[c].id = d.id

\* A request that is under way is alone.
LEMMA UnderWayAlone ==
  ASSUME BasicInv, MapInv, InTurnInv, NEW c \in Client, Phase(c) \in AddPhases \cup DelPhases
  PROVE  Alone(c)
<1>1. loads = {} /\ tenant = "known" /\ rollbacks = {}
  BY NoLoads, BasicFacts DEF InTurnInv
<1>2. c \in Active
  BY DEF Active, Phase, AddPhases, DelPhases
<1>3. \A d \in Client \ {c} : Phase(d) \in {"idle", "answered"}
  BY <1>2 DEF InTurnInv, Active, Phase
<1>4. \A d \in docs : Mapped(d.id)
  BY <1>1 DEF InTurnInv
<1>5. \A d \in docs : \/ nodes[d.id] # Null
                      \/ Phase(c) = "deleting" /\ request[c].id = d.id
  BY <1>1, <1>3, <1>4 DEF Mapped
<1> QED
  BY <1>1, <1>3, <1>5 DEF Alone

\* So is one that begins in its turn.
LEMMA BeginsAlone ==
  ASSUME InTurnInv, NEW c \in Client, Admitted, met' = {}
  PROVE  Alone(c)
<1>1. Active = {} /\ loads = {} /\ tenant = "known"
  BY DEF Admitted
<1>2. \A d \in Client : Phase(d) \in {"idle", "answered"}
  BY <1>1 DEF Active, Phase
<1>3. \A d \in docs : Mapped(d.id)
  BY <1>1 DEF InTurnInv
<1>4. \A d \in docs : nodes[d.id] # Null
  BY <1>1, <1>2, <1>3 DEF Mapped
<1> QED
  BY <1>1, <1>2, <1>4 DEF Alone, InTurnInv

\* What the turn of c must show when c is alone.
InTurnStays(c) ==
  /\ Turns(c) /\ UNCHANGED <<loads, rollbacks, tenant>>
  /\ OneDoc'
  /\ \A d \in docs' : \/ nodes'[d.id] # Null
                      \/ request'[c].phase = "deleting" /\ request'[c].id = d.id
  /\ request'[c].phase \in AddPhases =>
       /\ request'[c].id \notin removed' /\ \A d \in docs' : d.id # request'[c].id
       /\ request'[c].phase = "inserting" => nodes'[request'[c].id] # Null
  /\ request'[c].phase = "deleting" => nodes'[request'[c].id] = Null
  /\ removed' \subseteq Id
  /\ \A i \in removed' : nodes'[i] = Null /\ \A d \in docs' : d.id # i

\* Such a turn keeps the documents and the map in agreement.
LEMMA InTurnOf ==
  ASSUME NEW c \in Client, Alone(c), InTurnStays(c)
  PROVE  InTurnInv'
<1>1. \A d \in Client \ {c} : request'[d].phase \in {"idle", "answered"}
  BY DEF Alone, InTurnStays, Turns, Phase
<1>2. rollbacks' = {} /\ loads' = {} /\ \A d, e \in Active' : d = e
  BY <1>1 DEF Alone, InTurnStays, Active
<1>3. \A d \in docs' : Mapped(d.id)'
  BY DEF InTurnStays, Mapped, Phase
<1>4. \A d \in Client : request'[d].phase \in AddPhases =>
        /\ request'[d].id \notin removed' /\ \A x \in docs' : x.id # request'[d].id
        /\ request'[d].phase = "inserting" => nodes'[request'[d].id] # Null
  BY <1>1 DEF InTurnStays, AddPhases
<1>5. \A d \in Client : request'[d].phase = "deleting" => nodes'[request'[d].id] = Null
  BY <1>1 DEF InTurnStays
<1> QED
  BY <1>2, <1>3, <1>4, <1>5 DEF InTurnInv, InTurnStays, Alone, NoDoc, Phase

\* A request that begins; an identity that is added counts as removed no more.
LEMMA InTurnAdd ==
  ASSUME BasicInv, InTurnInv, NEW c \in Client, NEW i \in Id, Add(c, i) \/ Del(c, i), met' = {}
  PROVE  InTurnInv'
<1>1. Alone(c)
  BY BeginsAlone DEF Add, Del
<1>2. UNCHANGED <<nodes, docs, loads, rollbacks, tenant>>
  BY DEF Add, Del
<1>3. /\ Turns(c) /\ Phase(c) = "idle" /\ request'[c].id = i
      /\ request'[c].phase \in {"answered", "creating", "removing"}
      /\ removed' \subseteq removed /\ removed \subseteq Id
      /\ request'[c].phase = "creating" => i \notin removed' /\ nodes[i] = Null
  <2>1. CASE Add(c, i)
    BY <2>1, AddFacts DEF BasicInv, Phase, InTurnInv
  <2>2. CASE Del(c, i)
    BY <2>2, DelFacts DEF BasicInv, Phase, Del, InTurnInv
  <2> QED
    BY <2>1, <2>2
<1>4. OneDoc'
  BY <1>2 DEF InTurnInv, OneDoc
<1>5. \A d \in docs' : nodes'[d.id] # Null
  BY <1>1, <1>2, <1>3 DEF Alone
<1>6. nodes[i] = Null => \A d \in docs' : d.id # i
  BY <1>2, <1>5
<1>7. \A j \in removed' : nodes'[j] = Null /\ \A d \in docs' : d.id # j
  BY <1>2, <1>3 DEF InTurnInv, NoDoc
<1>8. InTurnStays(c)
  BY <1>2, <1>3, <1>4, <1>5, <1>6, <1>7 DEF InTurnStays, AddPhases
<1> QED
  BY <1>1, <1>8, InTurnOf

\* The steps of an addition.
LEMMA InTurnAdding ==
  ASSUME BasicInv, MapInv, InTurnInv, NEW c \in Client, AddCreates(c) \/ AddStarted(c)
  PROVE  InTurnInv'
<1>1. /\ Turns(c) /\ Phase(c) \in {"creating", "starting"}
      /\ request'[c].phase \in {"starting", "inserting"} /\ request'[c].id = request[c].id
      /\ \/ request'[c].phase = "starting" /\ nodes' = nodes
         \/ Phase(c) = "starting" /\ nodes' = [nodes EXCEPT ![request[c].id] = request[c].container]
  <2>1. CASE AddCreates(c)
    BY <2>1, AddCreatesFacts DEF BasicInv, Phase, AddCreates
  <2>2. CASE AddStarted(c)
    BY <2>2, AddStartedFacts DEF BasicInv, Phase
  <2> QED
    BY <2>1, <2>2
<1>2. Alone(c)
  BY <1>1, UnderWayAlone DEF AddPhases
<1>3. UNCHANGED <<docs, loads, rollbacks, tenant, removed>>
  BY DEF AddCreates, AddStarted, history
<1>4. NoDoc(request[c].id) /\ request[c].id \notin removed
  BY <1>1 DEF InTurnInv, AddPhases
<1>5. request[c].id \in Id /\ (Phase(c) = "starting" => request[c].container \in Nat)
  BY <1>1, RequestShape DEF BasicInv, ManagerTyped, Phase
<1>6. /\ \A i \in Id \ {request[c].id} : nodes'[i] = nodes[i]
      /\ nodes'[request[c].id] # Null \/ nodes' = nodes
      /\ request'[c].phase = "inserting" => nodes'[request[c].id] # Null
  BY <1>1, <1>5, ManagerAssumption, BasicFacts
<1>7. \A d \in docs' : nodes'[d.id] # Null
  BY <1>1, <1>2, <1>3, <1>6, BasicFacts DEF Alone, Doc
<1>8. \A i \in removed' : nodes'[i] = Null /\ \A d \in docs' : d.id # i
  <2>1. \A i \in removed : nodes[i] = Null /\ NoDoc(i) /\ i # request[c].id
    BY <1>4 DEF InTurnInv
  <2> QED
    BY <1>3, <1>6, <2>1 DEF NoDoc, InTurnInv
<1>9. OneDoc' /\ \A d \in docs' : d.id # request[c].id
  BY <1>3, <1>4 DEF InTurnInv, OneDoc, NoDoc
<1>10. InTurnStays(c)
  BY <1>1, <1>3, <1>4, <1>6, <1>7, <1>8, <1>9 DEF InTurnStays, InTurnInv
<1> QED
  BY <1>2, <1>10, InTurnOf

\* The document comes to a node that had none.
LEMMA InTurnInserts ==
  ASSUME BasicInv, MapInv, InTurnInv, NEW c \in Client, AddInserts(c)
  PROVE  InTurnInv'
<1>1. /\ Turns(c) /\ Phase(c) = "inserting" /\ request'[c].phase = "answered"
      /\ request'[c].id = request[c].id
  BY AddInsertsFacts DEF BasicInv, Phase
<1>2. Alone(c)
  BY <1>1, UnderWayAlone DEF AddPhases
<1>3. UNCHANGED <<nodes, loads, rollbacks, tenant, removed>>
  BY DEF AddInserts, history
<1>4. NoDoc(request[c].id) /\ request[c].id \notin removed /\ nodes[request[c].id] # Null
  BY <1>1 DEF InTurnInv, AddPhases
<1>5. PICK x : x.id = request[c].id /\ docs' = docs \cup {x}
  BY DEF AddInserts
<1>6. OneDoc'
  BY <1>4, <1>5 DEF InTurnInv, OneDoc, NoDoc
<1>7. \A d \in docs' : nodes'[d.id] # Null
  BY <1>1, <1>2, <1>3, <1>4, <1>5 DEF Alone
<1>8. \A i \in removed' : nodes'[i] = Null /\ \A d \in docs' : d.id # i
  BY <1>3, <1>4, <1>5 DEF InTurnInv, NoDoc
<1>9. InTurnStays(c)
  BY <1>1, <1>3, <1>6, <1>7, <1>8 DEF InTurnStays, AddPhases, InTurnInv
<1> QED
  BY <1>2, <1>9, InTurnOf

\* The steps of a deletion: the node leaves the map before its document goes.
LEMMA InTurnDelStep ==
  ASSUME BasicInv, MapInv, InTurnInv, NEW c \in Client, DelStep(c)
  PROVE  InTurnInv'
<1>1. /\ Turns(c) /\ GoesOnAs(request[c], request'[c])
      /\ Phase(c) \in DelPhases /\ request'[c].phase \in DelPhases
  BY DelStepFacts DEF BasicInv, Phase
<1>2. Alone(c)
  BY <1>1, UnderWayAlone
<1>3. UNCHANGED <<docs, loads, rollbacks, tenant, removed>>
  BY <1>1 DEF DelStep, history, GoesOnAs, DelRemoves, DelUnmaps
<1>4. request[c].id \in Id /\ request[c] \in Deleting /\ request'[c].id = request[c].id
  <2>1. request[c] \in Request /\ request[c].phase \in DelPhases
    BY <1>1 DEF BasicInv, ManagerTyped, Phase
  <2>2. request[c].phase # "idle"
    BY <2>1 DEF DelPhases
  <2> QED
    BY <1>1, <2>1, <2>2, RequestShape DEF GoesOnAs
<1>5. Phase(c) \in {"removing", "unmapping"} /\ request'[c].phase \in {"unmapping", "deleting"}
      /\ \/ request'[c].phase = "unmapping" /\ nodes' = nodes
         \/ request'[c].phase = "deleting" /\ nodes' = [nodes EXCEPT ![request[c].id] = Null]
  <2>1. \A p \in DelPhases : [request[c] EXCEPT !.phase = p].phase = p
    BY <1>4, NextDeleting
  <2>2. CASE DelRemoves(request[c], request'[c])
    BY <2>1, <2>2 DEF DelRemoves, DelPhases, Phase
  <2>3. CASE DelUnmaps(request[c], request'[c])
    BY <2>1, <2>3 DEF DelUnmaps, DelPhases, Unmapped, Phase
  <2> QED
    BY <1>1, <2>2, <2>3 DEF GoesOnAs
<1>6. /\ \A i \in Id \ {request[c].id} : nodes'[i] = nodes[i]
      /\ nodes'[request[c].id] \in {nodes[request[c].id], Null}
      /\ request'[c].phase = "deleting" => nodes'[request[c].id] = Null
      /\ request'[c].phase # "deleting" => nodes' = nodes
  BY <1>4, <1>5, BasicFacts
<1>7. \A d \in docs' : \/ nodes'[d.id] # Null
                       \/ request'[c].phase = "deleting" /\ request'[c].id = d.id
  BY <1>2, <1>3, <1>4, <1>5, <1>6, BasicFacts DEF Alone, Doc
<1>8. \A i \in removed' : nodes'[i] = Null /\ \A d \in docs' : d.id # i
  <2>1. \A i \in removed : nodes[i] = Null /\ NoDoc(i)
    BY DEF InTurnInv
  <2> QED
    BY <1>3, <1>6, <2>1 DEF NoDoc, InTurnInv
<1>9. OneDoc'
  BY <1>3 DEF InTurnInv, OneDoc
<1>10. InTurnStays(c)
  BY <1>1, <1>3, <1>4, <1>5, <1>6, <1>7, <1>8, <1>9 DEF InTurnStays, AddPhases, InTurnInv
<1> QED
  BY <1>2, <1>10, InTurnOf

\* The one document goes with the confirmation.
LEMMA InTurnDelEnds ==
  ASSUME BasicInv, MapInv, InTurnInv, NEW c \in Client, DelEnds(c)
  PROVE  InTurnInv'
<1>1. /\ Turns(c) /\ Phase(c) = "deleting" /\ request'[c].phase = "answered"
      /\ request'[c].id = request[c].id /\ request[c].id \in Id
  BY DelEndsFacts DEF BasicInv, Phase
<1>2. Alone(c)
  BY <1>1, UnderWayAlone DEF DelPhases
<1>3. /\ UNCHANGED <<nodes, loads, rollbacks, tenant>> /\ removed' = removed \cup {request[c].id}
      /\ DelDeletes(request[c])
  BY DEF DelEnds
<1>4. docs' \subseteq docs /\ \A x \in docs' : x.id # request[c].id
  BY <1>3, DeletesOne DEF InTurnInv
<1>5. nodes[request[c].id] = Null
  BY <1>1 DEF InTurnInv
<1>6. OneDoc'
  BY <1>4 DEF InTurnInv, OneDoc
<1>7. \A d \in docs' : nodes'[d.id] # Null
  BY <1>2, <1>3, <1>4 DEF Alone
<1>8. \A i \in removed' : nodes'[i] = Null /\ \A d \in docs' : d.id # i
  BY <1>3, <1>4, <1>5 DEF InTurnInv, NoDoc
<1>9. InTurnStays(c)
  BY <1>1, <1>3, <1>6, <1>7, <1>8 DEF InTurnStays, AddPhases, InTurnInv
<1> QED
  BY <1>2, <1>9, InTurnOf

-----------------------------------------------------------------------------

\* The nodes are loaded while no request is under way: what the loads must show.
LEMMA InTurnBesides ==
  ASSUME InTurnInv, rollbacks' = {}, UNCHANGED removed,
         \A c \in Client : request'[c].phase \in {"idle", "answered"},
         OneDoc',
         tenant' = "known" => \A d \in docs' :
           \/ nodes'[d.id] # Null
           \/ \E l \in loads' : l.doc.id = d.id /\ l.phase \in {"removing", "creating"},
         \A l \in loads' : /\ \E d \in docs' : d.id = l.doc.id
                           /\ l.phase \in {"starting", "updating"} => nodes'[l.doc.id] # Null,
         \A i \in removed : nodes'[i] = Null /\ \A d \in docs' : d.id # i
  PROVE  InTurnInv'
<1>1. Active' = {}
  BY DEF Active
<1>2. \A c \in Client : request'[c].phase \notin AddPhases /\ request'[c].phase # "deleting"
  BY DEF AddPhases
<1>3. tenant' = "known" => \A d \in docs' : Mapped(d.id)'
  BY DEF Mapped
<1>4. \A l \in loads' : ~NoDoc(l.doc.id)'
  BY DEF NoDoc
<1> QED
  BY <1>1, <1>2, <1>3, <1>4 DEF InTurnInv, NoDoc, Phase

\* The process starts again: every document is to be loaded.
LEMMA InTurnStart ==
  ASSUME BasicInv, InTurnInv, AddTenant \/ FindNodes \/ Crash
  PROVE  InTurnInv'
<1>1. UNCHANGED <<docs, removed>>
  BY DEF AddTenant, FindNodes, Crash, history
<1>2. /\ \A i \in removed : NoDoc(i) /\ nodes[i] = Null
      /\ OneDoc' /\ removed \subseteq Id
  BY <1>1 DEF InTurnInv, OneDoc
<1>3. CASE AddTenant \/ FindNodes
  <2>1. /\ UNCHANGED <<request, rollbacks>> /\ tenant # "known"
        /\ \/ tenant' # "known" /\ UNCHANGED <<nodes, loads>>
           \/ /\ nodes' = NoNodes
              /\ loads' = {[doc |-> d, phase |-> "removing", container |-> Null] : d \in docs}
    BY <1>3 DEF AddTenant, FindNodes
  <2>2. loads = {} /\ rollbacks = {} /\ nodes = NoNodes /\ \A c \in Client : request'[c].phase \in {"idle", "answered"}
    BY <2>1 DEF BasicInv, NothingBefore, Active
  <2>3. nodes' = NoNodes
    BY <2>1, <2>2
  <2>4. \A l \in loads' : l.doc \in docs /\ l.phase = "removing"
    BY <2>1, <2>2
  <2>5. tenant' = "known" => \A d \in docs : \E l \in loads' : l.doc.id = d.id /\ l.phase = "removing"
    <3>1. \A d \in docs : [doc |-> d, phase |-> "removing", container |-> Null].doc = d
      OBVIOUS
    <3> QED
      BY <2>1, <3>1
  <2>6. \A i \in removed : nodes'[i] = Null
    BY <1>2, <2>3 DEF NoNodes
  <2> QED
    BY <1>1, <1>2, <2>1, <2>2, <2>4, <2>5, <2>6, InTurnBesides DEF NoDoc
<1>4. CASE Crash
  <2>1. nodes' = NoNodes /\ loads' = {} /\ rollbacks' = {} /\ tenant' # "known" /\ Restart
    BY <1>4 DEF Crash, Restart
  <2>2. \A c \in Client : request'[c].phase \in {"idle", "answered"}
    BY <2>1, RestartFacts, RequestShape DEF BasicInv, ManagerTyped
  <2>3. \A i \in removed : nodes'[i] = Null
    BY <1>2, <2>1 DEF NoNodes
  <2> QED
    BY <1>1, <1>2, <2>1, <2>2, <2>3, InTurnBesides DEF NoDoc
<1> QED
  BY <1>3, <1>4

\* A load goes on; it brings back none that was removed, for it has a document.
LEMMA InTurnLoads ==
  ASSUME BasicInv, MapInv, InTurnInv, NEW l \in loads, LoadStep(l), failures' = 0
  PROVE  InTurnInv'
<1>0. ManagerTyped /\ Bounded /\ made \in Nat /\ l.doc.id \in Id
  BY DEF BasicInv, ManagerTyped, Loading, Doc
<1>1. Active = {} /\ rollbacks = {} /\ tenant = "known"
  BY DEF MapInv, LoadsAlone, BasicInv, NothingBefore
<1>2. UNCHANGED <<request, rollbacks, tenant, removed>>
  BY DEF LoadStep, LoadRemoves, LoadCreates, LoadStarted, LoadUpdates, history
<1>3. \A c \in Client : request'[c].phase \in {"idle", "answered"} /\ Phase(c) # "deleting"
  BY <1>1, <1>2 DEF Active, Phase
<1>4. \A d \in docs : \/ nodes[d.id] # Null
                      \/ \E m \in loads : m.doc.id = d.id /\ m.phase \in {"removing", "creating"}
  BY <1>1, <1>3 DEF InTurnInv, Mapped
<1>5. /\ \A m \in loads : /\ \E d \in docs : d.id = m.doc.id
                          /\ m.phase \in {"starting", "updating"} => nodes[m.doc.id] # Null
      /\ \A i \in removed : i # l.doc.id /\ nodes[i] = Null /\ \A d \in docs : d.id # i
      /\ removed \subseteq Id /\ OneDoc
  BY DEF InTurnInv, NoDoc
<1>6. CASE LoadRemoves(l)
  <2>1. PICK k : /\ LoadTurns(l, k) /\ k.phase = "creating" /\ UNCHANGED <<nodes, docs>>
    BY <1>0, <1>6, LoadRemovesFacts
  <2>2. loads' = (loads \ {l}) \cup {k} /\ k.doc = l.doc
    BY <2>1 DEF LoadTurns
  <2>3. \A d \in docs' : \/ nodes'[d.id] # Null
                         \/ \E m \in loads' : m.doc.id = d.id /\ m.phase \in {"removing", "creating"}
    BY <1>4, <2>1, <2>2
  <2>4. \A m \in loads' : /\ \E d \in docs' : d.id = m.doc.id
                          /\ m.phase \in {"starting", "updating"} => nodes'[m.doc.id] # Null
    BY <1>5, <2>1, <2>2
  <2>5. OneDoc'
    BY <1>5, <2>1 DEF OneDoc
  <2> QED
    BY <1>1, <1>2, <1>3, <1>5, <2>1, <2>3, <2>4, <2>5, InTurnBesides
<1>7. CASE LoadCreates(l) \/ LoadStarted(l)
  <2>1. PICK k : /\ LoadTurns(l, k) /\ k.phase \in {"starting", "updating"} /\ UNCHANGED docs
                 /\ \E n \in Nat : nodes' = [nodes EXCEPT ![l.doc.id] = n]
    <3>1. CASE LoadCreates(l)
      BY <1>0, <3>1, LoadCreatesFacts
    <3>2. CASE LoadStarted(l)
      <4>1. l.container \in Nat
        BY <1>0, <3>2 DEF Bounded, LoadStarted
      <4> QED
        BY <1>0, <3>2, <4>1, LoadStartedFacts
    <3> QED
      BY <1>7, <3>1, <3>2
  <2>2. loads' = (loads \ {l}) \cup {k} /\ k.doc = l.doc
    BY <2>1 DEF LoadTurns
  <2>3. nodes'[l.doc.id] # Null /\ \A i \in Id \ {l.doc.id} : nodes'[i] = nodes[i]
    BY <1>0, <2>1, ManagerAssumption DEF ManagerTyped
  <2>4. \A d \in docs : d.id \in Id
    BY <1>0 DEF ManagerTyped, Doc
  <2>5. \A m \in loads : m.doc.id \in Id
    BY <1>5, <2>4
  <2>6. \A d \in docs' : \/ nodes'[d.id] # Null
                         \/ \E m \in loads' : m.doc.id = d.id /\ m.phase \in {"removing", "creating"}
    BY <1>4, <2>1, <2>2, <2>3, <2>4
  <2>7. \A m \in loads' : /\ \E d \in docs' : d.id = m.doc.id
                          /\ m.phase \in {"starting", "updating"} => nodes'[m.doc.id] # Null
    BY <1>5, <2>1, <2>2, <2>3, <2>5
  <2>8. OneDoc' /\ \A i \in removed : nodes'[i] = Null /\ \A d \in docs' : d.id # i
    BY <1>5, <2>1, <2>3 DEF OneDoc
  <2> QED
    BY <1>1, <1>2, <1>3, <2>6, <2>7, <2>8, InTurnBesides
<1>8. CASE LoadUpdates(l)
  <2>1. /\ loads' = loads \ {l} /\ l.phase = "updating" /\ OneDoc' /\ nodes' = nodes
        /\ \A x \in docs : \E y \in docs' : y.id = x.id
        /\ \A y \in docs' : \E x \in docs : y.id = x.id
    BY <1>0, <1>5, <1>8, LoadUpdatesFacts
  <2>2. \A d \in docs' : \/ nodes'[d.id] # Null
                         \/ \E m \in loads' : m.doc.id = d.id /\ m.phase \in {"removing", "creating"}
    <3> SUFFICES ASSUME NEW y \in docs', nodes'[y.id] = Null
                 PROVE  \E m \in loads' : m.doc.id = y.id /\ m.phase \in {"removing", "creating"}
      OBVIOUS
    <3>1. PICK x \in docs : y.id = x.id
      BY <2>1
    <3>2. PICK m \in loads : m.doc.id = x.id /\ m.phase \in {"removing", "creating"}
      BY <1>4, <2>1, <3>1
    <3> QED
      BY <2>1, <3>1, <3>2
  <2>3. \A m \in loads' : /\ \E d \in docs' : d.id = m.doc.id
                          /\ m.phase \in {"starting", "updating"} => nodes'[m.doc.id] # Null
    BY <1>5, <2>1
  <2>4. \A i \in removed : nodes'[i] = Null /\ \A d \in docs' : d.id # i
    BY <1>5, <2>1
  <2> QED
    BY <1>1, <1>2, <1>3, <2>1, <2>2, <2>3, <2>4, InTurnBesides
<1> QED
  BY <1>6, <1>7, <1>8 DEF LoadStep

\* Every step of requests that come in their turn, when nothing fails.
LEMMA InTurnStep ==
  BasicInv /\ MapInv /\ InTurnInv /\ [Next]_vars /\ met' = {} /\ failures' = 0 => InTurnInv'
<1> SUFFICES ASSUME BasicInv, MapInv, InTurnInv, [Next]_vars, met' = {}, failures' = 0
             PROVE  InTurnInv'
  OBVIOUS
<1>0. failures \in Nat
  BY DEF BasicInv, ManagerTyped
<1>1. CASE UNCHANGED vars
  <2>1. UNCHANGED <<nodes, tenant, docs, loads, request, rollbacks, removed>>
    BY <1>1 DEF vars, history
  <2>2. Active' = Active /\ OneDoc' = OneDoc
    BY <2>1 DEF Active, OneDoc
  <2>3. \A i : (Mapped(i)' <=> Mapped(i)) /\ (NoDoc(i)' <=> NoDoc(i))
    BY <2>1 DEF Mapped, NoDoc, Phase
  <2> QED
    BY <2>1, <2>2, <2>3 DEF InTurnInv, Phase, NoDoc, Mapped
<1>2. CASE \E l \in loads : LoadStep(l) \/ LoadFails(l)
  <2>1. ~\E l \in loads : LoadFails(l)
    BY <1>0 DEF LoadFails, Fails
  <2> QED
    BY <1>2, <2>1, InTurnLoads
<1>3. CASE \E c \in Client : RequestStep(c) \/ AddMisnamed(c) \/ AddFails(c) \/ DelTooEarly(c)
  <2>1. ~\E c \in Client : AddMisnamed(c) \/ AddFails(c)
    BY <1>0 DEF AddMisnamed, AddFails, Fails
  <2>2. ~\E c \in Client : DelTooEarly(c)
    BY DEF DelTooEarly, Admitted
  <2> QED
    BY <1>3, <2>1, <2>2, InTurnAdding, InTurnInserts, InTurnDelStep, InTurnDelEnds DEF RequestStep
<1>4. CASE \E c \in Client, i \in Id : Add(c, i) \/ Del(c, i)
  BY <1>4, InTurnAdd
<1>5. ~\E d \in rollbacks : RollbackStep(d) \/ RollbackEnds(d)
  BY DEF InTurnInv
<1> QED
  BY <1>1, <1>2, <1>3, <1>4, <1>5, InTurnStart DEF Next

-----------------------------------------------------------------------------

\* The inductive invariant holds at the start, when nothing is there.
LEMMA ManagerStarts == Init => ManagerInv
<1> SUFFICES ASSUME Init PROVE ManagerInv
  OBVIOUS
<1>1. \A c \in Client : request[c] = Idle /\ Phase(c) = "idle"
  BY DEF Init, Idle, Phase
<1>2. Active = {} /\ Dels = {}
  BY <1>1 DEF Active, Dels, Phase, DelPhases, Init
<1>3. ManagerTyped
  BY DEF Init, ManagerTyped, NoNodes, Request
<1>4. Bounded
  BY <1>1, <1>2 DEF Init, Bounded, NoNodes
<1>5. NothingBefore /\ RollbacksHaveCause
  BY <1>2 DEF Init, NothingBefore, RollbacksHaveCause
<1>6. Durable
  BY <1>1 DEF Durable, Phase
<1>7. \A i \in Id : \A k \in Nat : ~Owns(i, k)
  BY <1>1, <1>2, ManagerAssumption DEF Init, Owns, NoNodes
<1>8. MapInv
  BY <1>1, <1>2 DEF Init, MapInv, NoNodes, StartingRuns, LoadsAlone
<1>9. InTurnInv
  BY <1>1, <1>2 DEF Init, InTurnInv, OneDoc, AddPhases
<1>10. KeysInv
  BY <1>1 DEF Init, KeysInv, OneKey, NewPhases
<1> QED
  BY <1>3, <1>4, <1>5, <1>6, <1>7, <1>8, <1>9, <1>10 DEF ManagerInv, BasicInv, OneOwner

\* Every step keeps it: what its parts say under a condition on what has been met
\* is kept as long as the condition holds, for it never comes back.
LEMMA ManagerStep == ManagerInv /\ [Next]_vars => ManagerInv'
<1> SUFFICES ASSUME ManagerInv, [Next]_vars PROVE ManagerInv'
  OBVIOUS
<1>1. BasicInv /\ BasicInv' /\ KeysInv'
  BY BasicStep, KeysStep DEF ManagerInv
<1>2. met \subseteq met' /\ (failures' = 0 => failures = 0)
  BY <1>1, MetGrows DEF BasicInv, ManagerTyped
<1>3. "loads" \notin met' => MapInv'
  BY <1>1, <1>2, MapStep DEF ManagerInv
<1>4. met' = {} /\ failures' = 0 => InTurnInv'
  BY <1>1, <1>2, InTurnStep DEF ManagerInv
<1> QED
  BY <1>1, <1>3, <1>4 DEF ManagerInv

\* What the inductive invariant says.
LEMMA ManagerSays == ManagerInv => NodesSound /\ RemovedForGood
<1> SUFFICES ASSUME ManagerInv PROVE NodesSound /\ RemovedForGood
  OBVIOUS
<1>1. TypeOK
  <2>1. /\ \A i \in Id : nodes[i] \in 1..made \cup {Null}
        /\ containers \subseteq 1..made
    BY DEF ManagerInv, BasicInv, Bounded
  <2>2. \A d \in docs : d.key \in 1..made /\ d.container \in 1..made /\ d.id \in Id
    BY DEF ManagerInv, BasicInv, ManagerTyped, Bounded, Doc
  <2>3. \A d, e \in docs : d.key = e.key => d = e
    BY DEF ManagerInv, KeysInv, OneKey
  <2>4. tenant # "known" => loads = {} /\ nodes = NoNodes
    BY DEF ManagerInv, BasicInv, NothingBefore
  <2> QED
    BY <2>1, <2>2, <2>3, <2>4 DEF TypeOK
<1>2. Durable
  BY DEF ManagerInv, BasicInv
<1>3. MappedRuns
  <2>1. \A d \in Dels : d \in Deletions
    BY DEF Dels, Deletions, Active, Phase, DelPhases
  <2> QED
    BY <2>1 DEF ManagerInv, MapInv, Runs, MappedRuns
<1>4. RemovedForGood
  BY DEF ManagerInv, InTurnInv, RemovedForGood, NoDoc
<1> QED
  BY <1>1, <1>2, <1>3, <1>4 DEF NodesSound

\* The inductive invariant is an invariant.
LEMMA ManagerSafety == Spec => []ManagerInv
<1> QED
  BY ManagerStarts, ManagerStep, PTL DEF Spec

\* Whatever requests, loads and rollbacks are in progress, and whatever
\* crashes, the map, the engine and the database agree as NodesSound says.
THEOREM NodesAreSound == Spec => []NodesSound
<1>1. [](ManagerInv => NodesSound)
  BY ManagerSays, PTL
<1> QED
  BY <1>1, ManagerSafety, PTL

\* A node whose removal was confirmed is in neither the map nor the database.
THEOREM RemovedNodesAreGone == Spec => []RemovedForGood
<1>1. [](ManagerInv => RemovedForGood)
  BY ManagerSays, PTL
<1> QED
  BY <1>1, ManagerSafety, PTL

-----------------------------------------------------------------------------
(* DockerNode *)

\* The steps before the container is started, and the steps of a node whose
\* container runs outside the network and inside it.
Before  == {"unused", "pulling", "creating"}
Outside == {"choosing network", "connecting"}
Inside  == {"created", "removing", "remove failed"}

DockerSteps == AtRest \cup Before \cup Outside \cup {"starting", "removing"}

HandlersTyped == handler \in [Handler -> [step : DockerSteps, known : BOOLEAN]]

\* A handler that has nothing to undo is outside the network, known or not.
Untouched(h, c) == container[h] = c /\ h \notin undoing /\ h \notin network

\* What each step of a handler says of its container: the inductive invariant
\* adds, to what is promised of settled handlers, the handlers on their way.
Running(h) ==
  container[h] = "running" /\ h \in network /\ handler[h].known /\ h \notin undoing

StepSound(h) ==
  /\ handler[h].step \in Before => Untouched(h, "none") /\ ~handler[h].known
  /\ handler[h].step = "starting" => Untouched(h, "created") /\ ~handler[h].known
  /\ handler[h].step \in Outside => Untouched(h, "running") /\ handler[h].known
  /\ handler[h].step \in Inside => Running(h)
  /\ handler[h].step = "create failed" =>
       h \notin network /\ (alive /\ h \notin undoing => container[h] = "none")
  /\ handler[h].step = "removed" => h \notin network /\ h \notin undoing

EngineTyped ==
  /\ container \in [Handler -> {"none", "created", "running"}]
  /\ network \subseteq Handler /\ undoing \subseteq Handler
  /\ alive \in BOOLEAN /\ refused \in 0..MaxRefused

DockerInv == HandlersTyped /\ EngineTyped /\ \A h \in Handler : StepSound(h)

-----------------------------------------------------------------------------

\* Handler h is at step s, with or without its container known; no other moves.
GoneOnTo(h, s, k) ==
  /\ HandlersTyped'
  /\ handler'[h].step = s /\ handler'[h].known = k
  /\ \A i \in Handler : i # h => handler'[i] = handler[i]

\* What a step makes of its handler, as a record.
LEMMA GoRecord ==
  ASSUME HandlersTyped, NEW h \in Handler, NEW s \in DockerSteps, GoTo(h, s)
  PROVE  handler' = [handler EXCEPT ![h] = [step |-> s, known |-> handler[h].known]]
<1>1. handler[h] \in [step : DockerSteps, known : BOOLEAN]
  BY DEF HandlersTyped
<1>2. [handler[h] EXCEPT !.step = s] = [step |-> s, known |-> handler[h].known]
  BY <1>1
<1> QED
  BY <1>2, Zenon DEF GoTo

\* A step changes its handler and no other.
LEMMA GoFacts ==
  ASSUME HandlersTyped, NEW h \in Handler, NEW s \in DockerSteps, NEW k \in BOOLEAN,
         handler' = [handler EXCEPT ![h] = [step |-> s, known |-> k]]
  PROVE  GoneOnTo(h, s, k)
BY SMT DEF HandlersTyped, GoneOnTo

\* The invariant holds at the start: nothing exists and nothing is under way.
LEMMA DockerInvInit == DockerInit => DockerInv
<1> SUFFICES ASSUME DockerInit PROVE DockerInv
  OBVIOUS
<1>1. "unused" \in DockerSteps
  BY DEF DockerSteps, AtRest
<1>2. HandlersTyped
  BY <1>1 DEF DockerInit, HandlersTyped
<1>3. EngineTyped
  BY DockerAssumption DEF DockerInit, EngineTyped
<1>4. \A h \in Handler : StepSound(h)
  BY DEF DockerInit, StepSound, Untouched, Running, Before, Outside, Inside
<1> QED
  BY <1>2, <1>3, <1>4 DEF DockerInv

\* It says what is promised of the containers.
LEMMA DockerInvSound == DockerInv => ContainersSound
<1> SUFFICES ASSUME DockerInv PROVE ContainersSound
  OBVIOUS
<1>1. \A h \in Handler : handler[h] \in [step : DockerSteps, known : BOOLEAN]
  BY DEF DockerInv, HandlersTyped
<1>2. DockerTypeOK
  <2>1. \A h \in Handler :
          /\ handler[h].step \in AtRest \cup
               {"pulling", "creating", "starting", "choosing network", "connecting", "removing"}
          /\ handler[h].known \in BOOLEAN
    BY <1>1 DEF DockerSteps, AtRest, Before, Outside
  <2> QED
    BY <2>1, Zenon DEF DockerInv, EngineTyped, DockerTypeOK
<1>3. CreatedIsReachable
  BY <1>1 DEF DockerInv, EngineTyped, StepSound, Running, Untouched, Before, Outside, Inside, DockerSteps, AtRest,
     CreatedIsReachable
<1>4. NothingLeftBehind
  BY DEF DockerInv, StepSound, NothingLeftBehind
<1> QED
  BY <1>2, <1>3, <1>4 DEF ContainersSound

\* Every answer and failure of the daemon, and every call of a handler, keeps it.
LEMMA DockerInvStep == DockerInv /\ [DockerNext]_dockerVars => DockerInv'
<1> SUFFICES ASSUME DockerInv, [DockerNext]_dockerVars PROVE DockerInv'
  OBVIOUS
<1>0. HandlersTyped /\ EngineTyped /\ \A h \in Handler : StepSound(h) /\ handler[h].known \in BOOLEAN
  BY DEF DockerInv, HandlersTyped
<1>s. DockerSteps = {"unused", "created", "create failed", "removed", "remove failed", "pulling",
               "creating", "choosing network", "connecting", "starting", "removing"}
  BY DEF DockerSteps, AtRest, Before, Outside
<1>f. Refuses => refused' \in 0..MaxRefused
  BY <1>0, DockerAssumption DEF EngineTyped, Refuses
<1> USE DEF EngineTyped, StepSound, Untouched, Running, Before, Outside, Inside
<1>1. CASE UNCHANGED dockerVars
  BY <1>1 DEF dockerVars, DockerInv, HandlersTyped
<1>2. ASSUME NEW h \in Handler, CreateContainer(h) PROVE DockerInv'
  <2>1. GoneOnTo(h, "pulling", handler[h].known)
    BY <1>0, <1>2, <1>s, GoRecord, GoFacts DEF CreateContainer
  <2> QED
    BY <1>0, <1>2, <2>1 DEF GoneOnTo, DockerInv, CreateContainer, At
<1>3. ASSUME NEW h \in Handler, ImageCreated(h) PROVE DockerInv'
  <2>1. GoneOnTo(h, "creating", handler[h].known)
    BY <1>0, <1>3, <1>s, GoRecord, GoFacts DEF ImageCreated
  <2> QED
    BY <1>0, <1>3, <2>1 DEF GoneOnTo, DockerInv, ImageCreated, At
<1>4. ASSUME NEW h \in Handler, ContainerCreated(h) PROVE DockerInv'
  <2>1. GoneOnTo(h, "starting", handler[h].known)
    BY <1>0, <1>4, <1>s, GoRecord, GoFacts DEF ContainerCreated
  <2> QED
    BY <1>0, <1>4, <2>1 DEF GoneOnTo, DockerInv, ContainerCreated, At
<1>5. ASSUME NEW h \in Handler, ContainerStarted(h) PROVE DockerInv'
  <2>1. GoneOnTo(h, "choosing network", TRUE)
    BY <1>0, <1>5, <1>s, GoFacts DEF ContainerStarted, Started
  <2> QED
    BY <1>0, <1>5, <2>1, ZenonT(60) DEF GoneOnTo, DockerInv, ContainerStarted, At
<1>6. ASSUME NEW h \in Handler, GetNetwork(h) PROVE DockerInv'
  <2>1. GoneOnTo(h, "connecting", handler[h].known)
    BY <1>0, <1>6, <1>s, GoRecord, GoFacts DEF GetNetwork
  <2> QED
    BY <1>0, <1>6, <2>1, ZenonT(40) DEF GoneOnTo, DockerInv, GetNetwork, At
<1>7. ASSUME NEW h \in Handler, Connected(h) PROVE DockerInv'
  <2>1. GoneOnTo(h, "created", handler[h].known)
    BY <1>0, <1>7, <1>s, GoRecord, GoFacts DEF Connected
  <2> QED
    BY <1>0, <1>7, <2>1, ZenonT(40) DEF GoneOnTo, DockerInv, Connected, At
<1>8. ASSUME NEW h \in Handler, CreateFails(h) PROVE DockerInv'
  <2>1. GoneOnTo(h, "create failed", handler[h].known)
    BY <1>0, <1>8, <1>s, GoRecord, GoFacts DEF CreateFails, Failed
  <2> QED
    BY <1>0, <1>8, <1>f, <2>1, ZenonT(40) DEF GoneOnTo, DockerInv, CreateFails, Undone
<1>9. ASSUME NEW h \in Handler, Undo(h) PROVE DockerInv'
  BY <1>0, <1>9, ZenonT(40) DEF DockerInv, HandlersTyped, Undo, Gone
<1>10. ASSUME NEW h \in Handler, UndoFails(h) PROVE DockerInv'
  BY <1>0, <1>10, <1>f DEF DockerInv, HandlersTyped, UndoFails
<1>11. ASSUME NEW h \in Handler, RemoveContainer(h) PROVE DockerInv'
  <2>1. GoneOnTo(h, "removing", handler[h].known)
    BY <1>0, <1>11, <1>s, GoRecord, GoFacts DEF RemoveContainer
  <2> QED
    BY <1>0, <1>11, <2>1 DEF GoneOnTo, DockerInv, RemoveContainer, At
<1>12. ASSUME NEW h \in Handler, ContainerRemoved(h) PROVE DockerInv'
  <2>1. GoneOnTo(h, "removed", handler[h].known)
    BY <1>0, <1>12, <1>s, GoRecord, GoFacts DEF ContainerRemoved
  <2> QED
    BY <1>0, <1>12, <2>1 DEF GoneOnTo, DockerInv, ContainerRemoved, At, Gone
<1>13. ASSUME NEW h \in Handler, RemoveFails(h) PROVE DockerInv'
  <2>1. GoneOnTo(h, "remove failed", handler[h].known)
    BY <1>0, <1>13, <1>s, GoRecord, GoFacts DEF RemoveFails
  <2> QED
    BY <1>0, <1>13, <1>f, <2>1 DEF GoneOnTo, DockerInv, RemoveFails, At
<1> QED
  BY <1>1, <1>2, <1>3, <1>4, <1>5, <1>6, <1>7, <1>8, <1>9, <1>10, <1>11, <1>12, <1>13
     DEF DockerNext, DaemonAnswers

\* A node that is reported as created runs on the network and can be removed,
\* and a create that failed and has undone itself has left no container,
\* whatever the order of the answers and failures of the daemon.
THEOREM ContainersAreSound == DockerSpec => []ContainersSound
<1>1. DockerInit => DockerInv
  BY DockerInvInit
<1>2. DockerInv /\ [DockerNext]_dockerVars => DockerInv'
  BY DockerInvStep
<1>3. DockerInv => ContainersSound
  BY DockerInvSound
<1> QED
  BY <1>1, <1>2, <1>3, PTL DEF DockerSpec

-----------------------------------------------------------------------------
(* KubernetesNode *)

\* The steps at which a handler waits for the API server.
Working ==
  {"listing", "creating deployment", "creating service", "listing to remove", "scaling down",
   "removing deployment", "removing service"}

KubeStep == Resting \cup Working

KubeTyped == kube \in [KubeHandler -> [step : KubeStep, address : BOOLEAN]]

\* The deployment is gone when the service is next.
DeploymentFirst == \A h \in KubeHandler : kube[h].step = "removing service" => deployment = "none"

\* One handler works at a time, unless operations have met; nobody else can then
\* make a deployment between the two halves of a removal.
KubeInv ==
  /\ KubeTyped /\ together \in BOOLEAN
  /\ ~together => DeploymentFirst /\ \A g, h \in AtWork : g = h

\* A handler whose step changes.
LEMMA KubeRecord ==
  ASSUME NEW r \in [step : KubeStep, address : BOOLEAN], NEW s
  PROVE  [r EXCEPT !.step = s] = [step |-> s, address |-> r.address]
OBVIOUS

\* A handler that waits goes on or comes to rest; no other moves.
LEMMA KubeProceeds ==
  ASSUME KubeInv, NEW h \in KubeHandler, kube[h].step \in Working, UNCHANGED together,
         NEW s \in KubeStep, Proceed(h, s),
         s = "removing service" => deployment' = "none"
  PROVE  KubeInv'
<1>1. kube[h] \in [step : KubeStep, address : BOOLEAN]
  BY DEF KubeInv, KubeTyped
<1>2. [kube[h] EXCEPT !.step = s] = [step |-> s, address |-> kube[h].address]
  BY <1>1, KubeRecord, Zenon
<1>3. kube' = [kube EXCEPT ![h] = [step |-> s, address |-> kube[h].address]]
  BY <1>2, Zenon DEF Proceed
<1>4. KubeTyped' /\ kube'[h].step = s /\ \A g \in KubeHandler \ {h} : kube'[g] = kube[g]
  BY <1>1, <1>3 DEF KubeInv, KubeTyped
<1>5. h \in AtWork
  BY DEF AtWork, Working, Resting
<1>6. AtWork' \subseteq AtWork
  BY <1>4, <1>5 DEF AtWork
<1>7. ASSUME ~together PROVE DeploymentFirst'
  <2>1. \A g \in KubeHandler \ {h} : kube'[g].step # "removing service"
    BY <1>4, <1>5, <1>7 DEF KubeInv, AtWork, Resting
  <2> QED
    BY <2>1, <1>4 DEF DeploymentFirst
<1> QED
  BY <1>4, <1>6, <1>7 DEF KubeInv

\* An operation begins.
LEMMA KubeBegins ==
  ASSUME KubeInv, NEW h \in KubeHandler, kube[h].step \in Resting, Free,
         NEW s \in KubeStep, s # "removing service", NEW k \in BOOLEAN,
         kube' = [kube EXCEPT ![h] = [step |-> s, address |-> k]], UNCHANGED deployment
  PROVE  KubeInv'
<1>1. KubeTyped' /\ kube'[h].step = s /\ \A g \in KubeHandler \ {h} : kube'[g] = kube[g]
  BY DEF KubeInv, KubeTyped
<1>2. together' \in BOOLEAN /\ (~together' => ~together /\ AtWork = {})
  BY DEF Free, KubeInv
<1>3. ASSUME ~together' PROVE DeploymentFirst' /\ \A g, i \in AtWork' : g = i
  <2>1. AtWork' \subseteq {h}
    BY <1>1, <1>2, <1>3 DEF AtWork
  <2>2. DeploymentFirst'
    BY <1>1, <1>2, <1>3 DEF DeploymentFirst, KubeInv
  <2> QED
    BY <2>1, <2>2
<1> QED
  BY <1>1, <1>2, <1>3 DEF KubeInv

\* Nothing of the invariant is disturbed.
LEMMA KubeInvStep == KubeInv /\ [KubeNext]_kubeVars => KubeInv'
<1> SUFFICES ASSUME KubeInv, [KubeNext]_kubeVars PROVE KubeInv'
  OBVIOUS
<1>1. CASE UNCHANGED kubeVars
  BY <1>1 DEF kubeVars, KubeInv, KubeTyped, DeploymentFirst, AtWork
<1>2. ASSUME NEW h \in KubeHandler, CreateNode(h) PROVE KubeInv'
  <2>1. PICK k \in BOOLEAN : kube' = [kube EXCEPT ![h] = [step |-> "listing", address |-> k]]
    BY <1>2 DEF CreateNode
  <2> QED
    BY <1>2, <2>1, KubeBegins DEF CreateNode, Resting, Working, KubeStep
<1>3. ASSUME NEW h \in KubeHandler, RemoveNode(h) PROVE KubeInv'
  <2>1. kube[h] \in [step : KubeStep, address : BOOLEAN]
    BY DEF KubeInv, KubeTyped
  <2>2. [kube[h] EXCEPT !.step = "listing to remove"] =
          [step |-> "listing to remove", address |-> kube[h].address]
    BY <2>1, KubeRecord, Zenon
  <2>3. kube' = [kube EXCEPT ![h] = [step |-> "listing to remove", address |-> kube[h].address]]
    BY <1>3, <2>2, Zenon DEF RemoveNode, Proceed
  <2>4. kube[h].address \in BOOLEAN
    BY <2>1
  <2> QED
    BY <1>3, <2>3, <2>4, KubeBegins DEF RemoveNode, Resting, Working, KubeStep
<1>4. ASSUME NEW h \in KubeHandler, ListToCreate(h) PROVE KubeInv'
  BY <1>4, KubeProceeds DEF ListToCreate, Resting, Working, KubeStep
<1>5. ASSUME NEW h \in KubeHandler, CreateDeployment(h) PROVE KubeInv'
  BY <1>5, KubeProceeds DEF CreateDeployment, Resting, Working, KubeStep
<1>6. ASSUME NEW h \in KubeHandler, CreateService(h) PROVE KubeInv'
  <2>1. CASE service
    BY <1>6, <2>1, KubeProceeds DEF CreateService, Resting, Working, KubeStep
  <2>2. CASE ~service
    <3>1. kube' = [kube EXCEPT ![h] = [step |-> "created", address |-> TRUE]]
      BY <1>6, <2>2 DEF CreateService
    <3>2. KubeTyped' /\ kube'[h].step = "created" /\ \A g \in KubeHandler \ {h} : kube'[g] = kube[g]
      BY <3>1 DEF KubeInv, KubeTyped, Resting, KubeStep
    <3>3. AtWork' \subseteq AtWork
      BY <3>2 DEF AtWork, Resting
    <3>4. DeploymentFirst => DeploymentFirst'
      BY <1>6, <3>2 DEF DeploymentFirst, CreateService
    <3> QED
      BY <1>6, <3>2, <3>3, <3>4 DEF CreateService, KubeInv
  <2> QED
    BY <2>1, <2>2
<1>7. ASSUME NEW h \in KubeHandler, CreateErrs(h) PROVE KubeInv'
  BY <1>7, KubeProceeds DEF CreateErrs, FailedCreate, Resting, Working, KubeStep
<1>8. ASSUME NEW h \in KubeHandler, ListToRemove(h) PROVE KubeInv'
  BY <1>8, KubeProceeds DEF ListToRemove, Resting, Working, KubeStep
<1>9. ASSUME NEW h \in KubeHandler, ScaleDown(h) PROVE KubeInv'
  BY <1>9, KubeProceeds DEF ScaleDown, Resting, Working, KubeStep
<1>10. ASSUME NEW h \in KubeHandler, ScaleDownFails(h) PROVE KubeInv'
  <2>1. \A k \in KubeHandler :
          /\ kube'[k] = IF kube[k].step = "unused" THEN kube[k] ELSE [kube[k] EXCEPT !.step = "dead"]
          /\ kube[k] \in [step : KubeStep, address : BOOLEAN]
    BY <1>10 DEF ScaleDownFails, KubeInv, KubeTyped
  <2>2. \A k \in KubeHandler :
          /\ kube'[k] \in [step : KubeStep, address : BOOLEAN]
          /\ kube'[k].step \in {"unused", "dead"}
    BY <2>1 DEF Resting, KubeStep
  <2>3. KubeTyped'
    BY <1>10, <2>2 DEF ScaleDownFails, KubeTyped
  <2>4. AtWork' = {}
    BY <2>2 DEF AtWork, Resting
  <2> QED
    BY <1>10, <2>2, <2>3, <2>4 DEF ScaleDownFails, KubeInv, DeploymentFirst
<1>11. ASSUME NEW h \in KubeHandler, RemoveDeployment(h) PROVE KubeInv'
  BY <1>11, KubeProceeds DEF RemoveDeployment, AfterDeployment, Resting, Working, KubeStep
<1>12. ASSUME NEW h \in KubeHandler, RemoveService(h) PROVE KubeInv'
  BY <1>12, KubeProceeds DEF RemoveService, Resting, Working, KubeStep
<1>13. ASSUME NEW h \in KubeHandler, RemoveErrs(h) PROVE KubeInv'
  BY <1>13, KubeProceeds DEF RemoveErrs, Resting, Working, KubeStep
<1> QED
  BY <1>1, <1>2, <1>3, <1>4, <1>5, <1>6, <1>7, <1>8, <1>9, <1>10, <1>11, <1>12, <1>13
     DEF KubeNext, ServerAnswers

\* A removal is confirmed by the last of its requests, which finds the service
\* and removes it, the deployment being gone.
LEMMA KubeConfirms == KubeInv /\ [KubeNext]_kubeVars => RemovedIsGoneStep
<1> SUFFICES ASSUME KubeInv, KubeNext, NEW h \in KubeHandler,
                    ~together, kube[h].step # "removed", kube'[h].step = "removed"
             PROVE  deployment' = "none" /\ ~service'
  BY DEF RemovedIsGoneStep, kubeVars
<1>1. PICK g \in KubeHandler :
        CreateNode(g) \/ RemoveNode(g) \/ ServerAnswers(g) \/ CreateErrs(g) \/ RemoveErrs(g)
  BY DEF KubeNext
<1>2. \A k \in KubeHandler : kube[k] \in [step : KubeStep, address : BOOLEAN]
  BY DEF KubeInv, KubeTyped
<1>3. \A s \in KubeStep : Proceed(g, s) => g = h /\ s = "removed"
  <2> SUFFICES ASSUME NEW s \in KubeStep, Proceed(g, s) PROVE g = h /\ s = "removed"
    OBVIOUS
  <2>1. [kube[g] EXCEPT !.step = s] = [step |-> s, address |-> kube[g].address]
    BY <1>2, KubeRecord, Zenon
  <2>2. kube' = [kube EXCEPT ![g] = [step |-> s, address |-> kube[g].address]]
    BY <2>1, Zenon DEF Proceed
  <2> QED
    BY <2>2 DEF KubeInv, KubeTyped
<1>r. /\ {"created", "create failed", "creating deployment", "creating service", "remove failed",
          "scaling down", "removing deployment", "removing service", "listing to remove",
          "removed"} \subseteq KubeStep
      /\ "listing to remove" # "removed" /\ "create failed" # "removed" /\ "remove failed" # "removed"
  BY DEF KubeStep, Resting, Working
<1>4. ~CreateNode(g) /\ ~RemoveNode(g) /\ ~CreateErrs(g) /\ ~RemoveErrs(g)
  <2>1. ~CreateNode(g)
    BY DEF CreateNode, KubeInv, KubeTyped
  <2> QED
    BY <1>3, <1>r, <2>1 DEF RemoveNode, CreateErrs, RemoveErrs, FailedCreate
<1>5. ~ListToCreate(g) /\ ~CreateDeployment(g) /\ ~ListToRemove(g) /\ ~ScaleDown(g) /\ ~RemoveDeployment(g)
  BY <1>3, <1>r DEF ListToCreate, CreateDeployment, ListToRemove, ScaleDown, RemoveDeployment, AfterDeployment
<1>6. ~CreateService(g)
  <2>1. kube' # [kube EXCEPT ![g] = [step |-> "created", address |-> TRUE]]
    BY DEF KubeInv, KubeTyped
  <2> QED
    BY <1>3, <1>r, <2>1 DEF CreateService
<1>7. ~ScaleDownFails(g)
  <2>1. ASSUME ScaleDownFails(g) PROVE FALSE
    <3>1. kube'[h] = IF kube[h].step = "unused" THEN kube[h] ELSE [kube[h] EXCEPT !.step = "dead"]
      BY <2>1 DEF ScaleDownFails
    <3> QED
      BY <1>2, <3>1
  <2> QED
    BY <2>1
<1>8. RemoveService(g)
  BY <1>1, <1>4, <1>5, <1>6, <1>7 DEF ServerAnswers
<1>9. g = h /\ service
  BY <1>3, <1>r, <1>8 DEF RemoveService
<1> QED
  BY <1>8, <1>9 DEF RemoveService, KubeInv, DeploymentFirst

\* A confirmed removal leaves neither deployment nor service, whatever earlier
\* attempts have left, if operations have come one after the other.
THEOREM RemovalsAreComplete == KubeSpec => RemovedIsGone
<1>1. KubeInit => KubeInv
  <2> SUFFICES ASSUME KubeInit PROVE KubeInv
    OBVIOUS
  <2>1. "unused" \in KubeStep
    BY DEF KubeStep, Resting
  <2>2. KubeTyped
    BY <2>1 DEF KubeInit, KubeTyped
  <2> QED
    BY <2>2 DEF KubeInit, KubeInv, DeploymentFirst, AtWork, Resting
<1> QED
  BY <1>1, KubeInvStep, KubeConfirms, PTL DEF KubeSpec, RemovedIsGone

-----------------------------------------------------------------------------
(* RemoteNode *)

Number == Nat \ {0}
Asked == [id : Number, command : Command]
Run == [id : Number, command : Command, heard : BOOLEAN]
Answered == [id : Number, payload : {"array", "other", "object", "error"}]

Ids(q) == {q[i].id : i \in DOMAIN q}
RunIds == {r.id : r \in running}

\* The identifiers of a queue, each in it once.
Once(q) == \A i, j \in DOMAIN q : q[i].id = q[j].id => i = j

WireTyped ==
  /\ requests \in Seq(Asked) /\ running \subseteq Run /\ answers \in Seq(Answered)
  /\ sent \in 0..MaxRequests /\ requestMap \subseteq 1..sent
  /\ sock \in {"none", "open", "closed"} /\ node \in BOOLEAN
  /\ metadata \in {"unset", "undefined", "metadata"} /\ faults \in 0..MaxFaults

\* A request is in one place: on its way, at the node, or answered.
InOnePlace ==
  /\ Once(requests) /\ Once(answers)
  /\ \A r, s \in running : r.id = s.id => r = s
  /\ Ids(requests) \cap RunIds = {} /\ Ids(requests) \cap Ids(answers) = {}
  /\ RunIds \cap Ids(answers) = {}

\* Only what was sent is anywhere.
WireInv == WireTyped /\ InOnePlace /\ UnderWay \subseteq 1..sent

Waits(c) == call[c].phase = "waiting"

CallsInv ==
  /\ DOMAIN call = Caller \cup {"init"}
  /\ \A c \in DOMAIN call :
       call[c].phase \in {"idle", "waiting", "html", "resolved", "rejected", "timeout"}
  /\ OwnAnswer /\ WaiterHasEntry

\* Before the socket opens nothing is sent and nobody calls.
NotBefore ==
  sock = "none" => sent = 0 /\ \A c \in DOMAIN call : call[c].phase = "idle"

\* While nothing breaks every answer of the node finds its way.
Unbroken == faults = 0 => node /\ \A r \in running : r.heard

RemoteInv == WireInv /\ CallsInv /\ NotBefore /\ Unbroken /\ LeaksOnlyByFailure

-----------------------------------------------------------------------------

\* A queue that grows by one.
LEMMA AppendIds ==
  ASSUME NEW R, NEW q \in Seq(R), NEW x \in R, Once(q), x.id \notin Ids(q)
  PROVE  /\ Append(q, x) \in Seq(R) /\ Once(Append(q, x))
         /\ Ids(Append(q, x)) = Ids(q) \cup {x.id}
<1> DEFINE p == Append(q, x)
<1>1. p \in Seq(R) /\ Len(p) = Len(q) + 1 /\ DOMAIN p = 1..Len(p) /\ DOMAIN q = 1..Len(q) /\ Len(q) \in Nat
  OBVIOUS
<1>2. p[Len(q) + 1] = x /\ \A i \in DOMAIN q : p[i] = q[i]
  OBVIOUS
<1>3. \A i \in DOMAIN p : i = Len(q) + 1 \/ i \in DOMAIN q
  BY <1>1
<1> HIDE DEF p
<1>4. Once(p)
  BY <1>1, <1>2, <1>3 DEF Once, Ids
<1>5. Ids(p) = Ids(q) \cup {x.id}
  BY <1>1, <1>2, <1>3 DEF Ids
<1> QED
  BY <1>1, <1>4, <1>5 DEF p

\* A queue whose first entry is taken.
LEMMA TailIds ==
  ASSUME NEW R, NEW q \in Seq(R), q # <<>>, Once(q)
  PROVE  /\ Tail(q) \in Seq(R) /\ Once(Tail(q)) /\ Head(q) \in R
         /\ Ids(Tail(q)) = Ids(q) \ {Head(q).id} /\ Head(q).id \in Ids(q)
<1> DEFINE p == Tail(q)
<1>1. p \in Seq(R) /\ Len(p) = Len(q) - 1 /\ DOMAIN p = 1..Len(p) /\ DOMAIN q = 1..Len(q) /\ Len(q) \in Nat \ {0}
  OBVIOUS
<1>2. \A i \in DOMAIN p : p[i] = q[i + 1] /\ i + 1 \in DOMAIN q
  OBVIOUS
<1>3. Head(q) = q[1] /\ 1 \in DOMAIN q /\ Head(q) \in R
  OBVIOUS
<1>4. \A j \in DOMAIN q \ {1} : (j - 1) \in DOMAIN p /\ p[j - 1] = q[j]
  BY <1>1, <1>2
<1>5. DOMAIN p \subseteq Nat \ {0}
  BY <1>1
<1> HIDE DEF p
<1>6. Once(p)
  <2> SUFFICES ASSUME NEW i \in DOMAIN p, NEW j \in DOMAIN p, p[i].id = p[j].id PROVE i = j
    BY DEF Once
  <2>1. i + 1 = j + 1
    BY <1>2 DEF Once
  <2> QED
    BY <2>1, <1>5
<1>7. \A k \in Ids(p) : k \in Ids(q) /\ k # Head(q).id
  <2> SUFFICES ASSUME NEW i \in DOMAIN p PROVE p[i].id \in Ids(q) /\ p[i].id # q[1].id
    BY <1>3 DEF Ids
  <2>1. i + 1 # 1
    BY <1>5
  <2> QED
    BY <1>2, <1>3, <2>1 DEF Ids, Once
<1>8. \A k \in Ids(q) : k # Head(q).id => k \in Ids(p)
  BY <1>3, <1>4 DEF Ids
<1>9. Head(q).id \in Ids(q)
  BY <1>3 DEF Ids
<1> QED
  BY <1>1, <1>3, <1>6, <1>7, <1>8, <1>9 DEF p

\* The places of a request.
LEMMA Places == UnderWay = Ids(requests) \cup RunIds \cup Ids(answers)
BY DEF UnderWay, Ids, RunIds

\* A request with a new identifier goes out.
LEMMA WireSends ==
  ASSUME WireInv, NEW command \in Command, sent < MaxRequests, sent' = sent + 1,
         requestMap' = requestMap \cup {NewId},
         requests' = Append(requests, [id |-> NewId, command |-> command]),
         sock' \in {"none", "open", "closed"},
         UNCHANGED <<nodeVars, answers, metadata, faults>>
  PROVE  WireInv' /\ UnderWay' = UnderWay \cup {NewId}
<1>1. sent \in Nat /\ NewId \in Number /\ NewId \notin 1..sent /\ sent' \in 0..MaxRequests /\ 1..sent \subseteq 1..sent'
        /\ NewId \in 1..sent'
  BY RemoteAssumption DEF WireInv, WireTyped, NewId, Number
<1>2. NewId \notin UnderWay
  BY <1>1 DEF WireInv
<1>3. [id |-> NewId, command |-> command] \in Asked
  BY <1>1 DEF Asked
<1>4. /\ requests' \in Seq(Asked) /\ Once(requests')
      /\ Ids(requests') = Ids(requests) \cup {NewId}
  BY <1>2, <1>3, Places, AppendIds DEF WireInv, WireTyped, InOnePlace
<1>5. RunIds' = RunIds /\ Ids(answers)' = Ids(answers) /\ Ids(requests)' = Ids(requests')
  BY DEF RunIds, nodeVars, Ids
<1>6. UnderWay' = UnderWay \cup {NewId}
  <2>1. UnderWay' = Ids(requests)' \cup RunIds' \cup Ids(answers)'
    BY DEF UnderWay, Ids, RunIds
  <2> QED
    BY <1>4, <1>5, <2>1, Places
<1>7. WireTyped'
  BY <1>1, <1>4 DEF WireInv, WireTyped, nodeVars
<1>8. InOnePlace'
  BY <1>2, <1>4, <1>5, Places DEF WireInv, InOnePlace, nodeVars, Once
<1> QED
  BY <1>1, <1>6, <1>7, <1>8 DEF WireInv

\* A request that cannot go out leaves its entry.
LEMMA WireRefuses ==
  ASSUME WireInv, sent < MaxRequests, sent' = sent + 1, requestMap' = requestMap \cup {NewId},
         UNCHANGED <<requests, sock, nodeVars, answers, metadata, faults>>
  PROVE  WireInv'
<1>1. sent \in Nat /\ sent' \in 0..MaxRequests /\ 1..sent \subseteq 1..sent' /\ NewId \in 1..sent'
  BY RemoteAssumption DEF WireInv, WireTyped, NewId
<1>2. UnderWay' = UnderWay
  BY DEF UnderWay, nodeVars
<1>3. InOnePlace'
  <2>1. Ids(requests)' = Ids(requests) /\ RunIds' = RunIds /\ Ids(answers)' = Ids(answers)
          /\ Once(requests)' = Once(requests) /\ Once(answers)' = Once(answers)
    BY DEF Ids, RunIds, nodeVars, Once
  <2> QED
    BY <2>1 DEF WireInv, InOnePlace, nodeVars
<1> QED
  BY <1>1, <1>2, <1>3 DEF WireInv, WireTyped, nodeVars

\* Requests and answers that are lost leave the others where they are.
LEMMA WireLoses ==
  ASSUME WireInv, UNCHANGED <<requests, sent, requestMap, metadata>>,
         running' \subseteq Run, \A r \in running' : \E s \in running : r.id = s.id,
         \A r, s \in running' : r.id = s.id => r = s,
         answers' = <<>> \/ answers' = answers,
         sock' \in {"none", "open", "closed"}, node' \in BOOLEAN, faults' \in 0..MaxFaults
  PROVE  WireInv'
<1>1. RunIds' \subseteq RunIds
  BY DEF RunIds
<1>2. Ids(answers') \subseteq Ids(answers) /\ Once(answers') /\ answers' \in Seq(Answered)
  <2>1. CASE answers' = <<>>
    BY <2>1 DEF Ids, Once
  <2>2. CASE answers' = answers
    BY <2>2 DEF WireInv, WireTyped, InOnePlace
  <2> QED
    BY <2>1, <2>2
<1>3. UnderWay' \subseteq UnderWay
  <2>1. UnderWay' = Ids(requests)' \cup RunIds' \cup Ids(answers)'
    BY DEF UnderWay, Ids, RunIds
  <2>2. Ids(requests)' = Ids(requests) /\ Ids(answers)' = Ids(answers')
    BY DEF Ids
  <2> QED
    BY <1>1, <1>2, <2>1, <2>2, Places
<1>4. WireTyped'
  BY <1>2 DEF WireInv, WireTyped
<1>5. InOnePlace'
  <2>1. Ids(requests)' = Ids(requests) /\ Ids(answers)' = Ids(answers') /\ Once(requests)' = Once(requests)
          /\ Once(answers)' = Once(answers')
    BY DEF Ids, Once
  <2> QED
    BY <1>1, <1>2, <2>1 DEF WireInv, InOnePlace
<1> QED
  BY <1>3, <1>4, <1>5 DEF WireInv

\* Nothing moves.
LEMMA WireStays ==
  ASSUME WireInv, UNCHANGED <<sock, requestMap, sent, requests, node, running, answers, metadata, faults>>
  PROVE  WireInv' /\ UnderWay' = UnderWay
<1>1. /\ running \subseteq Run /\ \A r, s \in running : r.id = s.id => r = s
      /\ sock \in {"none", "open", "closed"} /\ node \in BOOLEAN /\ faults \in 0..MaxFaults
  BY DEF WireInv, WireTyped, InOnePlace
<1>2. UnderWay' = UnderWay
  BY DEF UnderWay
<1> QED
  BY <1>1, <1>2, WireLoses

-----------------------------------------------------------------------------

\* The calls of the others stay; a caller that waits has an entry.
LEMMA CallsStay ==
  ASSUME CallsInv, NEW c \in DOMAIN call, NEW r, call' = [call EXCEPT ![c] = r],
         r.phase \in {"idle", "waiting", "html", "resolved", "rejected", "timeout"},
         "by" \notin DOMAIN r, r.phase = "waiting" => r.id \in requestMap',
         requestMap \subseteq requestMap'
  PROVE  CallsInv'
<1>1. DOMAIN call' = DOMAIN call /\ call'[c] = r /\ \A d \in DOMAIN call \ {c} : call'[d] = call[d]
  OBVIOUS
<1>2. OwnAnswer'
  BY <1>1 DEF CallsInv, OwnAnswer
<1>3. WaiterHasEntry'
  BY <1>1 DEF CallsInv, WaiterHasEntry
<1> QED
  BY <1>1, <1>2, <1>3 DEF CallsInv

\* A request, or its refusal by a closed socket.
LEMMA RemoteSends ==
  ASSUME RemoteInv, NEW c \in DOMAIN call, NEW command \in Command, sock # "none",
         SendRequest(c, command), UNCHANGED <<sock, nodeVars, answers, metadata, faults>>
  PROVE  RemoteInv'
<1>1. CASE sock = "open"
  <2>1. /\ sent < MaxRequests /\ sent' = sent + 1 /\ requestMap' = requestMap \cup {NewId}
        /\ requests' = Append(requests, [id |-> NewId, command |-> command])
        /\ call' = [call EXCEPT ![c] = [phase |-> "waiting", id |-> NewId, command |-> command]]
    BY <1>1 DEF SendRequest
  <2>2. WireInv' /\ UnderWay' = UnderWay \cup {NewId}
    BY <1>1, <2>1, WireSends DEF RemoteInv
  <2>3. CallsInv'
    <3> DEFINE r == [phase |-> "waiting", id |-> NewId, command |-> command]
    <3>1. r.phase = "waiting" /\ "by" \notin DOMAIN r /\ r.id = NewId
      OBVIOUS
    <3>2. call' = [call EXCEPT ![c] = r] /\ CallsInv /\ NewId \in requestMap' /\ requestMap \subseteq requestMap'
      BY <2>1 DEF RemoteInv
    <3> HIDE DEF r
    <3> QED
      BY <3>1, <3>2, CallsStay
  <2>4. LeaksOnlyByFailure'
    BY <2>1, <2>2 DEF LeaksOnlyByFailure, RemoteInv
  <2> QED
    BY <1>1, <2>2, <2>3, <2>4 DEF RemoteInv, NotBefore, Unbroken, nodeVars
<1>2. CASE sock # "open"
  <2>1. /\ sent < MaxRequests /\ sent' = sent + 1 /\ requestMap' = requestMap \cup {NewId}
        /\ UNCHANGED requests
        /\ call' = [call EXCEPT ![c] = [phase |-> "rejected", id |-> NewId]]
    BY <1>2 DEF SendRequest
  <2>2. WireInv'
    BY <2>1, WireRefuses DEF RemoteInv
  <2>3. CallsInv'
    <3> DEFINE r == [phase |-> "rejected", id |-> NewId]
    <3>1. r.phase = "rejected" /\ "by" \notin DOMAIN r
      OBVIOUS
    <3>2. call' = [call EXCEPT ![c] = r] /\ CallsInv /\ requestMap \subseteq requestMap'
      BY <2>1 DEF RemoteInv
    <3> HIDE DEF r
    <3> QED
      BY <3>1, <3>2, CallsStay
  <2>4. LeaksOnlyByFailure' /\ NotBefore'
    BY <1>2 DEF LeaksOnlyByFailure, NotBefore
  <2> QED
    BY <2>2, <2>3, <2>4 DEF RemoteInv, Unbroken, nodeVars
<1> QED
  BY <1>1, <1>2

\* The socket opens with the request for the metadata.
LEMMA RemoteOpens == RemoteInv /\ HandlerInit => RemoteInv'
<1> SUFFICES ASSUME RemoteInv, HandlerInit PROVE RemoteInv'
  OBVIOUS
<1>1. sent = 0 /\ sent < MaxRequests /\ requestMap = {} /\ UnderWay = {}
  <2>1. sent = 0
    BY DEF RemoteInv, NotBefore, HandlerInit
  <2> QED
    BY <2>1, RemoteAssumption DEF RemoteInv, WireInv, WireTyped
<1>2. "metadata" \in Command
  BY DEF Command
<1>3. WireInv' /\ UnderWay' = UnderWay \cup {NewId}
  BY <1>1, <1>2, WireSends DEF HandlerInit, RemoteInv
<1>4. CallsInv'
  <2>1. "init" \in DOMAIN call
    BY DEF RemoteInv, CallsInv
  <2> DEFINE r == [phase |-> "waiting", id |-> NewId, command |-> "metadata"]
  <2>2. r.phase = "waiting" /\ "by" \notin DOMAIN r /\ r.id = NewId
    OBVIOUS
  <2>3. call' = [call EXCEPT !["init"] = r] /\ CallsInv /\ NewId \in requestMap' /\ requestMap \subseteq requestMap'
    BY DEF HandlerInit, RemoteInv
  <2> HIDE DEF r
  <2> QED
    BY <2>1, <2>2, <2>3, CallsStay
<1>5. LeaksOnlyByFailure'
  BY <1>1, <1>3 DEF LeaksOnlyByFailure, HandlerInit
<1> QED
  BY <1>3, <1>4, <1>5 DEF RemoteInv, NotBefore, Unbroken, HandlerInit, nodeVars

\* An answer ends the call that waits for it, and no other.
LEMMA RemoteHears == RemoteInv /\ OnMessage => RemoteInv'
<1> SUFFICES ASSUME RemoteInv, OnMessage PROVE RemoteInv'
  OBVIOUS
<1> DEFINE answer == Head(answers)
           ended == {c \in DOMAIN call : Waits(c) /\ call[c].id \in Entry(answer.id)}
<1>1. /\ answers # <<>> /\ answers' = Tail(answers) /\ sock = "open"
      /\ requestMap' = (IF Entry(answer.id) = {} THEN requestMap ELSE Expected(answer.id))
      /\ UNCHANGED <<sock, sent, requests, nodeVars, faults>>
  BY DEF OnMessage
<1>2. PICK how \in [ended -> {"resolved", "rejected", "html"}] :
        call' = [c \in DOMAIN call |-> IF c \notin ended THEN call[c]
                   ELSE [phase |-> how[c], id |-> call[c].id, by |-> answer.id]]
  BY Zenon DEF OnMessage, Waits
<1>3. metadata' \in {"unset", "undefined", "metadata"}
  BY DEF OnMessage, RemoteInv, WireInv, WireTyped
<1>4. /\ answers' \in Seq(Answered) /\ Once(answers') /\ answer.id \in Ids(answers)
      /\ Ids(answers') = Ids(answers) \ {answer.id}
  BY <1>1, TailIds DEF RemoteInv, WireInv, WireTyped, InOnePlace
<1>5. requestMap' = requestMap \ {answer.id}
  BY <1>1 DEF Entry, Expected
<1>6. Ids(requests)' = Ids(requests) /\ RunIds' = RunIds /\ Ids(answers)' = Ids(answers')
        /\ Once(requests)' = Once(requests) /\ Once(answers)' = Once(answers')
  BY <1>1 DEF Ids, RunIds, nodeVars, Once
<1>7. UnderWay' = UnderWay \ {answer.id}
  <2>1. UnderWay' = Ids(requests)' \cup RunIds' \cup Ids(answers)'
    BY DEF UnderWay, Ids, RunIds
  <2>2. answer.id \notin Ids(requests) \cup RunIds
    BY <1>4 DEF RemoteInv, WireInv, InOnePlace
  <2> QED
    BY <1>4, <1>6, <2>1, <2>2, Places
<1>8. WireInv'
  <2>1. WireTyped'
    BY <1>1, <1>3, <1>4, <1>5 DEF RemoteInv, WireInv, WireTyped, nodeVars
  <2>2. InOnePlace'
    BY <1>1, <1>4, <1>6 DEF RemoteInv, WireInv, InOnePlace, nodeVars
  <2> QED
    BY <1>1, <1>7, <2>1, <2>2 DEF RemoteInv, WireInv
<1>9. CallsInv'
  <2>1. DOMAIN call' = DOMAIN call
    BY <1>2
  <2>2. \A c \in DOMAIN call :
          \/ call'[c] = call[c] /\ c \notin ended
          \/ call'[c].by = call'[c].id /\ call'[c].phase \in {"resolved", "rejected", "html"}
    <3> SUFFICES ASSUME NEW c \in DOMAIN call
                 PROVE  \/ call'[c] = call[c] /\ c \notin ended
                        \/ /\ call'[c].by = call'[c].id
                           /\ call'[c].phase \in {"resolved", "rejected", "html"}
      OBVIOUS
    <3>1. CASE c \notin ended
      BY <1>2, <3>1
    <3>2. CASE c \in ended
      <4>1. call[c].id = answer.id
        BY <3>2 DEF Entry
      <4>2. call'[c] = [phase |-> how[c], id |-> call[c].id, by |-> answer.id]
        BY <1>2, <3>2
      <4>3. how[c] \in {"resolved", "rejected", "html"}
        BY <1>2, <3>2
      <4> QED
        BY <4>1, <4>2, <4>3
    <3> QED
      BY <3>1, <3>2
  <2>3. \A c \in DOMAIN call \ ended : Waits(c) => call[c].id # answer.id
    BY DEF Entry, RemoteInv, CallsInv, WaiterHasEntry, Waits
  <2> HIDE DEF answer, ended
  <2>4. OwnAnswer'
    BY <2>1, <2>2 DEF RemoteInv, CallsInv, OwnAnswer
  <2>5. WaiterHasEntry'
    <3> SUFFICES ASSUME NEW c \in DOMAIN call, call'[c].phase = "waiting" PROVE call'[c].id \in requestMap'
      BY <2>1 DEF WaiterHasEntry
    <3>1. call'[c] = call[c] /\ c \notin ended
      BY <2>2
    <3> QED
      BY <1>5, <2>3, <3>1 DEF RemoteInv, CallsInv, WaiterHasEntry, Waits
  <2>6. \A c \in DOMAIN call :
          call'[c].phase \in {"idle", "waiting", "html", "resolved", "rejected", "timeout"}
    BY <2>2 DEF RemoteInv, CallsInv
  <2> QED
    BY <2>1, <2>4, <2>5, <2>6 DEF RemoteInv, CallsInv
<1>10. LeaksOnlyByFailure'
  BY <1>1, <1>5, <1>7 DEF LeaksOnlyByFailure, RemoteInv
<1> QED
  BY <1>1, <1>8, <1>9, <1>10 DEF RemoteInv, NotBefore, Unbroken, nodeVars

\* A call and the request of the page are requests like others.
LEMMA RemoteCalls == RemoteInv /\ (AskForPage \/ \E c \in Caller : Call(c)) => RemoteInv'
<1>1. ASSUME RemoteInv, AskForPage PROVE RemoteInv'
  <2>1. "init" \in DOMAIN call /\ sock # "none"
    BY <1>1 DEF RemoteInv, CallsInv, NotBefore, AskForPage
  <2>2. "html" \in Command
    BY DEF Command
  <2> QED
    BY <1>1, <2>1, <2>2, RemoteSends DEF AskForPage
<1>2. ASSUME RemoteInv, NEW c \in Caller, Call(c) PROVE RemoteInv'
  <2>1. c \in DOMAIN call
    BY <1>2 DEF RemoteInv, CallsInv
  <2>2. PICK command \in {"message", "locale"} : SendRequest(c, command)
    BY <1>2 DEF Call
  <2>3. command \in Command
    BY DEF Command
  <2> QED
    BY <1>2, <2>1, <2>2, <2>3, RemoteSends DEF Call
<1> QED
  BY <1>1, <1>2

\* A task is given up; its entry stays.
LEMMA RemoteGivesUp == ASSUME NEW c \in Caller PROVE RemoteInv /\ TaskTimeout(c) => RemoteInv'
<1> SUFFICES ASSUME RemoteInv, TaskTimeout(c) PROVE RemoteInv'
  OBVIOUS
<1> DEFINE r == [phase |-> "timeout", id |-> call[c].id]
<1>1. r.phase = "timeout" /\ "by" \notin DOMAIN r
  OBVIOUS
<1>2. call' = [call EXCEPT ![c] = r] /\ CallsInv /\ c \in DOMAIN call /\ requestMap \subseteq requestMap'
  BY DEF TaskTimeout, RemoteInv, CallsInv, dispatcherVars
<1> HIDE DEF r
<1>3. CallsInv'
  BY <1>1, <1>2, CallsStay
<1>4. WireInv' /\ Unbroken' /\ LeaksOnlyByFailure' /\ UnderWay' = UnderWay
  <2>1. UNCHANGED <<sock, requestMap, sent, requests, node, running, answers, metadata, faults>>
    BY DEF TaskTimeout, dispatcherVars, nodeVars
  <2>2. UnderWay' = UnderWay /\ WireInv'
    BY <2>1, WireStays DEF RemoteInv
  <2> QED
    BY <2>1, <2>2 DEF RemoteInv, Unbroken, LeaksOnlyByFailure
<1>5. NotBefore'
  <2>1. call[c].phase = "waiting" /\ sock' = sock
    BY DEF TaskTimeout
  <2>2. sock # "none"
    BY <1>2, <2>1 DEF RemoteInv, NotBefore
  <2> QED
    BY <2>1, <2>2 DEF NotBefore
<1> QED
  BY <1>3, <1>4, <1>5 DEF RemoteInv

\* A request reaches the node.
LEMMA RemoteTakes == RemoteInv /\ Take => RemoteInv'
<1> SUFFICES ASSUME RemoteInv, Take PROVE RemoteInv'
  OBVIOUS
<1> DEFINE x == Head(requests)
           r == [id |-> x.id, command |-> x.command, heard |-> TRUE]
<1>1. /\ requests # <<>> /\ requests' = Tail(requests) /\ running' = running \cup {r} /\ node
      /\ UNCHANGED <<sock, requestMap, sent, node, answers, call, metadata, faults>>
  BY DEF Take
<1>2. /\ requests' \in Seq(Asked) /\ Once(requests') /\ x \in Asked
      /\ Ids(requests') = Ids(requests) \ {x.id} /\ x.id \in Ids(requests)
  BY <1>1, TailIds DEF RemoteInv, WireInv, WireTyped, InOnePlace
<1>3. r \in Run /\ r.id = x.id /\ r.heard
  BY <1>2 DEF Run, Asked
<1> HIDE DEF x, r
<1>4. Ids(requests)' = Ids(requests') /\ Ids(answers)' = Ids(answers)
        /\ Once(requests)' = Once(requests') /\ Once(answers)' = Once(answers)
  BY <1>1 DEF Ids, Once
<1>5. RunIds' = RunIds \cup {x.id}
  BY <1>1, <1>3 DEF RunIds
<1>6. UnderWay' = UnderWay
  <2>1. UnderWay' = Ids(requests)' \cup RunIds' \cup Ids(answers)'
    BY DEF UnderWay, Ids, RunIds
  <2> QED
    BY <1>2, <1>4, <1>5, <2>1, Places
<1>7. InOnePlace'
  <2>1. x.id \notin RunIds /\ x.id \notin Ids(answers)
    BY <1>2 DEF RemoteInv, WireInv, InOnePlace
  <2>2. \A p, q \in running' : p.id = q.id => p = q
    BY <1>1, <1>3, <2>1 DEF RemoteInv, WireInv, InOnePlace, RunIds
  <2> QED
    BY <1>2, <1>4, <1>5, <2>1, <2>2 DEF RemoteInv, WireInv, InOnePlace
<1>8. WireInv'
  BY <1>1, <1>2, <1>3, <1>6, <1>7 DEF RemoteInv, WireInv, WireTyped
<1>9. CallsInv' /\ NotBefore' /\ LeaksOnlyByFailure'
  BY <1>1, <1>6 DEF RemoteInv, CallsInv, OwnAnswer, WaiterHasEntry, NotBefore, LeaksOnlyByFailure
<1>10. Unbroken'
  BY <1>1, <1>3 DEF RemoteInv, Unbroken
<1> QED
  BY <1>8, <1>9, <1>10 DEF RemoteInv

\* The node's code ends, and its answer finds its way or does not.
LEMMA RemoteAnswers == RemoteInv /\ Handled => RemoteInv'
<1> SUFFICES ASSUME RemoteInv, NEW r \in running, NEW payload \in Payloads(r.command), node,
               running' = running \ {r},
               answers' = IF r.heard /\ sock = "open" THEN answers \o Reply(r, payload) ELSE answers,
               UNCHANGED <<sock, dispatcherVars, node, call, metadata, faults>>
             PROVE RemoteInv'
  BY DEF Handled
<1> DEFINE x == [id |-> r.id, payload |-> payload]
<1>1. r \in Run /\ x \in Answered /\ x.id = r.id
  BY DEF RemoteInv, WireInv, WireTyped, Payloads, Run, Answered
<1>2. Once(answers) /\ answers \in Seq(Answered) /\ r.id \notin Ids(answers) /\ r.id \in RunIds
        /\ r.id \notin Ids(requests)
  BY DEF RemoteInv, WireInv, WireTyped, InOnePlace, RunIds
<1>3. answers \o Reply(r, payload) = Append(answers, x)
  BY <1>1, <1>2 DEF Reply
<1> HIDE DEF x
<1>4. /\ answers' \in Seq(Answered) /\ Once(answers')
      /\ Ids(answers') = IF r.heard /\ sock = "open" THEN Ids(answers) \cup {r.id} ELSE Ids(answers)
  <2>1. CASE r.heard /\ sock = "open"
    <3>1. answers' = Append(answers, x)
      BY <1>3, <2>1
    <3>2. /\ Append(answers, x) \in Seq(Answered) /\ Once(Append(answers, x))
          /\ Ids(Append(answers, x)) = Ids(answers) \cup {x.id}
      BY <1>1, <1>2, AppendIds
    <3> QED
      BY <1>1, <2>1, <3>1, <3>2
  <2>2. CASE ~(r.heard /\ sock = "open")
    BY <1>2, <2>2
  <2> QED
    BY <2>1, <2>2
<1>5. RunIds' = RunIds \ {r.id}
  BY DEF RunIds, RemoteInv, WireInv, InOnePlace
<1>6. Ids(requests)' = Ids(requests) /\ Ids(answers)' = Ids(answers')
        /\ Once(requests)' = Once(requests) /\ Once(answers)' = Once(answers')
  BY DEF Ids, Once, dispatcherVars
<1>7. UnderWay' = IF r.heard /\ sock = "open" THEN UnderWay ELSE UnderWay \ {r.id}
  <2>1. UnderWay' = Ids(requests)' \cup RunIds' \cup Ids(answers)'
    BY DEF UnderWay, Ids, RunIds
  <2> QED
    BY <1>2, <1>4, <1>5, <1>6, <2>1, Places
<1>8. InOnePlace'
  BY <1>2, <1>4, <1>5, <1>6 DEF RemoteInv, WireInv, InOnePlace
<1>9. WireInv'
  BY <1>4, <1>7, <1>8 DEF RemoteInv, WireInv, WireTyped, dispatcherVars
<1>10. CallsInv' /\ NotBefore' /\ Unbroken'
  BY DEF RemoteInv, CallsInv, OwnAnswer, WaiterHasEntry, NotBefore, Unbroken, dispatcherVars
<1>11. LeaksOnlyByFailure'
  BY <1>7 DEF RemoteInv, Unbroken, LeaksOnlyByFailure, dispatcherVars
<1> QED
  BY <1>9, <1>10, <1>11 DEF RemoteInv

\* The node is removed, crashes, starts again, or its connection breaks.
LEMMA RemoteBreaks ==
  RemoteInv /\ (Deinit \/ NodeCrash \/ NodeRestart \/ ConnectionBreaks) => RemoteInv'
<1> SUFFICES ASSUME RemoteInv, Deinit \/ NodeCrash \/ NodeRestart \/ ConnectionBreaks
             PROVE  RemoteInv'
  OBVIOUS
<1>0. /\ running \subseteq Run /\ faults \in 0..MaxFaults /\ sock \in {"none", "open", "closed"}
      /\ \A r, s \in running : r.id = s.id => r = s
  BY DEF RemoteInv, WireInv, WireTyped, InOnePlace
<1>1. /\ UNCHANGED <<requests, sent, requestMap, metadata, call>>
      /\ answers' = <<>> \/ answers' = answers
  BY DEF Deinit, NodeCrash, NodeRestart, ConnectionBreaks, dispatcherVars
<1>2. /\ running' \subseteq Run /\ \A r \in running' : \E s \in running : r.id = s.id
      /\ \A r, s \in running' : r.id = s.id => r = s
  <2>1. CASE running' = running \/ running' = {}
    BY <1>0, <2>1
  <2>2. CASE running' = {[r EXCEPT !.heard = FALSE] : r \in running}
    <3>1. \A r \in Run : /\ [r EXCEPT !.heard = FALSE] \in Run
                         /\ [r EXCEPT !.heard = FALSE].id = r.id
      BY DEF Run
    <3>2. \A r \in running' : \E s \in running : r = [s EXCEPT !.heard = FALSE] /\ r.id = s.id /\ r \in Run
      BY <1>0, <2>2, <3>1
    <3> QED
      BY <1>0, <3>2
  <2> QED
    BY <2>1, <2>2 DEF Deinit, NodeCrash, NodeRestart, ConnectionBreaks, nodeVars
<1>3. sock' \in {"none", "open", "closed"} /\ node' \in BOOLEAN
  BY <1>0 DEF Deinit, NodeCrash, NodeRestart, ConnectionBreaks, nodeVars, RemoteInv, WireInv, WireTyped
<1>4. faults' \in 0..MaxFaults
  BY <1>0, RemoteAssumption DEF Deinit, NodeCrash, NodeRestart, ConnectionBreaks
<1>5. WireInv'
  BY <1>1, <1>2, <1>3, <1>4, WireLoses DEF RemoteInv
<1>6. CallsInv' /\ NotBefore'
  <2>1. sock' = "none" => sock = "none"
    BY DEF Deinit, NodeCrash, NodeRestart, ConnectionBreaks
  <2> QED
    BY <1>1, <2>1 DEF RemoteInv, CallsInv, OwnAnswer, WaiterHasEntry, NotBefore
<1>7. faults' # 0 \/ sock' # "open"
  <2>1. CASE Deinit
    BY <2>1 DEF Deinit
  <2>2. CASE NodeCrash \/ ConnectionBreaks
    BY <1>0, <2>2, RemoteAssumption DEF NodeCrash, ConnectionBreaks
  <2>3. CASE NodeRestart
    BY <2>3 DEF NodeRestart, RemoteInv, Unbroken
  <2> QED
    BY <2>1, <2>2, <2>3
<1>8. LeaksOnlyByFailure'
  BY <1>7 DEF LeaksOnlyByFailure
<1>9. Unbroken'
  <2>1. CASE Deinit
    BY <2>1 DEF Deinit, nodeVars, RemoteInv, Unbroken
  <2>2. CASE ~Deinit
    <3>1. faults' # 0
      <4>1. CASE NodeCrash \/ ConnectionBreaks
        BY <1>0, <4>1, RemoteAssumption DEF NodeCrash, ConnectionBreaks
      <4>2. CASE NodeRestart
        BY <4>2 DEF NodeRestart, RemoteInv, Unbroken
      <4> QED
        BY <2>2, <4>1, <4>2
    <3> QED
      BY <3>1 DEF Unbroken
  <2> QED
    BY <2>1, <2>2
<1> QED
  BY <1>5, <1>6, <1>8, <1>9 DEF RemoteInv

\* The invariant says what is promised.
LEMMA RemoteInvSound == RemoteInv => RequestMapSound
<1> SUFFICES ASSUME RemoteInv PROVE RequestMapSound
  OBVIOUS
<1>1. \A i \in DOMAIN requests : requests[i].id \in 1..sent /\ requests[i].command \in Command
  <2>1. \A i \in DOMAIN requests : requests[i] \in Asked
    BY DEF RemoteInv, WireInv, WireTyped
  <2>2. \A i \in DOMAIN requests : requests[i].id \in 1..sent
    BY DEF RemoteInv, WireInv, UnderWay
  <2> QED
    BY <2>1, <2>2 DEF Asked
<1>2. \A r \in running : r.id \in 1..sent /\ r.command \in Command /\ r.heard \in BOOLEAN
  BY DEF RemoteInv, WireInv, WireTyped, UnderWay, Run
<1>3. \A i \in DOMAIN answers : answers[i].id \in 1..sent
  BY DEF RemoteInv, WireInv, UnderWay
<1>4. RemoteTypeOK
  BY <1>1, <1>2, <1>3 DEF RemoteInv, WireInv, WireTyped, CallsInv, RemoteTypeOK
<1> QED
  BY <1>4 DEF RemoteInv, CallsInv, RequestMapSound

\* A call of a remote node ends with the answer to that very call, whoever waits
\* has an entry in the map, and while nothing breaks the map is what is under
\* way: whatever the order of the answers and the calls that were given up.
THEOREM RequestMapIsSound == RemoteSpec => []RequestMapSound
<1>1. RemoteInit => RemoteInv
  <2> SUFFICES ASSUME RemoteInit PROVE RemoteInv
    OBVIOUS
  <2>1. DOMAIN requests = {} /\ DOMAIN answers = {} /\ running = {} /\ UnderWay = {}
    BY DEF RemoteInit, UnderWay
  <2>2. WireInv
    BY <2>1, RemoteAssumption DEF RemoteInit, WireInv, WireTyped, InOnePlace, Ids, RunIds, Once
  <2>3. \A c \in DOMAIN call : call[c] = [phase |-> "idle"]
    BY DEF RemoteInit
  <2>4. \A c \in DOMAIN call : call[c].phase = "idle" /\ "by" \notin DOMAIN call[c]
    BY <2>3
  <2>5. CallsInv
    BY <2>4 DEF CallsInv, OwnAnswer, WaiterHasEntry, RemoteInit
  <2> QED
    BY <2>1, <2>2, <2>4, <2>5 DEF RemoteInv, NotBefore, Unbroken, LeaksOnlyByFailure, RemoteInit
<1>2. RemoteInv /\ [RemoteNext]_remoteVars => RemoteInv'
  <2> SUFFICES ASSUME RemoteInv, [RemoteNext]_remoteVars PROVE RemoteInv'
    OBVIOUS
  <2>1. CASE UNCHANGED remoteVars
    <3>1. UNCHANGED <<sock, requestMap, sent, requests, node, running, answers, call, metadata, faults>>
      BY <2>1 DEF remoteVars, dispatcherVars, nodeVars
    <3>2. UnderWay' = UnderWay /\ WireInv'
      BY <3>1, WireStays DEF RemoteInv
    <3>3. CallsInv' /\ NotBefore' /\ Unbroken' /\ LeaksOnlyByFailure'
      BY <3>1, <3>2 DEF RemoteInv, CallsInv, OwnAnswer, WaiterHasEntry, NotBefore, Unbroken, LeaksOnlyByFailure
    <3> QED
      BY <3>2, <3>3 DEF RemoteInv
  <2> QED
    BY <2>1, RemoteOpens, RemoteHears, RemoteCalls, RemoteGivesUp, RemoteTakes, RemoteAnswers, RemoteBreaks
       DEF RemoteNext
<1> QED
  BY <1>1, <1>2, RemoteInvSound, PTL DEF RemoteSpec
=============================================================================
