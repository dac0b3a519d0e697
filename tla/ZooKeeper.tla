------------------------------ MODULE ZooKeeper ------------------------------
(***************************************************************************)
(* The ZooKeeper service, as contextManager/ uses it, for ONE context (one *)
(* znode with its lock children; two contexts share nothing).  A context   *)
(* manager holds one session.  Its client sends operations in order and    *)
(* gets the replies and the watch events in order: each session is a pair  *)
(* of FIFO pipes.  The service is external: this module says what src/     *)
(* relies on.                                                              *)
(*                                                                         *)
(* A lock znode is named by the request that created it.  The content of   *)
(* the context is the set of requests whose save it contains.              *)
(***************************************************************************)
EXTENDS Integers, Sequences

CONSTANTS
  Request,         \* lock requests of the clients, each with its own request_id
  Server,          \* context manager processes
  ServerOf,        \* the context manager a request is sent to
  FirstSeq,        \* next sequence number of the directory: 0 if it is new
  MaxDisconnects   \* bound on the connection losses

ASSUME ServerOfAssumption == ServerOf \in [Request -> Server]
ASSUME FirstSeqAssumption == FirstSeq \in Nat
ASSUME MaxDisconnectsAssumption == MaxDisconnects \in Nat

NoSeq == -1

VARIABLES
  znodes,      \* the lock znodes that exist
  seq,         \* sequence number given to a request's znode
  nextSeq,     \* sequence number of the next znode
  data,        \* content of the context
  watch,       \* watch[r]: the znode (at most one) whose deletion r waits for
  outbox,      \* operations a session has sent and the service not yet served
  inbox,       \* replies and events the session has not yet handled
  disconnects  \* connection losses so far

storeVars == <<znodes, seq, nextSeq, data, watch, disconnects>>
zkVars == <<storeVars, outbox, inbox>>

Op == {"path", "create", "children", "exists", "get", "set", "delete"}
\* The code that asked for the operation, and so which callback gets the reply.
Caller == {"lock", "wait", "save", "unlock", "hold"}

Operation == [op : Op, r : Request, arg : SUBSET Request, by : Caller]
Reply == [op : Op, r : Request, by : Caller,
          rc : {"ok", "nonode", "fail"}, val : SUBSET Request]
\* A watch event: val are the requests whose watch fired.
Event == [op : {"event"}, rc : {"ok", "fail"}, val : SUBSET Request]

ZkTypeOK ==
  /\ znodes \subseteq Request
  /\ seq \in [Request -> Nat \cup {NoSeq}]
  /\ nextSeq \in Nat
  /\ data \subseteq Request
  /\ watch \in [Request -> SUBSET Request]
  /\ outbox \in [Server -> Seq(Operation)]
  /\ inbox \in [Server -> Seq(Reply \cup Event)]
  /\ disconnects \in Nat

ZkInit ==
  /\ znodes = {}
  /\ seq = [r \in Request |-> NoSeq]
  /\ nextSeq = FirstSeq
  /\ data = {}
  /\ watch = [r \in Request |-> {}]
  /\ outbox = [s \in Server |-> << >>]
  /\ inbox = [s \in Server |-> << >>]
  /\ disconnects = 0

-----------------------------------------------------------------------------
(* The client library: what a callback does with the pipes of its session. *)

Request_(op, r, arg, by) == [op |-> op, r |-> r, arg |-> arg, by |-> by]

Send(s, q) == outbox' = [outbox EXCEPT ![s] = Append(@, q)]

\* The head of r's session is the reply to an operation of r.
Arrived(r, op, by) ==
  LET box == inbox[ServerOf[r]] IN
  /\ box # << >>
  /\ Head(box).op = op
  /\ Head(box).r = r
  /\ Head(box).by = by

ReplyOf(r) == Head(inbox[ServerOf[r]])

Consume(r) == inbox' = [inbox EXCEPT ![ServerOf[r]] = Tail(@)]

WatchEvent(rc, rs) == [op |-> "event", rc |-> rc, val |-> rs]

\* A watch of r has fired, and its callback is the next to run in the session.
EventArrived(r) ==
  LET box == inbox[ServerOf[r]] IN
  /\ box # << >>
  /\ Head(box).op = "event"
  /\ r \in Head(box).val

\* The callbacks of one event run one after the other.
ConsumeEvent(r) ==
  LET e == Head(inbox[ServerOf[r]]) IN
  inbox' = [inbox EXCEPT ![ServerOf[r]] =
              IF e.val = {r} THEN Tail(@)
              ELSE << WatchEvent(e.rc, e.val \ {r}) >> \o Tail(@)]

-----------------------------------------------------------------------------
(* The service. *)

Answer(q, rc, val) ==
  [op |-> q.op, r |-> q.r, by |-> q.by, rc |-> rc, val |-> val]

Watchers(s, Z) == {r \in Request : ServerOf[r] = s /\ watch[r] \cap Z # {}}

\* The pipes after the watches on the znodes Z fire: one event a session.
Notified(Z) ==
  [s \in Server |->
     IF Watchers(s, Z) = {} THEN inbox[s]
     ELSE Append(inbox[s], WatchEvent("ok", Watchers(s, Z)))]

\* A watch is one-shot.
FireWatches(Z) ==
  watch' = [r \in Request |-> IF watch[r] \cap Z # {} THEN {} ELSE watch[r]]

\* Serve q, the oldest operation of session s, and reply to it.
Serving(s, op) ==
  /\ outbox[s] # << >>
  /\ Head(outbox[s]).op = op
  /\ outbox' = [outbox EXCEPT ![s] = Tail(@)]

Respond(s, rc, val) ==
  inbox' = [inbox EXCEPT ![s] = Append(@, Answer(Head(outbox[s]), rc, val))]

\* exists + create of the missing parents: there is a path when it answers.
ServePath(s) ==
  /\ Serving(s, "path")
  /\ Respond(s, "ok", {})
  /\ UNCHANGED storeVars

\* A sequential ephemeral znode.
ServeCreate(s) ==
  /\ Serving(s, "create")
  /\ Respond(s, "ok", {})
  /\ znodes' = znodes \cup {Head(outbox[s]).r}
  /\ seq' = [seq EXCEPT ![Head(outbox[s]).r] = nextSeq]
  /\ nextSeq' = nextSeq + 1
  /\ UNCHANGED <<data, watch, disconnects>>

ServeChildren(s) ==
  /\ Serving(s, "children")
  /\ Respond(s, "ok", znodes)
  /\ UNCHANGED storeVars

\* exists with a watch: the watch of interest is the one on a znode that is there.
ServeExists(s) ==
  LET q == Head(outbox[s]) IN
  /\ Serving(s, "exists")
  /\ \/ /\ q.arg \subseteq znodes
        /\ Respond(s, "ok", {})
        /\ watch' = [watch EXCEPT ![q.r] = q.arg]
     \/ /\ ~(q.arg \subseteq znodes)
        /\ Respond(s, "nonode", {})
        /\ UNCHANGED watch
  /\ UNCHANGED <<znodes, seq, nextSeq, data, disconnects>>

ServeGet(s) ==
  /\ Serving(s, "get")
  /\ Respond(s, "ok", data)
  /\ UNCHANGED storeVars

ServeSet(s) ==
  /\ Serving(s, "set")
  /\ Respond(s, "ok", {})
  /\ data' = Head(outbox[s]).arg
  /\ UNCHANGED <<znodes, seq, nextSeq, watch, disconnects>>

\* The events of a deletion leave before the reply to it.
ServeDelete(s) ==
  LET q == Head(outbox[s]) IN
  /\ Serving(s, "delete")
  /\ \/ /\ q.r \in znodes
        /\ inbox' = [Notified({q.r}) EXCEPT ![s] = Append(@, Answer(q, "ok", {}))]
        /\ FireWatches({q.r})
     \/ /\ q.r \notin znodes
        /\ Respond(s, "nonode", {})
        /\ UNCHANGED watch
  /\ znodes' = znodes \ {q.r}
  /\ UNCHANGED <<seq, nextSeq, data, disconnects>>

Serve(s) ==
  \/ ServePath(s)
  \/ ServeCreate(s)
  \/ ServeChildren(s)
  \/ ServeExists(s)
  \/ ServeGet(s)
  \/ ServeSet(s)
  \/ ServeDelete(s)

\* The ephemeral znodes Z of a session that ended.
RemoveEphemerals(Z) ==
  /\ znodes' = znodes \ Z
  /\ inbox' = Notified(Z)
  /\ FireWatches(Z)
  /\ UNCHANGED <<seq, nextSeq, data, disconnects, outbox>>

\* What the client gets for a message the lost connection carried.
Failed(m) ==
  IF m.op = "event" THEN WatchEvent("fail", m.val) ELSE Answer(m, "fail", {})

\* Session s loses its connection and reconnects in time to keep its znodes.
\* Some of the replies had arrived; the other operations fail, served or not,
\* and every watcher is called with a state that is not "connected".
Disconnect(s) ==
  LET n == Len(inbox[s])
      Pending(i) == IF i <= n THEN inbox[s][i] ELSE outbox[s][i - n]
      waiting == {r \in Request : ServerOf[r] = s /\ watch[r] # {}} IN
  /\ disconnects < MaxDisconnects
  /\ disconnects' = disconnects + 1
  /\ \E k \in 0..n :
       LET replies == [i \in 1..(n + Len(outbox[s])) |->
                         IF i <= k THEN inbox[s][i] ELSE Failed(Pending(i))] IN
       inbox' = [inbox EXCEPT ![s] =
                   IF waiting = {} THEN replies
                   ELSE Append(replies, WatchEvent("fail", waiting))]
  /\ outbox' = [outbox EXCEPT ![s] = << >>]
  /\ watch' = [r \in Request |-> IF ServerOf[r] = s THEN {} ELSE watch[r]]
  /\ UNCHANGED <<znodes, seq, nextSeq, data>>

\* The process of session s dies: its pipes and its watches go with it.  Its
\* znodes stay until the service ends the session.
Abandon(s) ==
  /\ outbox' = [outbox EXCEPT ![s] = << >>]
  /\ inbox' = [inbox EXCEPT ![s] = << >>]
  /\ watch' = [r \in Request |-> IF ServerOf[r] = s THEN {} ELSE watch[r]]
  /\ UNCHANGED <<znodes, seq, nextSeq, data, disconnects>>
=============================================================================
