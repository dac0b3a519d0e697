------------------------ MODULE ContextManagerProofs ------------------------
(***************************************************************************)
(* Proofs about ContextManager, for every set of requests and of context   *)
(* managers, every FirstSeq and any number of disconnects and crashes.     *)
(* The first half is about the lock: types, the order of the queue, mutual *)
(* exclusion.  The second is about what clients rely on: what a client was *)
(* sent is current, what it was told is saved stays saved, its entry has   *)
(* its znode, and a znode has somebody left to give it back; and the       *)
(* refinement of the abstract lock.                                        *)
(***************************************************************************)
EXTENDS ContextManagerProps, TLAPS

Message == Reply \cup Event

-----------------------------------------------------------------------------
(* Lemmas about the pipes. *)

\* Appending to a sequence keeps its elements and adds one at the end.
LEMMA AppendFacts ==
  ASSUME NEW S, NEW q \in Seq(S), NEW e \in S
  PROVE  /\ Append(q, e) \in Seq(S)
         /\ Len(Append(q, e)) = Len(q) + 1
         /\ \A i \in 1..Len(q) : Append(q, e)[i] = q[i]
         /\ Append(q, e)[Len(q) + 1] = e
         /\ Len(q) \in Nat
BY SMT

\* Taking the head of a sequence shifts the others by one.
LEMMA TailFacts ==
  ASSUME NEW S, NEW q \in Seq(S), q # << >>
  PROVE  /\ Tail(q) \in Seq(S)
         /\ Len(Tail(q)) = Len(q) - 1
         /\ \A i \in 1..Len(Tail(q)) : i + 1 \in 1..Len(q) /\ Tail(q)[i] = q[i + 1]
         /\ Head(q) = q[1]
         /\ 1 \in 1..Len(q)
         /\ Head(q) \in S
         /\ Len(q) \in Nat
BY SMT

\* A function on 1..n is a sequence.
LEMMA SeqOfFcn ==
  ASSUME NEW S, NEW n \in Nat, NEW f \in [1..n -> S]
  PROVE  f \in Seq(S) /\ Len(f) = n
BY SMT

\* Replacing the head of a sequence changes no other element.
LEMMA ReplaceHeadFacts ==
  ASSUME NEW S, NEW q \in Seq(S), q # << >>, NEW e \in S
  PROVE  /\ <<e>> \o Tail(q) \in Seq(S)
         /\ Len(<<e>> \o Tail(q)) = Len(q)
         /\ (<<e>> \o Tail(q))[1] = e
         /\ \A i \in 1..Len(q) : i # 1 => (<<e>> \o Tail(q))[i] = q[i]
BY SMT

-----------------------------------------------------------------------------
(* Typing of the pipes. *)

\* An operation sent keeps the outboxes well typed.
LEMMA SendTypes ==
  ASSUME ZkTypeOK, NEW s \in Server, NEW q \in Operation, Send(s, q)
  PROVE  outbox' \in [Server -> Seq(Operation)]
BY AppendFacts DEF ZkTypeOK, Send

\* The operations the context manager builds are operations.
LEMMA RequestTypes ==
  ASSUME NEW r \in Request, NEW op \in Op, NEW arg \in SUBSET Request,
         NEW by \in Caller
  PROVE  /\ ServerOf[r] \in Server
         /\ Request_(op, r, arg, by) \in Operation
         /\ Request_(op, r, arg, by).r = r
         /\ Request_(op, r, arg, by).op = op
BY ServerOfAssumption DEF Request_, Operation

\* SendFor sends an operation of r to the session of r.
LEMMA SendForTypes ==
  ASSUME ZkTypeOK, NEW r \in Request, NEW op \in Op, NEW arg \in SUBSET Request,
         NEW by \in Caller, SendFor(r, op, arg, by)
  PROVE  outbox' \in [Server -> Seq(Operation)]
BY SendTypes, RequestTypes DEF SendFor

\* The message a callback handles is well typed, and so is what it leaves.
LEMMA ConsumeTypes ==
  ASSUME ZkTypeOK, NEW r \in Request, inbox[ServerOf[r]] # << >>, Consume(r)
  PROVE  /\ inbox' \in [Server -> Seq(Message)]
         /\ ReplyOf(r) \in Message
<1> DEFINE s == ServerOf[r]
<1>1. s \in Server /\ inbox[s] \in Seq(Message)
  BY ServerOfAssumption DEF ZkTypeOK, Message
<1>2. Tail(inbox[s]) \in Seq(Message) /\ Head(inbox[s]) \in Message
  BY <1>1, TailFacts
<1> QED
  BY <1>1, <1>2 DEF ZkTypeOK, Message, Consume, ReplyOf

\* The same for one watcher of an event.
LEMMA ConsumeEventTypes ==
  ASSUME ZkTypeOK, NEW r \in Request, EventArrived(r), ConsumeEvent(r)
  PROVE  /\ inbox' \in [Server -> Seq(Message)]
         /\ ReplyOf(r) \in Event
<1> DEFINE s == ServerOf[r]
           h == Head(inbox[s])
           rest == WatchEvent(h.rc, h.val \ {r})
<1>1. s \in Server /\ inbox[s] \in Seq(Message) /\ inbox[s] # << >>
  BY ServerOfAssumption DEF ZkTypeOK, Message, EventArrived
<1>2. Tail(inbox[s]) \in Seq(Message) /\ h \in Message /\ h.op = "event"
  BY <1>1, TailFacts DEF EventArrived
<1>3. h \in Event
  BY <1>2 DEF Message, Reply, Op
<1>4. rest \in Message
  BY <1>3 DEF Event, Message, WatchEvent
<1>5. << rest >> \o Tail(inbox[s]) \in Seq(Message)
  BY <1>1, <1>4, ReplaceHeadFacts
<1>6. inbox' = [inbox EXCEPT ![s] = IF h.val = {r} THEN Tail(inbox[s])
                                    ELSE << rest >> \o Tail(inbox[s])]
  BY <1>1 DEF ConsumeEvent, ZkTypeOK
<1> QED
  BY <1>1, <1>2, <1>3, <1>5, <1>6 DEF ZkTypeOK, Message, ReplyOf

\* The events of fired watches keep the inboxes well typed.
LEMMA NotifiedTypes ==
  ASSUME ZkTypeOK, NEW Z
  PROVE  Notified(Z) \in [Server -> Seq(Message)]
<1> SUFFICES ASSUME NEW s \in Server
             PROVE  Notified(Z)[s] \in Seq(Message)
  BY DEF Notified
<1> DEFINE e == WatchEvent("ok", Watchers(s, Z))
<1>1. inbox[s] \in Seq(Message) /\ e \in Message
  BY DEF ZkTypeOK, Message, Event, Watchers, WatchEvent
<1>2. Append(inbox[s], e) \in Seq(Message)
  BY <1>1, AppendFacts
<1> QED
  BY <1>1, <1>2 DEF Notified

\* So does the reply to the operation at the head of an outbox.
LEMMA AnswerTypes ==
  ASSUME NEW q \in Operation \cup Reply, NEW rc \in {"ok", "nonode", "fail"},
         NEW val \in SUBSET Request
  PROVE  /\ Answer(q, rc, val) \in Reply
         /\ Answer(q, rc, val) \in Message
         /\ Answer(q, rc, val).op # "event"
BY DEF Answer, Operation, Reply, Message, Op

-----------------------------------------------------------------------------
(* Type correctness. *)

\* A callback of the lock is well typed; it leaves the store alone.
LEMMA LockCallbackTypes ==
  ASSUME TypeOK, NEW r \in Request, LockCallback(r)
  PROVE  /\ inbox' \in [Server -> Seq(Message)]
         /\ outbox' \in [Server -> Seq(Operation)]
         /\ LockTypeOK'
         /\ answer' \in [Request -> {"none", "ok", "error"}]
         /\ UNCHANGED storeVars
<1> USE DEF TypeOK
<1>1. CASE PathEnsured(r)
  <2>1. inbox[ServerOf[r]] # << >> /\ Consume(r)
    BY <1>1 DEF PathEnsured, Arrived
  <2>2. outbox' = outbox \/ SendFor(r, "create", {}, "lock")
    BY <1>1 DEF PathEnsured
  <2>3. inbox' \in [Server -> Seq(Message)]
    BY <2>1, ConsumeTypes
  <2>4. outbox' \in [Server -> Seq(Operation)]
    BY <2>2, SendForTypes DEF ZkTypeOK, Op, Caller
  <2>5. LockTypeOK'
    BY <1>1 DEF PathEnsured, Reject, LockTypeOK, LockCallback
  <2>6. answer' \in [Request -> {"none", "ok", "error"}]
    BY DEF LockCallback
  <2> QED
    BY <1>1, <2>3, <2>4, <2>5, <2>6 DEF PathEnsured
<1>2. CASE Created(r)
  <2>1. inbox[ServerOf[r]] # << >> /\ Consume(r)
    BY <1>2 DEF Created, Arrived
  <2>2. outbox' = outbox \/ SendFor(r, "children", {}, "lock")
    BY <1>2 DEF Created
  <2>3. inbox' \in [Server -> Seq(Message)]
    BY <2>1, ConsumeTypes
  <2>4. outbox' \in [Server -> Seq(Operation)]
    BY <2>2, SendForTypes DEF ZkTypeOK, Op, Caller
  <2>5. LockTypeOK'
    BY <1>2 DEF Created, Reject, LockTypeOK, LockCallback
  <2>6. answer' \in [Request -> {"none", "ok", "error"}]
    BY DEF LockCallback
  <2> QED
    BY <1>2, <2>3, <2>4, <2>5, <2>6 DEF Created
<1>3. CASE Listed(r, Request_("get", r, {}, "lock"))
  <2> DEFINE then == Request_("get", r, {}, "lock")
  <2>1. inbox[ServerOf[r]] # << >> /\ Consume(r)
    BY <1>3 DEF Listed, Arrived
  <2>2. inbox' \in [Server -> Seq(Message)] /\ ReplyOf(r) \in Message
    BY <2>1, ConsumeTypes
  <2>3. NodeToBeWatched(r, ReplyOf(r).val) \in SUBSET Request
    BY <2>2 DEF NodeToBeWatched, Ahead, Message, Reply, Event
  <2>4. \/ outbox' = outbox
        \/ Send(ServerOf[r], then)
        \/ \E z \in Request : SendFor(r, "exists", {z}, "lock")
    BY <1>3, <2>3 DEF Listed
  <2>5. then \in Operation /\ ServerOf[r] \in Server
    BY RequestTypes DEF Op, Caller
  <2>6. outbox' \in [Server -> Seq(Operation)]
    BY <2>4, <2>5, SendTypes, SendForTypes DEF ZkTypeOK, Op, Caller
  <2>7. LockTypeOK'
    BY <1>3 DEF Listed, Reject, LockTypeOK, lockVars, LockCallback
  <2> QED
    BY <1>3, <2>2, <2>6, <2>7 DEF Listed, LockCallback
<1>4. CASE ExistsReplied(r)
  <2>1. inbox[ServerOf[r]] # << >> /\ Consume(r)
    BY <1>4 DEF ExistsReplied, Arrived
  <2>2. outbox' = outbox \/ SendFor(r, "children", {}, "lock")
    BY <1>4 DEF ExistsReplied
  <2>3. inbox' \in [Server -> Seq(Message)]
    BY <2>1, ConsumeTypes
  <2>4. outbox' \in [Server -> Seq(Operation)]
    BY <2>2, SendForTypes DEF ZkTypeOK, Op, Caller
  <2>5. LockTypeOK'
    BY <1>4 DEF ExistsReplied, Reject, LockTypeOK, LockCallback
  <2>6. answer' \in [Request -> {"none", "ok", "error"}]
    BY DEF LockCallback
  <2> QED
    BY <1>4, <2>3, <2>4, <2>5, <2>6 DEF ExistsReplied
<1>5. CASE WatchFired(r)
  <2>1. EventArrived(r) /\ ConsumeEvent(r)
    BY <1>5 DEF WatchFired
  <2>2. outbox' = outbox \/ SendFor(r, "children", {}, "lock")
    BY <1>5 DEF WatchFired
  <2>3. inbox' \in [Server -> Seq(Message)]
    BY <2>1, ConsumeEventTypes
  <2>4. outbox' \in [Server -> Seq(Operation)]
    BY <2>2, SendForTypes DEF ZkTypeOK, Op, Caller
  <2>5. LockTypeOK'
    BY <1>5 DEF WatchFired, Reject, LockTypeOK, LockCallback
  <2>6. answer' \in [Request -> {"none", "ok", "error"}]
    BY DEF LockCallback
  <2> QED
    BY <1>5, <2>3, <2>4, <2>5, <2>6 DEF WatchFired
<1>6. CASE WaitUnlocked(r)
  <2>1. inbox[ServerOf[r]] # << >> /\ Consume(r)
    BY <1>6 DEF WaitUnlocked, Arrived
  <2> QED
    BY <1>6, <2>1, ConsumeTypes
       DEF WaitUnlocked, Reject, LockTypeOK, LockCallback, ZkTypeOK
<1> QED
  BY <1>1, <1>2, <1>3, <1>4, <1>5, <1>6 DEF LockCallback

\* What the service does to the store and the pipes is well typed.
LEMMA ServeTypes ==
  ASSUME ZkTypeOK, NEW s \in Server, Serve(s)
  PROVE  ZkTypeOK'
<1> DEFINE q == Head(outbox[s])
<1>1. /\ outbox[s] # << >>
      /\ outbox' = [outbox EXCEPT ![s] = Tail(@)]
  BY DEF Serve, Serving, ServePath, ServeCreate, ServeChildren, ServeExists,
         ServeGet, ServeSet, ServeDelete
<1>2. outbox[s] \in Seq(Operation)
  BY DEF ZkTypeOK
<1>3. q \in Operation /\ Tail(outbox[s]) \in Seq(Operation)
  BY <1>1, <1>2, TailFacts
<1>4. outbox' \in [Server -> Seq(Operation)]
  BY <1>1, <1>3 DEF ZkTypeOK
<1>5. q.r \in Request /\ q.arg \subseteq Request
  BY <1>3 DEF Operation
<1>6. ASSUME NEW rc \in {"ok", "nonode", "fail"}, NEW val \in SUBSET Request,
             Respond(s, rc, val)
      PROVE  inbox' \in [Server -> Seq(Message)]
  <2>1. Answer(q, rc, val) \in Message
    BY <1>3, AnswerTypes
  <2>2. Append(inbox[s], Answer(q, rc, val)) \in Seq(Message)
    BY <2>1, AppendFacts DEF ZkTypeOK, Message
  <2> QED
    BY <1>6, <2>2 DEF Respond, ZkTypeOK, Message
<1>7. CASE ServePath(s)
  <2>1. inbox' \in [Server -> Seq(Message)]
    BY <1>6, <1>7 DEF ServePath
  <2> QED
    BY <1>4, <1>7, <2>1 DEF ServePath, ZkTypeOK, storeVars, Message
<1>8. CASE ServeCreate(s)
  <2>1. inbox' \in [Server -> Seq(Message)]
    BY <1>6, <1>8 DEF ServeCreate
  <2> QED
    BY <1>4, <1>5, <1>8, <2>1 DEF ServeCreate, ZkTypeOK, Message
<1>9. CASE ServeChildren(s)
  <2>1. inbox' \in [Server -> Seq(Message)]
    BY <1>6, <1>9 DEF ServeChildren, ZkTypeOK
  <2> QED
    BY <1>4, <1>9, <2>1 DEF ServeChildren, ZkTypeOK, storeVars, Message
<1>10. CASE ServeExists(s)
  <2>1. inbox' \in [Server -> Seq(Message)]
    BY <1>6, <1>10 DEF ServeExists
  <2>2. watch' \in [Request -> SUBSET Request]
    BY <1>5, <1>10 DEF ServeExists, ZkTypeOK
  <2> QED
    BY <1>4, <1>10, <2>1, <2>2 DEF ServeExists, ZkTypeOK, Message
<1>11. CASE ServeGet(s)
  <2>1. inbox' \in [Server -> Seq(Message)]
    BY <1>6, <1>11 DEF ServeGet, ZkTypeOK
  <2> QED
    BY <1>4, <1>11, <2>1 DEF ServeGet, ZkTypeOK, storeVars, Message
<1>12. CASE ServeSet(s)
  <2>1. inbox' \in [Server -> Seq(Message)]
    BY <1>6, <1>12 DEF ServeSet
  <2> QED
    BY <1>4, <1>5, <1>12, <2>1 DEF ServeSet, ZkTypeOK, Message
<1>13. CASE ServeDelete(s)
  <2>1. inbox' \in [Server -> Seq(Message)]
    <3>1. CASE Respond(s, "nonode", {})
      BY <1>6, <3>1
    <3>2. CASE inbox' = [Notified({q.r}) EXCEPT ![s] = Append(@, Answer(q, "ok", {}))]
      <4>1. Notified({q.r}) \in [Server -> Seq(Message)]
        BY NotifiedTypes
      <4>2. Answer(q, "ok", {}) \in Message
        BY <1>3, AnswerTypes
      <4>3. Append(Notified({q.r})[s], Answer(q, "ok", {})) \in Seq(Message)
        BY <4>1, <4>2, AppendFacts
      <4> QED
        BY <3>2, <4>1, <4>3
    <3> QED
      BY <1>13, <3>1, <3>2 DEF ServeDelete
  <2>2. watch' \in [Request -> SUBSET Request]
    BY <1>13 DEF ServeDelete, FireWatches, ZkTypeOK
  <2> QED
    BY <1>4, <1>13, <2>1, <2>2 DEF ServeDelete, ZkTypeOK, Message
<1> QED
  BY <1>7, <1>8, <1>9, <1>10, <1>11, <1>12, <1>13 DEF Serve

\* What a lost message turns into is a message, and never an ok.
LEMMA FailedTypes ==
  ASSUME NEW m \in Message \cup Operation
  PROVE  Failed(m) \in Message /\ Failed(m).rc = "fail"
<1>1. CASE m \in Event
  BY <1>1 DEF Failed, WatchEvent, Event, Message
<1>2. CASE m \in Operation \cup Reply
  <2>1. m.op # "event"
    BY <1>2 DEF Operation, Reply, Op
  <2>2. Failed(m) = Answer(m, "fail", {})
    BY <2>1 DEF Failed
  <2> QED
    BY <1>2, <2>2, AnswerTypes DEF Answer
<1> QED
  BY <1>1, <1>2 DEF Message

\* A disconnect leaves well typed pipes.
LEMMA DisconnectTypes ==
  ASSUME ZkTypeOK, NEW s \in Server, Disconnect(s)
  PROVE  ZkTypeOK'
<1> DEFINE n == Len(inbox[s])
           m == Len(outbox[s])
           Pending(i) == IF i <= n THEN inbox[s][i] ELSE outbox[s][i - n]
           waiting == {r \in Request : ServerOf[r] = s /\ watch[r] # {}}
           Replies(k) == [i \in 1..(n + m) |->
                            IF i <= k THEN inbox[s][i] ELSE Failed(Pending(i))]
<1>1. /\ inbox[s] \in Seq(Message) /\ outbox[s] \in Seq(Operation)
      /\ n \in Nat /\ m \in Nat
  BY DEF ZkTypeOK, Message
<1>2. PICK k \in 0..n :
        inbox' = [inbox EXCEPT ![s] =
                    IF waiting = {} THEN Replies(k)
                    ELSE Append(Replies(k), WatchEvent("fail", waiting))]
  BY DEF Disconnect
<1> HIDE DEF n, m
<1>3. ASSUME NEW i \in 1..(n + m)
      PROVE  Replies(k)[i] \in Message
  <2>1. CASE i <= n
    <3>1. inbox[s][i] \in Message
      BY <1>1, <2>1 DEF n
    <3> QED
      BY <2>1, <3>1, FailedTypes
  <2>2. CASE ~(i <= n)
    <3>1. i - n \in 1..m
      BY <1>1, <2>2
    <3>2. outbox[s][i - n] \in Operation
      BY <1>1, <3>1 DEF m
    <3>3. ~(i <= k)
      BY <1>1, <2>2
    <3> QED
      BY <2>2, <3>2, <3>3, FailedTypes
  <2> QED
    BY <2>1, <2>2
<1>4. Replies(k) \in Seq(Message)
  <2>1. n + m \in Nat
    BY <1>1
  <2>2. Replies(k) \in [1..(n + m) -> Message]
    BY <1>3
  <2> QED
    BY <2>1, <2>2, SeqOfFcn
<1>5. WatchEvent("fail", waiting) \in Message
  BY DEF WatchEvent, Message, Event
<1>6. Append(Replies(k), WatchEvent("fail", waiting)) \in Seq(Message)
  BY <1>4, <1>5, AppendFacts
<1>7. inbox' \in [Server -> Seq(Message)]
  BY <1>2, <1>4, <1>6 DEF ZkTypeOK, Message
<1>8. outbox' \in [Server -> Seq(Operation)]
  BY DEF Disconnect, ZkTypeOK
<1> QED
  BY <1>7, <1>8 DEF Disconnect, ZkTypeOK, Message

\* Every step is well typed.
LEMMA NextTypes ==
  ASSUME TypeOK, [Next]_vars
  PROVE  TypeOK'
<1> USE DEF TypeOK
<1>1. CASE UNCHANGED vars
  BY <1>1 DEF vars, zkVars, storeVars, lockVars, mgrVars, ZkTypeOK, LockTypeOK
<1>2. ASSUME NEW r \in Request, NEW c \in Commands, RecvLock(r, c)
      PROVE  TypeOK'
  <2>1. outbox' \in [Server -> Seq(Operation)]
    BY <1>2, SendForTypes DEF RecvLock, Lock, Op, Caller
  <2> QED
    BY <1>2, <2>1, CommandsAssumption
       DEF RecvLock, Lock, ZkTypeOK, LockTypeOK, storeVars, mgrVars
<1>3. ASSUME NEW r \in Request, RecvSave(r)
      PROVE  TypeOK'
  <2>1. outbox' = outbox \/ SendFor(r, "set", read[r] \cup {r}, "save")
    BY <1>3 DEF RecvSave
  <2>2. outbox' \in [Server -> Seq(Operation)]
    BY <2>1, SendForTypes DEF ZkTypeOK, Op, Caller
  <2>3. /\ control' \subseteq Request
        /\ release' \in [Request -> {"none", "saving", "saved",
                                    "unlocking", "unlocked", "error"}]
    BY <1>3 DEF RecvSave
  <2> QED
    BY <1>3, <2>2, <2>3 DEF RecvSave, ZkTypeOK, LockTypeOK, storeVars, lockVars
<1>4. ASSUME NEW r \in Request, RecvUnlock(r)
      PROVE  TypeOK'
  <2>1. outbox' = outbox \/ SendFor(r, "delete", {}, "unlock")
    BY <1>4 DEF RecvUnlock
  <2>2. outbox' \in [Server -> Seq(Operation)]
    BY <2>1, SendForTypes DEF ZkTypeOK, Op, Caller
  <2>3. /\ control' \subseteq Request
        /\ release' \in [Request -> {"none", "saving", "saved",
                                     "unlocking", "unlocked", "error"}]
    BY <1>4 DEF RecvUnlock
  <2> QED
    BY <1>4, <2>2, <2>3 DEF RecvUnlock, ZkTypeOK, LockTypeOK, storeVars, lockVars
<1>5. ASSUME NEW r \in Request, WaitTimeout(r)
      PROVE  TypeOK'
  <2>1. outbox' \in [Server -> Seq(Operation)]
    BY <1>5, SendForTypes DEF WaitTimeout, LockWaitTimeout, Op, Caller
  <2> QED
    BY <1>5, <2>1 DEF WaitTimeout, LockWaitTimeout, ZkTypeOK, LockTypeOK,
                      storeVars, mgrVars
<1>6. ASSUME NEW r \in Request, HoldTimeout(r)
      PROVE  TypeOK'
  <2>1. outbox' \in [Server -> Seq(Operation)]
    BY <1>6, SendForTypes DEF HoldTimeout, Op, Caller
  <2> QED
    BY <1>6, <2>1 DEF HoldTimeout, ZkTypeOK, LockTypeOK, storeVars, lockVars
<1>7. ASSUME NEW r \in Request, LockCallback(r)
      PROVE  TypeOK'
  BY <1>7, LockCallbackTypes DEF LockCallback, ZkTypeOK, LockTypeOK, storeVars, Message
<1>8. ASSUME NEW r \in Request, GetReplied(r)
      PROVE  TypeOK'
  <2>1. inbox[ServerOf[r]] # << >> /\ Consume(r)
    BY <1>8 DEF GetReplied, Arrived
  <2>2. inbox' \in [Server -> Seq(Message)] /\ ReplyOf(r) \in Message
    BY <2>1, ConsumeTypes
  <2>3. outbox' = outbox \/ SendFor(r, "delete", {}, "unlock")
    BY <1>8 DEF GetReplied
  <2>4. outbox' \in [Server -> Seq(Operation)]
    BY <2>3, SendForTypes DEF ZkTypeOK, Op, Caller
  <2>5. ReplyOf(r).val \subseteq Request
    BY <2>2 DEF Message, Reply, Event
  <2>6. /\ control' \subseteq Request
        /\ read' \in [Request -> SUBSET Request]
        /\ answer' \in [Request -> {"none", "ok", "error"}]
    BY <1>8, <2>5 DEF GetReplied
  <2> QED
    BY <1>8, <2>2, <2>4, <2>6
       DEF GetReplied, ZkTypeOK, LockTypeOK, storeVars, lockVars, Message
<1>9. ASSUME NEW r \in Request, SetReplied(r)
      PROVE  TypeOK'
  <2>1. inbox[ServerOf[r]] # << >> /\ Consume(r)
    BY <1>9 DEF SetReplied, Arrived
  <2>2. inbox' \in [Server -> Seq(Message)]
    BY <2>1, ConsumeTypes
  <2>3. outbox' = outbox \/ SendFor(r, "delete", {}, "save")
    BY <1>9 DEF SetReplied
  <2>4. outbox' \in [Server -> Seq(Operation)]
    BY <2>3, SendForTypes DEF ZkTypeOK, Op, Caller
  <2> QED
    BY <1>9, <2>2, <2>4
       DEF SetReplied, ZkTypeOK, LockTypeOK, storeVars, lockVars, Message
<1>10. ASSUME NEW r \in Request, SaveUnlocked(r) \/ Unlocked(r) \/ HoldUnlocked(r)
       PROVE  TypeOK'
  <2>1. inbox[ServerOf[r]] # << >> /\ Consume(r)
    BY <1>10 DEF SaveUnlocked, Unlocked, HoldUnlocked, Arrived
  <2>2. inbox' \in [Server -> Seq(Message)]
    BY <2>1, ConsumeTypes
  <2>3. /\ release' \in [Request -> {"none", "saving", "saved",
                                     "unlocking", "unlocked", "error"}]
        /\ answer' \in [Request -> {"none", "ok", "error"}]
    BY <1>10 DEF SaveUnlocked, Unlocked, HoldUnlocked, mgrVars
  <2> QED
    BY <1>10, <2>2, <2>3
       DEF SaveUnlocked, Unlocked, HoldUnlocked, ZkTypeOK, LockTypeOK, storeVars,
           lockVars, mgrVars, Message
<1>11. ASSUME NEW s \in Server, ZkServe(s)
       PROVE  TypeOK'
  BY <1>11, ServeTypes DEF ZkServe, LockTypeOK, lockVars, mgrVars
<1>12. ASSUME NEW s \in Server, ZkDisconnect(s)
       PROVE  TypeOK'
  BY <1>12, DisconnectTypes DEF ZkDisconnect, LockTypeOK, lockVars, mgrVars
<1>13. ASSUME NEW s \in Server, Crash(s)
       PROVE  TypeOK'
  <2>1. ZkTypeOK'
    BY <1>13 DEF Crash, Abandon, ZkTypeOK
  <2> QED
    BY <1>13, <2>1 DEF Crash, LockTypeOK
<1>14. ASSUME NEW s \in Server, SessionExpires(s)
       PROVE  TypeOK'
  <2> DEFINE Z == {z \in znodes \cap lost : ServerOf[z] = s}
  <2>1. inbox' \in [Server -> Seq(Message)]
    BY <1>14, NotifiedTypes DEF SessionExpires, RemoveEphemerals
  <2>2. watch' \in [Request -> SUBSET Request]
    BY <1>14 DEF SessionExpires, RemoveEphemerals, FireWatches, ZkTypeOK
  <2> QED
    BY <1>14, <2>1, <2>2
       DEF SessionExpires, RemoveEphemerals, ZkTypeOK, LockTypeOK, lockVars,
           mgrVars, Message
<1> QED
  BY <1>1, <1>2, <1>3, <1>4, <1>5, <1>6, <1>7, <1>8, <1>9, <1>10, <1>11, <1>12,
     <1>13, <1>14 DEF Next, RequestNext, ReplyCallback, ServerNext

\* TypeOK is an invariant: in particular every callback finds a reply of the
\* kind it reads, and every pipe only carries operations and replies.
THEOREM TypeCorrect == Spec => []TypeOK
<1>1. Init => TypeOK
  BY FirstSeqAssumption
     DEF Init, ZkInit, LockInit, TypeOK, ZkTypeOK, LockTypeOK, NoSeq
<1>2. TypeOK /\ [Next]_vars => TypeOK'
  BY NextTypes
<1> QED
  BY <1>1, <1>2, PTL DEF Spec

-----------------------------------------------------------------------------
(* Lemmas about PipesOK: what each way of changing a pipe preserves. *)

\* Handling the head of the inbox.
LEMMA PipesTailIn ==
  ASSUME NEW s \in Server, NEW in \in Seq(Message), NEW out \in Seq(Operation),
         PipesOK(s, in, out), in # << >>
  PROVE  /\ PipesOK(s, Tail(in), out)
         /\ Receivable(s, Head(in))
         /\ Head(in).op = "path" =>
              /\ \A i \in 1..Len(Tail(in)) :
                   Tail(in)[i].op = "path" => Tail(in)[i].r # Head(in).r
              /\ \A j \in 1..Len(out) : Fresh(out[j]) => out[j].r # Head(in).r
<1>1. /\ Len(Tail(in)) = Len(in) - 1
      /\ \A i \in 1..Len(Tail(in)) : i + 1 \in 1..Len(in) /\ Tail(in)[i] = in[i + 1]
      /\ Head(in) = in[1]
      /\ 1 \in 1..Len(in)
      /\ Len(in) \in Nat
  BY TailFacts
<1>2. \A i \in 1..Len(Tail(in)) : i \in Int /\ i + 1 # 1
  BY <1>1
<1>3. \A i, j \in 1..Len(Tail(in)) : i + 1 = j + 1 => i = j
  BY <1>2
<1>4. Receivable(s, Head(in))
  BY <1>1 DEF PipesOK
<1>5. \A i \in 1..Len(Tail(in)) : Receivable(s, Tail(in)[i])
  BY <1>1 DEF PipesOK
<1>6. \A i \in 1..Len(Tail(in)), j \in 1..Len(out) :
        Tail(in)[i].op = "path" /\ Fresh(out[j]) => Tail(in)[i].r # out[j].r
  BY <1>1 DEF PipesOK
<1>7. \A i, j \in 1..Len(Tail(in)) :
        Tail(in)[i].op = "path" /\ Tail(in)[j].op = "path" /\ Tail(in)[i].r = Tail(in)[j].r
          => i = j
  BY <1>1, <1>3 DEF PipesOK
<1>8. Head(in).op = "path" =>
        \A i \in 1..Len(Tail(in)) :
          Tail(in)[i].op = "path" => Tail(in)[i].r # Head(in).r
  BY <1>1, <1>2 DEF PipesOK
<1>9. Head(in).op = "path" =>
        \A j \in 1..Len(out) : Fresh(out[j]) => out[j].r # Head(in).r
  BY <1>1 DEF PipesOK
<1> QED
  BY <1>4, <1>5, <1>6, <1>7, <1>8, <1>9 DEF PipesOK

\* Handling one watcher of the event at the head of the inbox.
LEMMA PipesReplaceHead ==
  ASSUME NEW s \in Server, NEW in \in Seq(Message), NEW out \in Seq(Operation),
         PipesOK(s, in, out), in # << >>, NEW e \in Event, Receivable(s, e)
  PROVE  PipesOK(s, <<e>> \o Tail(in), out)
<1> DEFINE new == <<e>> \o Tail(in)
<1>1. /\ Len(new) = Len(in)
      /\ new[1] = e
      /\ \A i \in 1..Len(in) : i # 1 => new[i] = in[i]
  BY ReplaceHeadFacts DEF Message
<1>2. e.op # "path"
  BY DEF Event
<1> HIDE DEF new
<1>3. \A i \in 1..Len(new) : new[i] = e \/ new[i] = in[i]
  BY <1>1
<1>4. \A i \in 1..Len(new) : new[i].op = "path" => i \in 1..Len(in) /\ new[i] = in[i]
  BY <1>1, <1>2, <1>3
<1>5. \A i \in 1..Len(new) : Receivable(s, new[i])
  BY <1>1, <1>3 DEF PipesOK
<1>6. \A i \in 1..Len(new), j \in 1..Len(out) :
        new[i].op = "path" /\ Fresh(out[j]) => new[i].r # out[j].r
  BY <1>4 DEF PipesOK
<1>7. ASSUME NEW i \in 1..Len(new), NEW j \in 1..Len(new),
             new[i].op = "path", new[j].op = "path", new[i].r = new[j].r
      PROVE  i = j
  BY <1>4, <1>7 DEF PipesOK
<1>8. PipesOK(s, new, out)
  BY <1>5, <1>6, <1>7 DEF PipesOK
<1> QED
  BY <1>8 DEF new

\* A reply or an event that does not answer a path operation joins the inbox.
LEMMA PipesAppendIn ==
  ASSUME NEW s \in Server, NEW in \in Seq(Message), NEW out \in Seq(Operation),
         PipesOK(s, in, out), NEW m \in Message, Receivable(s, m),
         m.op = "path" =>
           /\ \A i \in 1..Len(in) : in[i].op = "path" => in[i].r # m.r
           /\ \A j \in 1..Len(out) : Fresh(out[j]) => out[j].r # m.r
  PROVE  PipesOK(s, Append(in, m), out)
<1> DEFINE new == Append(in, m)
<1>1. /\ Len(new) = Len(in) + 1
      /\ \A i \in 1..Len(in) : new[i] = in[i]
      /\ new[Len(in) + 1] = m
      /\ Len(in) \in Nat
  BY AppendFacts
<1>2. \A i \in 1..Len(new) : i \in 1..Len(in) \/ i = Len(in) + 1
  BY <1>1
<1> HIDE DEF new
<1>3. \A i \in 1..Len(new) : Receivable(s, new[i])
  BY <1>1, <1>2 DEF PipesOK
<1>4. \A i \in 1..Len(new), j \in 1..Len(out) :
        new[i].op = "path" /\ Fresh(out[j]) => new[i].r # out[j].r
  BY <1>1, <1>2 DEF PipesOK
<1>5. ASSUME NEW i \in 1..Len(new), NEW j \in 1..Len(new),
             new[i].op = "path", new[j].op = "path", new[i].r = new[j].r
      PROVE  i = j
  <2>1. CASE i \in 1..Len(in) /\ j \in 1..Len(in)
    BY <1>1, <1>5, <2>1 DEF PipesOK
  <2>2. CASE i \in 1..Len(in) /\ j = Len(in) + 1
    BY <1>1, <1>5, <2>2
  <2>3. CASE i = Len(in) + 1 /\ j \in 1..Len(in)
    BY <1>1, <1>5, <2>3
  <2> QED
    BY <1>2, <2>1, <2>2, <2>3
<1>6. PipesOK(s, new, out)
  BY <1>3, <1>4, <1>5 DEF PipesOK
<1> QED
  BY <1>6 DEF new

\* An operation joins the outbox.
LEMMA PipesAppendOut ==
  ASSUME NEW s \in Server, NEW in \in Seq(Message), NEW out \in Seq(Operation),
         PipesOK(s, in, out), NEW q \in Operation, Sendable(s, q),
         Fresh(q) =>
           /\ \A i \in 1..Len(in) : in[i].op = "path" => in[i].r # q.r
           /\ \A j \in 1..Len(out) : Fresh(out[j]) => out[j].r # q.r
  PROVE  PipesOK(s, in, Append(out, q))
<1> DEFINE new == Append(out, q)
<1>1. /\ Len(new) = Len(out) + 1
      /\ \A i \in 1..Len(out) : new[i] = out[i]
      /\ new[Len(out) + 1] = q
      /\ Len(out) \in Nat
  BY AppendFacts
<1>2. \A i \in 1..Len(new) : i \in 1..Len(out) \/ i = Len(out) + 1
  BY <1>1
<1> HIDE DEF new
<1>3. \A i \in 1..Len(new) : Sendable(s, new[i])
  BY <1>1, <1>2 DEF PipesOK
<1>4. \A i \in 1..Len(in), j \in 1..Len(new) :
        in[i].op = "path" /\ Fresh(new[j]) => in[i].r # new[j].r
  BY <1>1, <1>2 DEF PipesOK
<1>5. ASSUME NEW i \in 1..Len(new), NEW j \in 1..Len(new),
             Fresh(new[i]), Fresh(new[j]), new[i].r = new[j].r
      PROVE  i = j
  <2>1. CASE i \in 1..Len(out) /\ j \in 1..Len(out)
    BY <1>1, <1>5, <2>1 DEF PipesOK
  <2>2. CASE i \in 1..Len(out) /\ j = Len(out) + 1
    BY <1>1, <1>5, <2>2
  <2>3. CASE i = Len(out) + 1 /\ j \in 1..Len(out)
    BY <1>1, <1>5, <2>3
  <2> QED
    BY <1>2, <2>1, <2>2, <2>3
<1>6. PipesOK(s, in, new)
  BY <1>3, <1>4, <1>5 DEF PipesOK
<1> QED
  BY <1>6 DEF new

\* The service takes the operation at the head of the outbox.
LEMMA PipesTailOut ==
  ASSUME NEW s \in Server, NEW in \in Seq(Message), NEW out \in Seq(Operation),
         PipesOK(s, in, out), out # << >>
  PROVE  /\ PipesOK(s, in, Tail(out))
         /\ Sendable(s, Head(out))
         /\ Fresh(Head(out)) =>
              /\ \A i \in 1..Len(in) : in[i].op = "path" => in[i].r # Head(out).r
              /\ \A j \in 1..Len(Tail(out)) :
                   Fresh(Tail(out)[j]) => Tail(out)[j].r # Head(out).r
<1> DEFINE new == Tail(out)
<1>1. /\ Len(new) = Len(out) - 1
      /\ \A i \in 1..Len(new) : i + 1 \in 1..Len(out) /\ new[i] = out[i + 1]
      /\ Head(out) = out[1]
      /\ 1 \in 1..Len(out)
      /\ Len(out) \in Nat
  BY TailFacts
<1>2. \A i \in 1..Len(new) : i \in Int /\ i + 1 # 1
  BY <1>1
<1>3. \A i, j \in 1..Len(new) : i + 1 = j + 1 => i = j
  BY <1>2
<1> HIDE DEF new
<1>4. \A i \in 1..Len(new) : Sendable(s, new[i])
  BY <1>1 DEF PipesOK
<1>5. \A i, j \in 1..Len(new) : Fresh(new[i]) /\ Fresh(new[j]) /\ new[i].r = new[j].r => i = j
  BY <1>1, <1>3 DEF PipesOK
<1>6. \A i \in 1..Len(in), j \in 1..Len(new) :
        in[i].op = "path" /\ Fresh(new[j]) => in[i].r # new[j].r
  BY <1>1 DEF PipesOK
<1>7. PipesOK(s, in, new)
  BY <1>4, <1>5, <1>6 DEF PipesOK
<1>8. Fresh(Head(out)) => \A j \in 1..Len(new) : Fresh(new[j]) => new[j].r # Head(out).r
  BY <1>1, <1>2 DEF PipesOK
<1>9. /\ Sendable(s, Head(out))
      /\ Fresh(Head(out)) =>
           \A i \in 1..Len(in) : in[i].op = "path" => in[i].r # Head(out).r
  BY <1>1 DEF PipesOK
<1> QED
  BY <1>7, <1>8, <1>9 DEF new

\* Pipes that stay as they are stay in order when znodes go away, requests
\* arrive and no number is given.
LEMMA PipesFrame ==
  ASSUME NEW s \in Server, NEW in \in Seq(Message), NEW out \in Seq(Operation),
         PipesOK(s, in, out), UNCHANGED seq, znodes' \subseteq znodes,
         \A r \in Request : cmd[r] # "none" => cmd'[r] # "none"
  PROVE  PipesOK(s, in, out)'
<1>1. \A i \in 1..Len(out) : Sendable(s, out[i])'
  <2>1. \A i \in 1..Len(out) : out[i] \in Operation
    OBVIOUS
  <2> QED
    BY <2>1 DEF PipesOK, Sendable, Numbered, Operation
<1>2. \A i \in 1..Len(in) : Receivable(s, in[i])'
  <2>1. \A i \in 1..Len(in) : in[i] \in Message
    OBVIOUS
  <2>2. \A m \in Message : m.op # "event" => m.r \in Request
    BY DEF Message, Reply, Event
  <2> QED
    BY <2>1, <2>2 DEF PipesOK, Receivable, ListsAllAhead, Numbered
<1> QED
  BY <1>1, <1>2 DEF PipesOK

-----------------------------------------------------------------------------
(* AllPipesOK is preserved. *)

\* What a callback may rely on.
LEMMA ArrivedFacts ==
  ASSUME TypeOK, AllPipesOK, NEW r \in Request, NEW op \in Op, NEW by,
         Arrived(r, op, by)
  PROVE  /\ cmd[r] # "none"
         /\ op = "path" => ~Numbered(r)
         /\ op \notin {"path", "create"} => Numbered(r)
         /\ op = "create" /\ ReplyOf(r).rc = "ok" => Numbered(r)
         /\ op = "children" /\ ReplyOf(r).rc = "ok" => ListsAllAhead(ReplyOf(r))
         /\ ReplyOf(r) \in Message /\ ReplyOf(r).op = op /\ ReplyOf(r).r = r
<1> DEFINE s == ServerOf[r]
<1>1. /\ s \in Server /\ inbox[s] \in Seq(Message) /\ outbox[s] \in Seq(Operation)
      /\ inbox[s] # << >> /\ PipesOK(s, inbox[s], outbox[s])
  BY ServerOfAssumption DEF TypeOK, ZkTypeOK, Message, Arrived, AllPipesOK
<1>2. Receivable(s, ReplyOf(r))
  BY <1>1, PipesTailIn DEF ReplyOf
<1>3. ReplyOf(r) \in Message
  BY <1>1, TailFacts DEF ReplyOf
<1>4. ReplyOf(r).op = op /\ ReplyOf(r).r = r /\ op # "event"
  BY DEF Arrived, ReplyOf, Op
<1> QED
  BY <1>2, <1>3, <1>4 DEF Receivable, Fresh

\* The same for the watch callback.
LEMMA EventArrivedFacts ==
  ASSUME TypeOK, NumbersInOrder, AllPipesOK, NEW r \in Request, EventArrived(r)
  PROVE  cmd[r] # "none" /\ Numbered(r)
<1> DEFINE s == ServerOf[r]
<1>1. /\ s \in Server /\ inbox[s] \in Seq(Message) /\ outbox[s] \in Seq(Operation)
      /\ inbox[s] # << >> /\ PipesOK(s, inbox[s], outbox[s])
  BY ServerOfAssumption DEF TypeOK, ZkTypeOK, Message, EventArrived, AllPipesOK
<1>2. Receivable(s, Head(inbox[s]))
  BY <1>1, PipesTailIn
<1> QED
  BY <1>2 DEF EventArrived, Receivable, NumbersInOrder

\* A callback that handles a reply and may send an operation.
LEMMA CallbackPipes ==
  ASSUME TypeOK, AllPipesOK, NEW r \in Request, NEW op \in Op, NEW by,
         Arrived(r, op, by), Consume(r), UNCHANGED <<seq, znodes, cmd>>,
         NEW q \in Operation,
         \/ outbox' = outbox
         \/ /\ Send(ServerOf[r], q)
            /\ Sendable(ServerOf[r], q)
            /\ Fresh(q) => op = "path" /\ q.r = r
  PROVE  AllPipesOK'
<1> DEFINE s == ServerOf[r]
<1>1. /\ s \in Server /\ inbox[s] \in Seq(Message) /\ outbox[s] \in Seq(Operation)
      /\ inbox[s] # << >> /\ PipesOK(s, inbox[s], outbox[s])
  BY ServerOfAssumption DEF TypeOK, ZkTypeOK, Message, Arrived, AllPipesOK
<1>2. Head(inbox[s]).op = op /\ Head(inbox[s]).r = r
  BY DEF Arrived
<1>3. /\ PipesOK(s, Tail(inbox[s]), outbox[s])
      /\ Tail(inbox[s]) \in Seq(Message)
      /\ op = "path" =>
           /\ \A i \in 1..Len(Tail(inbox[s])) :
                Tail(inbox[s])[i].op = "path" => Tail(inbox[s])[i].r # r
           /\ \A j \in 1..Len(outbox[s]) : Fresh(outbox[s][j]) => outbox[s][j].r # r
  BY <1>1, <1>2, PipesTailIn, TailFacts
<1>4. Sendable(s, q) /\ (Fresh(q) => op = "path" /\ q.r = r) =>
        PipesOK(s, Tail(inbox[s]), Append(outbox[s], q))
  BY <1>1, <1>3, PipesAppendOut
<1> SUFFICES ASSUME NEW t \in Server
             PROVE  PipesOK(t, inbox[t], outbox[t])'
  BY DEF AllPipesOK
<1>5. inbox'[t] = IF t = s THEN Tail(inbox[s]) ELSE inbox[t]
  BY <1>1 DEF Consume, TypeOK, ZkTypeOK
<1>6. outbox'[t] = outbox[t] \/ (t = s /\ outbox'[t] = Append(outbox[s], q) /\ Sendable(s, q)
                                       /\ (Fresh(q) => op = "path" /\ q.r = r))
  BY <1>1 DEF Send, TypeOK, ZkTypeOK
<1>7. PipesOK(t, inbox'[t], outbox'[t])
  BY <1>3, <1>4, <1>5, <1>6 DEF AllPipesOK
<1>8. inbox'[t] \in Seq(Message)
  BY <1>1, <1>3, <1>5 DEF TypeOK, ZkTypeOK, Message
<1>9. outbox'[t] \in Seq(Operation)
  <2>1. Append(outbox[s], q) \in Seq(Operation)
    BY <1>1, AppendFacts
  <2> QED
    BY <1>6, <2>1 DEF TypeOK, ZkTypeOK
<1> QED
  BY <1>7, <1>8, <1>9, PipesFrame

\* The watch callback.
LEMMA EventPipes ==
  ASSUME TypeOK, AllPipesOK, NEW r \in Request, EventArrived(r), ConsumeEvent(r),
         UNCHANGED <<seq, znodes, cmd>>, NEW q \in Operation,
         outbox' = outbox \/ (Send(ServerOf[r], q) /\ Sendable(ServerOf[r], q) /\ ~Fresh(q))
  PROVE  AllPipesOK'
<1> DEFINE s == ServerOf[r]
           h == Head(inbox[s])
           rest == WatchEvent(h.rc, h.val \ {r})
<1>1. /\ s \in Server /\ inbox[s] \in Seq(Message) /\ outbox[s] \in Seq(Operation)
      /\ inbox[s] # << >> /\ PipesOK(s, inbox[s], outbox[s])
  BY ServerOfAssumption DEF TypeOK, ZkTypeOK, Message, EventArrived, AllPipesOK
<1>2. h \in Event /\ rest \in Event
  BY ConsumeEventTypes DEF TypeOK, ReplyOf, WatchEvent, Event
<1>3. Receivable(s, rest)
  BY <1>1, <1>2, PipesTailIn DEF Receivable, WatchEvent, Event
<1>4. /\ PipesOK(s, Tail(inbox[s]), outbox[s])
      /\ Tail(inbox[s]) \in Seq(Message)
      /\ PipesOK(s, <<rest>> \o Tail(inbox[s]), outbox[s])
      /\ <<rest>> \o Tail(inbox[s]) \in Seq(Message)
  BY <1>1, <1>2, <1>3, PipesTailIn, PipesReplaceHead, TailFacts, ReplaceHeadFacts
     DEF Message
<1> SUFFICES ASSUME NEW t \in Server
             PROVE  PipesOK(t, inbox[t], outbox[t])'
  BY DEF AllPipesOK
<1>5. \/ t # s /\ inbox'[t] = inbox[t]
      \/ t = s /\ inbox'[t] = Tail(inbox[s])
      \/ t = s /\ inbox'[t] = <<rest>> \o Tail(inbox[s])
  BY <1>1 DEF ConsumeEvent, TypeOK, ZkTypeOK
<1>6. \/ outbox'[t] = outbox[t]
      \/ t = s /\ outbox'[t] = Append(outbox[s], q) /\ Sendable(s, q) /\ ~Fresh(q)
  BY <1>1 DEF Send, TypeOK, ZkTypeOK
<1>7. PipesOK(t, inbox'[t], outbox[t]) /\ inbox'[t] \in Seq(Message)
  BY <1>1, <1>4, <1>5 DEF AllPipesOK, TypeOK, ZkTypeOK, Message
<1>8. outbox'[t] \in Seq(Operation)
  <2>1. Append(outbox[s], q) \in Seq(Operation)
    BY <1>1, AppendFacts
  <2> QED
    BY <1>6, <2>1 DEF TypeOK, ZkTypeOK
<1>9. PipesOK(t, inbox'[t], outbox'[t])
  <2>1. CASE outbox'[t] = outbox[t]
    BY <1>7, <2>1
  <2>2. CASE t = s /\ outbox'[t] = Append(outbox[s], q) /\ Sendable(s, q) /\ ~Fresh(q)
    BY <1>1, <1>7, <2>2, PipesAppendOut
  <2> QED
    BY <1>6, <2>1, <2>2
<1> QED
  BY <1>7, <1>8, <1>9, PipesFrame

\* A step that leaves the pipes, the numbers, the znodes and the commands alone.
LEMMA QuietPipes ==
  ASSUME AllPipesOK, TypeOK, UNCHANGED <<seq, znodes, cmd, inbox, outbox>>
  PROVE  AllPipesOK'
<1> SUFFICES ASSUME NEW t \in Server
             PROVE  PipesOK(t, inbox[t], outbox[t])'
  BY DEF AllPipesOK
<1>1. /\ PipesOK(t, inbox'[t], outbox'[t])
      /\ inbox'[t] \in Seq(Message) /\ outbox'[t] \in Seq(Operation)
  BY DEF AllPipesOK, TypeOK, ZkTypeOK, Message
<1> QED
  BY <1>1, PipesFrame

\* A client message or a timer that sends an operation.
LEMMA SendPipes ==
  ASSUME TypeOK, AllPipesOK, NEW r \in Request, UNCHANGED <<seq, znodes, cmd, inbox>>,
         NEW q \in Operation, Send(ServerOf[r], q), Sendable(ServerOf[r], q), ~Fresh(q)
  PROVE  AllPipesOK'
<1> DEFINE s == ServerOf[r]
<1>1. /\ s \in Server /\ inbox[s] \in Seq(Message) /\ outbox[s] \in Seq(Operation)
      /\ PipesOK(s, inbox[s], outbox[s])
  BY ServerOfAssumption DEF TypeOK, ZkTypeOK, Message, AllPipesOK
<1>2. PipesOK(s, inbox[s], Append(outbox[s], q))
  BY <1>1, PipesAppendOut
<1> SUFFICES ASSUME NEW t \in Server
             PROVE  PipesOK(t, inbox[t], outbox[t])'
  BY DEF AllPipesOK
<1>3. outbox'[t] = IF t = s THEN Append(outbox[s], q) ELSE outbox[t]
  BY <1>1 DEF Send, TypeOK, ZkTypeOK
<1>4. /\ PipesOK(t, inbox'[t], outbox'[t])
      /\ inbox'[t] \in Seq(Message) /\ outbox'[t] \in Seq(Operation)
  BY <1>1, <1>2, <1>3, AppendFacts DEF AllPipesOK, TypeOK, ZkTypeOK, Message
<1> QED
  BY <1>4, PipesFrame

\* PipesAppendOut, in the state after a step.
LEMMA PipesAppendOutNext ==
  ASSUME NEW s \in Server, NEW in \in Seq(Message), NEW out \in Seq(Operation),
         PipesOK(s, in, out)', NEW q \in Operation, Sendable(s, q)',
         Fresh(q) =>
           /\ \A i \in 1..Len(in) : in[i].op = "path" => in[i].r # q.r
           /\ \A j \in 1..Len(out) : Fresh(out[j]) => out[j].r # q.r
  PROVE  PipesOK(s, in, Append(out, q))'
<1> DEFINE new == Append(out, q)
<1>1. /\ Len(new) = Len(out) + 1
      /\ \A i \in 1..Len(out) : new[i] = out[i]
      /\ new[Len(out) + 1] = q
      /\ Len(out) \in Nat
  BY AppendFacts
<1>2. \A i \in 1..Len(new) : i \in 1..Len(out) \/ i = Len(out) + 1
  BY <1>1
<1> HIDE DEF new
<1>3. PipesOK(s, in, new)'
  BY <1>1, <1>2 DEF PipesOK, Fresh
<1> QED
  BY <1>3 DEF new

\* The arrival of a lock command: nothing about r is in the pipes yet.
LEMMA RecvLockPipes ==
  ASSUME TypeOK, NumbersInOrder, AllPipesOK, NEW r \in Request, NEW c \in Command,
         RecvLock(r, c)
  PROVE  AllPipesOK'
<1> DEFINE s == ServerOf[r]
           q == Request_("path", r, {}, "lock")
<1>1. /\ s \in Server /\ inbox[s] \in Seq(Message) /\ outbox[s] \in Seq(Operation)
      /\ PipesOK(s, inbox[s], outbox[s])
  BY ServerOfAssumption DEF TypeOK, ZkTypeOK, Message, AllPipesOK
<1>2. /\ cmd[r] = "none" /\ cmd' = [cmd EXCEPT ![r] = c] /\ c # "none"
      /\ UNCHANGED <<seq, znodes, inbox>>
      /\ Send(s, q)
  BY DEF RecvLock, Lock, SendFor, storeVars, Command
<1>3. q \in Operation /\ q.r = r /\ Fresh(q)
  BY RequestTypes DEF Op, Caller, Fresh
<1>4. Sendable(s, q)'
  BY <1>2, <1>3 DEF Sendable, Numbered, NumbersInOrder, TypeOK, LockTypeOK, Fresh
<1>5. /\ \A i \in 1..Len(inbox[s]) : inbox[s][i].op = "path" => inbox[s][i].r # r
      /\ \A j \in 1..Len(outbox[s]) : outbox[s][j].r # r
  BY <1>1, <1>2 DEF PipesOK, Receivable, Sendable
<1>6. \A x \in Request : cmd[x] # "none" => cmd'[x] # "none"
  BY <1>2 DEF TypeOK, LockTypeOK
<1> SUFFICES ASSUME NEW t \in Server
             PROVE  PipesOK(t, inbox[t], outbox[t])'
  BY DEF AllPipesOK
<1>7. outbox'[t] = IF t = s THEN Append(outbox[s], q) ELSE outbox[t]
  BY <1>1, <1>2 DEF Send, TypeOK, ZkTypeOK
<1>8. ASSUME NEW in, NEW out, in = inbox[t], out = outbox[t]
      PROVE  /\ PipesOK(t, in, out)'
             /\ t = s => PipesOK(t, in, Append(out, q))'
  <2>1. in \in Seq(Message) /\ out \in Seq(Operation) /\ PipesOK(t, in, out)
    BY <1>8 DEF AllPipesOK, TypeOK, ZkTypeOK, Message
  <2>2. PipesOK(t, in, out)'
    BY <1>2, <1>6, <2>1, PipesFrame
  <2>3. ASSUME t = s
        PROVE  PipesOK(t, in, Append(out, q))'
    BY <1>3, <1>4, <1>5, <1>8, <2>1, <2>2, <2>3, PipesAppendOutNext
  <2> QED
    BY <2>2, <2>3
<1> QED
  BY <1>2, <1>7, <1>8

\* The events of fired watches keep the pipes in order.
LEMMA NotifiedPipes ==
  ASSUME TypeOK, AllPipesOK, RolesNumbered, NEW Z, NEW t \in Server
  PROVE  PipesOK(t, Notified(Z)[t], outbox[t])
<1> DEFINE e == WatchEvent("ok", Watchers(t, Z))
<1>1. /\ inbox[t] \in Seq(Message) /\ outbox[t] \in Seq(Operation)
      /\ PipesOK(t, inbox[t], outbox[t])
  BY DEF AllPipesOK, TypeOK, ZkTypeOK, Message
<1>2. e \in Message /\ e.op # "path"
  BY DEF WatchEvent, Message, Event, Watchers
<1>3. Receivable(t, e)
  BY DEF Receivable, RolesNumbered, WatchEvent, Watchers
<1>4. PipesOK(t, Append(inbox[t], e), outbox[t])
  BY <1>1, <1>2, <1>3, PipesAppendIn
<1> QED
  BY <1>1, <1>4 DEF Notified

\* The service answers an operation that gives no number; mid are the inboxes
\* with the events the operation causes.
LEMMA ServePipes ==
  ASSUME TypeOK, AllPipesOK, NEW s \in Server, outbox[s] # << >>,
         Head(outbox[s]).op # "create",
         NEW mid \in [Server -> Seq(Message)],
         \A t \in Server : PipesOK(t, mid[t], outbox[t]),
         NEW rc \in {"ok", "nonode", "fail"}, NEW val \in SUBSET Request,
         Head(outbox[s]).op = "children" => val = znodes,
         inbox' = [mid EXCEPT ![s] = Append(@, Answer(Head(outbox[s]), rc, val))],
         outbox' = [outbox EXCEPT ![s] = Tail(@)],
         UNCHANGED <<seq, cmd>>, znodes' \subseteq znodes
  PROVE  AllPipesOK'
<1> DEFINE q == Head(outbox[s])
           rep == Answer(q, rc, val)
<1>1. outbox[s] \in Seq(Operation) /\ mid[s] \in Seq(Message) /\ PipesOK(s, mid[s], outbox[s])
  BY DEF TypeOK, ZkTypeOK
<1>2. q \in Operation /\ Tail(outbox[s]) \in Seq(Operation)
  BY <1>1, TailFacts
<1>3. rep \in Message /\ rep.op = q.op /\ rep.r = q.r /\ rep.rc = rc /\ rep.val = val
      /\ rep.op # "event"
  BY <1>2, AnswerTypes DEF Answer
<1>4. /\ PipesOK(s, mid[s], Tail(outbox[s]))
      /\ Sendable(s, q)
      /\ Fresh(q) =>
           /\ \A i \in 1..Len(mid[s]) : mid[s][i].op = "path" => mid[s][i].r # q.r
           /\ \A j \in 1..Len(Tail(outbox[s])) :
                Fresh(Tail(outbox[s])[j]) => Tail(outbox[s])[j].r # q.r
  BY <1>1, PipesTailOut
<1>5. Receivable(s, rep)
  BY <1>3, <1>4 DEF Receivable, Sendable, Fresh, ListsAllAhead
<1>6. PipesOK(s, Append(mid[s], rep), Tail(outbox[s]))
  BY <1>1, <1>2, <1>3, <1>4, <1>5, PipesAppendIn DEF Fresh
<1>7. Append(mid[s], rep) \in Seq(Message)
  BY <1>1, <1>3, AppendFacts
<1> SUFFICES ASSUME NEW t \in Server
             PROVE  PipesOK(t, inbox[t], outbox[t])'
  BY DEF AllPipesOK
<1>8. inbox'[t] = IF t = s THEN Append(mid[s], rep) ELSE mid[t]
  OBVIOUS
<1>9. outbox'[t] = IF t = s THEN Tail(outbox[s]) ELSE outbox[t]
  BY DEF TypeOK, ZkTypeOK
<1>10. PipesOK(t, inbox'[t], outbox'[t])
  BY <1>6, <1>8, <1>9
<1>11. inbox'[t] \in Seq(Message) /\ outbox'[t] \in Seq(Operation)
  BY <1>2, <1>7, <1>8, <1>9 DEF TypeOK, ZkTypeOK
<1> QED
  BY <1>10, <1>11, PipesFrame

\* A new znode: its number is greater than any other, so every listing on its
\* way still has all that is ahead of the one it was made for.
LEMMA PipesCreate ==
  ASSUME TypeOK, NumbersInOrder, NEW t \in Server,
         NEW in \in Seq(Message), NEW out \in Seq(Operation), PipesOK(t, in, out),
         NEW r \in Request, ~Numbered(r),
         \A i \in 1..Len(in) : in[i].op = "path" => in[i].r # r,
         \A j \in 1..Len(out) : Fresh(out[j]) => out[j].r # r,
         seq' = [seq EXCEPT ![r] = nextSeq], znodes' = znodes \cup {r}, UNCHANGED cmd
  PROVE  PipesOK(t, in, out)'
<1>1. \A x \in Request : Numbered(x) => Numbered(x)' /\ seq'[x] = seq[x] /\ seq[x] < nextSeq
  BY DEF Numbered, NumbersInOrder, TypeOK, ZkTypeOK, NoSeq
<1>2. \A x \in Request : x # r => seq'[x] = seq[x]
  BY DEF TypeOK, ZkTypeOK
<1>3. seq'[r] = nextSeq /\ nextSeq \in Nat
  BY DEF TypeOK, ZkTypeOK
<1>4. \A j \in 1..Len(out) : Sendable(t, out[j])'
  <2> SUFFICES ASSUME NEW j \in 1..Len(out)
               PROVE  Sendable(t, out[j])'
    OBVIOUS
  <2>1. out[j] \in Operation /\ Sendable(t, out[j])
    BY DEF PipesOK
  <2> DEFINE x == out[j].r
  <2>2. x \in Request
    BY <2>1 DEF Operation
  <2>3. CASE Fresh(out[j])
    BY <1>2, <2>1, <2>3, <2>2 DEF Sendable, Numbered, Fresh
  <2>4. CASE ~Fresh(out[j])
    BY <1>1, <2>1, <2>4, <2>2 DEF Sendable, Fresh
  <2> QED
    BY <2>3, <2>4
<1>5. \A i \in 1..Len(in) : Receivable(t, in[i])'
  <2> SUFFICES ASSUME NEW i \in 1..Len(in)
               PROVE  Receivable(t, in[i])'
    OBVIOUS
  <2> DEFINE m == in[i]
  <2>1. m \in Message /\ Receivable(t, m)
    BY DEF PipesOK
  <2>2. CASE m.op = "event"
    <3>1. m.val \subseteq Request
      BY <2>1 DEF Message, Reply, Event
    <3> QED
      BY <1>1, <2>1, <2>2, <3>1 DEF Receivable
  <2>3. CASE m.op # "event"
    <3>1. m.r \in Request
      BY <2>1, <2>3 DEF Message, Reply, Event
    <3>2. m.op = "path" => ~Numbered(m.r)'
      BY <1>2, <2>1, <2>3, <3>1 DEF Receivable, Numbered
    <3>3. Numbered(m.r) => Numbered(m.r)'
      BY <1>1, <3>1
    <3>4. ASSUME m.op = "children", m.rc = "ok"
          PROVE  ListsAllAhead(m)'
      <4>1. Numbered(m.r) /\ ListsAllAhead(m)
        BY <2>1, <2>3, <3>4 DEF Receivable, Fresh
      <4>2. seq'[m.r] = seq[m.r] /\ seq[m.r] < nextSeq /\ seq[m.r] \in Nat
        BY <1>1, <3>1, <4>1 DEF TypeOK, ZkTypeOK, Numbered
      <4>3. ASSUME NEW z \in znodes', seq'[z] < seq'[m.r]
            PROVE  z \in m.val
        <5>1. z # r
          BY <1>3, <4>2, <4>3
        <5>2. z \in znodes /\ seq[z] < seq[m.r]
          BY <1>2, <4>2, <4>3, <5>1 DEF TypeOK, ZkTypeOK
        <5> QED
          BY <4>1, <5>2 DEF ListsAllAhead
      <4> QED
        BY <4>3 DEF ListsAllAhead
    <3> QED
      BY <2>1, <2>3, <3>2, <3>3, <3>4 DEF Receivable, Fresh
  <2> QED
    BY <2>2, <2>3
<1> QED
  BY <1>4, <1>5 DEF PipesOK, Fresh

\* PipesAppendIn for a reply to a create, in the state after a step.
LEMMA PipesAppendInNext ==
  ASSUME NEW s \in Server, NEW in \in Seq(Message), NEW out \in Seq(Operation),
         PipesOK(s, in, out)', NEW m \in Message, Receivable(s, m)', m.op # "path"
  PROVE  PipesOK(s, Append(in, m), out)'
<1> DEFINE new == Append(in, m)
<1>1. /\ Len(new) = Len(in) + 1
      /\ \A i \in 1..Len(in) : new[i] = in[i]
      /\ new[Len(in) + 1] = m
      /\ Len(in) \in Nat
  BY AppendFacts
<1>2. \A i \in 1..Len(new) : i \in 1..Len(in) \/ i = Len(in) + 1
  BY <1>1
<1> HIDE DEF new
<1>3. \A i \in 1..Len(new) : Receivable(s, new[i])'
  BY <1>1, <1>2 DEF PipesOK
<1>4. \A i \in 1..Len(new) : new[i].op = "path" => i \in 1..Len(in) /\ new[i] = in[i]
  BY <1>1, <1>2
<1>5. \A i \in 1..Len(new), j \in 1..Len(out) :
        new[i].op = "path" /\ Fresh(out[j]) => new[i].r # out[j].r
  BY <1>4 DEF PipesOK, Fresh
<1>6. ASSUME NEW i \in 1..Len(new), NEW j \in 1..Len(new),
             new[i].op = "path", new[j].op = "path", new[i].r = new[j].r
      PROVE  i = j
  BY <1>4, <1>6 DEF PipesOK
<1>7. PipesOK(s, new, out)'
  BY <1>3, <1>5, <1>6 DEF PipesOK, Fresh
<1> QED
  BY <1>7 DEF new

\* The creation of a znode.
LEMMA CreatePipes ==
  ASSUME TypeOK, NumbersInOrder, AllPipesOK, NEW s \in Server, ServeCreate(s),
         UNCHANGED cmd
  PROVE  AllPipesOK'
<1>1. /\ outbox[s] \in Seq(Operation) /\ inbox[s] \in Seq(Message)
      /\ PipesOK(s, inbox[s], outbox[s])
  BY DEF AllPipesOK, TypeOK, ZkTypeOK, Message
<1>2. outbox[s] # << >>
  BY DEF ServeCreate, Serving
<1>3. Head(outbox[s]) \in Operation /\ Tail(outbox[s]) \in Seq(Operation)
  BY <1>1, <1>2, TailFacts
<1>4. PICK q \in Operation : q = Head(outbox[s])
  BY <1>3
<1>5. PICK rep : rep = Answer(q, "ok", {})
  OBVIOUS
<1>6. /\ outbox[s] # << >> /\ q.op = "create"
      /\ outbox' = [outbox EXCEPT ![s] = Tail(@)]
      /\ inbox' = [inbox EXCEPT ![s] = Append(@, rep)]
      /\ seq' = [seq EXCEPT ![q.r] = nextSeq]
      /\ znodes' = znodes \cup {q.r}
  BY <1>4, <1>5 DEF ServeCreate, Serving, Respond
<1>7. q.r \in Request /\ Tail(outbox[s]) \in Seq(Operation)
  BY <1>3 DEF Operation
<1>8. rep \in Message /\ rep.op = "create" /\ rep.r = q.r /\ rep.rc = "ok"
  BY <1>6, <1>5, AnswerTypes DEF Answer
<1>9. /\ PipesOK(s, inbox[s], Tail(outbox[s]))
      /\ Sendable(s, q)
      /\ \A i \in 1..Len(inbox[s]) : inbox[s][i].op = "path" => inbox[s][i].r # q.r
      /\ \A j \in 1..Len(Tail(outbox[s])) :
           Fresh(Tail(outbox[s])[j]) => Tail(outbox[s])[j].r # q.r
  BY <1>6, <1>1, <1>4, PipesTailOut DEF Fresh
<1>10. ~Numbered(q.r) /\ ServerOf[q.r] = s /\ cmd[q.r] # "none"
  BY <1>6, <1>9 DEF Sendable, Fresh
<1>11. Receivable(s, rep)'
  BY <1>6, <1>7, <1>8, <1>10
     DEF Receivable, Fresh, Numbered, NoSeq, TypeOK, ZkTypeOK, ServeCreate
<1> SUFFICES ASSUME NEW t \in Server
             PROVE  PipesOK(t, inbox[t], outbox[t])'
  BY DEF AllPipesOK
<1>12. CASE t = s
  <2>1. ASSUME NEW in, NEW out, in = inbox[s], out = Tail(outbox[s])
        PROVE  PipesOK(s, Append(in, rep), out)'
    <3>1. in \in Seq(Message) /\ out \in Seq(Operation)
      BY <1>1, <1>7, <2>1
    <3>2. PipesOK(s, in, out)'
      BY <1>6, <1>7, <1>9, <1>10, <2>1, <3>1, PipesCreate
    <3> QED
      BY <1>8, <1>11, <3>1, <3>2, PipesAppendInNext
  <2>2. inbox'[s] = Append(inbox[s], rep) /\ outbox'[s] = Tail(outbox[s])
    BY <1>6 DEF TypeOK, ZkTypeOK
  <2> QED
    BY <1>12, <2>1, <2>2
<1>13. CASE t # s
  <2>1. inbox'[t] = inbox[t] /\ outbox'[t] = outbox[t]
    BY <1>6, <1>13 DEF TypeOK, ZkTypeOK
  <2>2. /\ inbox[t] \in Seq(Message) /\ outbox[t] \in Seq(Operation)
        /\ PipesOK(t, inbox[t], outbox[t])
    BY DEF AllPipesOK, TypeOK, ZkTypeOK, Message
  <2>3. /\ \A i \in 1..Len(inbox[t]) : inbox[t][i].op = "path" => inbox[t][i].r # q.r
        /\ \A j \in 1..Len(outbox[t]) : outbox[t][j].r # q.r
    BY <1>10, <1>13, <2>2 DEF PipesOK, Receivable, Sendable
  <2>4. ASSUME NEW in, NEW out, in = inbox[t], out = outbox[t]
        PROVE  PipesOK(t, in, out)'
    BY <1>6, <1>7, <1>10, <2>2, <2>3, <2>4, PipesCreate
  <2> QED
    BY <2>1, <2>4
<1> QED
  BY <1>12, <1>13

\* A failed message is received for the request and the operation it was for.
LEMMA FailedReceivable ==
  ASSUME NEW s \in Server, NEW m \in Message \cup Operation,
         (m \in Message /\ Receivable(s, m)) \/ (m \in Operation /\ Sendable(s, m))
  PROVE  /\ Receivable(s, Failed(m))
         /\ Failed(m).op = m.op
         /\ m.op = "path" => Failed(m).r = m.r
<1>1. CASE m \in Event
  <2>1. m \in Message /\ m.op = "event" /\ ~(m \in Operation)
    BY <1>1 DEF Message, Event, Operation, Op
  <2> QED
    BY <2>1 DEF Failed, WatchEvent, Receivable
<1>2. CASE m \in Reply
  <2>1. m \in Message /\ m.op # "event" /\ ~(m \in Operation)
    BY <1>2 DEF Message, Reply, Operation, Op
  <2> QED
    BY <2>1 DEF Failed, Answer, Receivable, Fresh
<1>3. CASE m \in Operation
  <2>1. m.op # "event" /\ ~(m \in Message)
    BY <1>3 DEF Message, Reply, Event, Operation, Op
  <2> QED
    BY <2>1 DEF Failed, Answer, Receivable, Sendable, Fresh
<1> QED
  BY <1>1, <1>2, <1>3 DEF Message

\* A disconnect: the inbox gets failures for what was under way.
LEMMA PipesFailed ==
  ASSUME NEW s \in Server, NEW in \in Seq(Message), NEW out \in Seq(Operation),
         PipesOK(s, in, out), NEW n \in Nat, n = Len(in), NEW m \in Nat, m = Len(out),
         NEW k \in 0..n, NEW new \in Seq(Message), Len(new) = n + m,
         \A i \in 1..(n + m) :
           new[i] = IF i <= k THEN in[i]
                    ELSE Failed(IF i <= n THEN in[i] ELSE out[i - n])
  PROVE  PipesOK(s, new, << >>)
<1>1. \A i \in 1..n : in[i] \in Message /\ Receivable(s, in[i])
  BY DEF PipesOK
<1>2. \A i \in 1..m : out[i] \in Operation /\ Sendable(s, out[i])
  BY DEF PipesOK
<1>3. \A i \in 1..(n + m) : i <= n =>
        /\ i \in 1..n
        /\ Receivable(s, new[i])
        /\ new[i].op = in[i].op
        /\ new[i].op = "path" => new[i].r = in[i].r
  BY <1>1, FailedReceivable
<1>4. \A i \in 1..(n + m) : ~(i <= n) =>
        /\ i - n \in 1..m
        /\ Receivable(s, new[i])
        /\ new[i].op = out[i - n].op
        /\ new[i].op = "path" => new[i].r = out[i - n].r
  <2> SUFFICES ASSUME NEW i \in 1..(n + m), ~(i <= n)
               PROVE  /\ i - n \in 1..m
                      /\ Receivable(s, new[i])
                      /\ new[i].op = out[i - n].op
                      /\ new[i].op = "path" => new[i].r = out[i - n].r
    OBVIOUS
  <2>1. i - n \in 1..m /\ ~(i <= k)
    OBVIOUS
  <2>2. new[i] = Failed(out[i - n])
    BY <2>1
  <2>3. out[i - n] \in Operation /\ Sendable(s, out[i - n])
    BY <1>2, <2>1
  <2> QED
    BY <2>1, <2>2, <2>3, FailedReceivable
<1>5. \A i \in 1..Len(new) : Receivable(s, new[i])
  BY <1>3, <1>4
<1>6. ASSUME NEW i \in 1..Len(new), NEW j \in 1..Len(new),
             new[i].op = "path", new[j].op = "path", new[i].r = new[j].r
      PROVE  i = j
  <2>1. CASE i <= n /\ j <= n
    <3>1. /\ i \in 1..Len(in) /\ j \in 1..Len(in)
          /\ in[i].op = "path" /\ in[j].op = "path" /\ in[i].r = in[j].r
      BY <1>3, <1>6, <2>1
    <3> QED
      BY <3>1 DEF PipesOK
  <2>2. CASE ~(i <= n) /\ ~(j <= n)
    <3>1. /\ i - n \in 1..Len(out) /\ j - n \in 1..Len(out)
          /\ out[i - n].op = "path" /\ out[j - n].op = "path"
          /\ out[i - n].r = out[j - n].r
      BY <1>4, <1>6, <2>2
    <3>2. i - n = j - n
      BY <3>1 DEF PipesOK, Fresh
    <3> QED
      BY <3>2
  <2>3. CASE i <= n /\ ~(j <= n)
    <3>1. /\ i \in 1..Len(in) /\ j - n \in 1..Len(out)
          /\ in[i].op = "path" /\ out[j - n].op = "path" /\ in[i].r = out[j - n].r
      BY <1>3, <1>4, <1>6, <2>3
    <3> QED
      BY <3>1 DEF PipesOK, Fresh
  <2>4. CASE j <= n /\ ~(i <= n)
    <3>1. /\ j \in 1..Len(in) /\ i - n \in 1..Len(out)
          /\ in[j].op = "path" /\ out[i - n].op = "path" /\ in[j].r = out[i - n].r
      BY <1>3, <1>4, <1>6, <2>4
    <3> QED
      BY <3>1 DEF PipesOK, Fresh
  <2> QED
    BY <2>1, <2>2, <2>3, <2>4
<1> QED
  BY <1>5, <1>6 DEF PipesOK

\* A disconnect keeps the pipes in order.
LEMMA DisconnectPipes ==
  ASSUME TypeOK, AllPipesOK, RolesNumbered, NEW s \in Server, Disconnect(s), UNCHANGED cmd
  PROVE  AllPipesOK'
<1> DEFINE waiting == {r \in Request : ServerOf[r] = s /\ watch[r] # {}}
<1>1. PICK in \in Seq(Message), out \in Seq(Operation) : in = inbox[s] /\ out = outbox[s]
  BY DEF TypeOK, ZkTypeOK, Message
<1>2. PipesOK(s, in, out)
  BY <1>1 DEF AllPipesOK
<1>3. PICK n \in Nat, m \in Nat : n = Len(in) /\ m = Len(out)
  OBVIOUS
<1> DEFINE Replies(k) == [i \in 1..(n + m) |->
             IF i <= k THEN in[i] ELSE Failed(IF i <= n THEN in[i] ELSE out[i - n])]
<1>4. PICK k \in 0..n :
        inbox' = [inbox EXCEPT ![s] =
                    IF waiting = {} THEN Replies(k)
                    ELSE Append(Replies(k), WatchEvent("fail", waiting))]
  <2>1. n = Len(inbox[s]) /\ m = Len(outbox[s]) /\ inbox[s] = in /\ outbox[s] = out
    BY <1>1, <1>3
  <2>2. \E k \in 0..n :
          LET replies == [i \in 1..(n + m) |->
                 IF i <= k THEN in[i] ELSE Failed(IF i <= n THEN in[i] ELSE out[i - n])]
          IN inbox' = [inbox EXCEPT ![s] =
                         IF waiting = {} THEN replies
                         ELSE Append(replies, WatchEvent("fail", waiting))]
    BY <2>1, Zenon DEF Disconnect
  <2> QED
    BY <2>2, Zenon
<1>5. ASSUME NEW i \in 1..(n + m)
      PROVE  Replies(k)[i] \in Message
  <2>1. CASE i <= n
    <3>1. in[i] \in Message
      BY <1>3, <2>1
    <3> QED
      BY <2>1, <3>1, FailedTypes
  <2>2. CASE ~(i <= n)
    <3>1. i - n \in 1..m /\ ~(i <= k)
      BY <2>2
    <3>2. out[i - n] \in Operation
      BY <1>3, <3>1
    <3> QED
      BY <2>2, <3>1, <3>2, FailedTypes
  <2> QED
    BY <2>1, <2>2
<1>6. PICK new : new = Replies(k)
  OBVIOUS
<1>7. new \in Seq(Message) /\ Len(new) = n + m
  <2>1. n + m \in Nat /\ new \in [1..(n + m) -> Message]
    BY <1>5, <1>6
  <2> QED
    BY <2>1, SeqOfFcn
<1>8. PipesOK(s, new, << >>)
  <2>1. \A i \in 1..(n + m) :
          new[i] = IF i <= k THEN in[i]
                   ELSE Failed(IF i <= n THEN in[i] ELSE out[i - n])
    BY <1>6
  <2> HIDE DEF Replies
  <2> QED
    BY <1>2, <1>3, <1>7, <2>1, PipesFailed, ZenonT(30)
<1>9. PICK e : e = WatchEvent("fail", waiting)
  OBVIOUS
<1>10. e \in Message /\ e.op = "event" /\ Receivable(s, e)
  BY <1>9 DEF WatchEvent, Message, Event, Receivable, RolesNumbered
<1>11. << >> \in Seq(Operation)
  OBVIOUS
<1>12. PipesOK(s, Append(new, e), << >>) /\ Append(new, e) \in Seq(Message)
  BY <1>7, <1>8, <1>10, <1>11, PipesAppendIn, AppendFacts
<1> HIDE DEF Replies
<1>13. /\ inbox' = [inbox EXCEPT ![s] = IF waiting = {} THEN new ELSE Append(new, e)]
       /\ outbox' = [outbox EXCEPT ![s] = << >>]
       /\ UNCHANGED <<seq, znodes>>
  BY <1>4, <1>6, <1>9 DEF Disconnect
<1> SUFFICES ASSUME NEW t \in Server
             PROVE  PipesOK(t, inbox[t], outbox[t])'
  BY DEF AllPipesOK
<1>14. /\ inbox'[t] = IF t # s THEN inbox[t] ELSE IF waiting = {} THEN new ELSE Append(new, e)
       /\ outbox'[t] = IF t # s THEN outbox[t] ELSE << >>
  BY <1>13 DEF TypeOK, ZkTypeOK
<1>15. /\ PipesOK(t, inbox'[t], outbox'[t])
       /\ inbox'[t] \in Seq(Message) /\ outbox'[t] \in Seq(Operation)
  BY <1>7, <1>8, <1>11, <1>12, <1>14 DEF AllPipesOK, TypeOK, ZkTypeOK, Message
<1> QED
  BY <1>13, <1>15, PipesFrame

\* A crash empties the pipes of the process.
LEMMA AbandonPipes ==
  ASSUME TypeOK, AllPipesOK, NEW s \in Server, Abandon(s), UNCHANGED cmd
  PROVE  AllPipesOK'
<1> SUFFICES ASSUME NEW t \in Server
             PROVE  PipesOK(t, inbox[t], outbox[t])'
  BY DEF AllPipesOK
<1>1. << >> \in Seq(Message) /\ << >> \in Seq(Operation) /\ PipesOK(t, << >>, << >>)
  BY DEF PipesOK
<1>2. \/ inbox'[t] = << >> /\ outbox'[t] = << >>
      \/ inbox'[t] = inbox[t] /\ outbox'[t] = outbox[t]
  BY DEF Abandon, TypeOK, ZkTypeOK
<1>3. /\ PipesOK(t, inbox'[t], outbox'[t])
      /\ inbox'[t] \in Seq(Message) /\ outbox'[t] \in Seq(Operation)
  BY <1>1, <1>2 DEF AllPipesOK, TypeOK, ZkTypeOK, Message
<1> QED
  BY <1>3, PipesFrame DEF Abandon

\* The end of a session notifies the watchers of its znodes.
LEMMA RemovePipes ==
  ASSUME TypeOK, AllPipesOK, RolesNumbered, NEW Z, RemoveEphemerals(Z), UNCHANGED cmd
  PROVE  AllPipesOK'
<1> SUFFICES ASSUME NEW t \in Server
             PROVE  PipesOK(t, inbox[t], outbox[t])'
  BY DEF AllPipesOK
<1>1. PipesOK(t, inbox'[t], outbox'[t])
  BY NotifiedPipes DEF RemoveEphemerals
<1>2. inbox'[t] \in Seq(Message) /\ outbox'[t] \in Seq(Operation)
  BY NotifiedTypes DEF RemoveEphemerals, TypeOK, ZkTypeOK
<1> QED
  BY <1>1, <1>2, PipesFrame DEF RemoveEphemerals

-----------------------------------------------------------------------------
(* The inductive invariant. *)

\* The parts of IndInv survive a step that gives no number and no lock.
LEMMA OrderFrame ==
  ASSUME IndInv, UNCHANGED <<seq, nextSeq>>, znodes' \subseteq znodes,
         \A r \in Request : cmd[r] # "none" => cmd'[r] = cmd[r],
         \A r \in Request : promise'[r] = "acquired" => promise[r] = "acquired"
  PROVE  NumbersInOrder' /\ GrantedInOrder'
<1>1. NumbersInOrder'
  BY DEF IndInv, NumbersInOrder, Numbered
<1>2. ASSUME NEW a \in Request, NEW b \in Request,
             Holds(b)', a \in znodes', Conflicts(a, b)', 0 < seq'[a]
      PROVE  seq'[b] < seq'[a]
  <2>1. Holds(b) /\ a \in znodes /\ b \in znodes
    BY <1>2 DEF Holds
  <2>2. cmd'[a] = cmd[a] /\ cmd'[b] = cmd[b]
    BY <2>1 DEF IndInv, NumbersInOrder
  <2>3. Conflicts(a, b)
    BY <1>2, <2>2 DEF Conflicts, IsWriter
  <2> QED
    BY <1>2, <2>1, <2>3 DEF IndInv, GrantedInOrder
<1> QED
  BY <1>1, <1>2 DEF GrantedInOrder

\* The callbacks of the lock keep the invariant; Listed is the one that matters:
\* a complete listing with nobody to watch means nobody is in front.
LEMMA LockCallbackInv ==
  ASSUME IndInv, NEW r \in Request, LockCallback(r)
  PROVE  AllPipesOK' /\ RolesNumbered' /\ NumbersInOrder' /\ GrantedInOrder'
<1> USE DEF IndInv
<1>1. UNCHANGED <<storeVars, cmd, control>>
  BY LockCallbackTypes DEF LockCallback
<1>2. /\ UNCHANGED <<seq, nextSeq, znodes, cmd>> /\ znodes' \subseteq znodes
      /\ UNCHANGED <<watch, control>>
      /\ \A x \in Request : cmd[x] # "none" => cmd'[x] = cmd[x]
  BY <1>1 DEF storeVars
<1>3. TypeOK /\ promise \in [Request -> {"none", "pending", "acquired", "rejected"}]
      /\ waitTimer \in [Request -> {"off", "armed", "fired"}]
  BY DEF TypeOK, LockTypeOK
<1>4. ASSUME NEW op \in Op, NEW arg \in SUBSET Request,
             Numbered(r), ~(op \in {"path", "create"}),
             cmd[r] # "none"
      PROVE  /\ Request_(op, r, arg, "lock") \in Operation
             /\ Sendable(ServerOf[r], Request_(op, r, arg, "lock"))
             /\ ~Fresh(Request_(op, r, arg, "lock"))
  BY <1>4, RequestTypes DEF Sendable, Fresh, Caller
<1>5. CASE PathEnsured(r)
  <2> DEFINE q == Request_("create", r, {}, "lock")
  <2>1. Arrived(r, "path", "lock") /\ Consume(r)
    BY <1>5 DEF PathEnsured
  <2>2. cmd[r] # "none" /\ ~Numbered(r)
    BY <2>1, <1>3, ArrivedFacts DEF Op
  <2>3. q \in Operation /\ Sendable(ServerOf[r], q) /\ q.r = r
    BY <2>2, RequestTypes DEF Sendable, Fresh, Op, Caller
  <2>4. outbox' = outbox \/ Send(ServerOf[r], q)
    BY <1>5 DEF PathEnsured, SendFor
  <2>5. AllPipesOK'
    BY <1>2, <1>3, <2>1, <2>3, <2>4, CallbackPipes DEF Op
  <2>6. /\ \A x \in Request : promise'[x] = "acquired" => promise[x] = "acquired"
        /\ UNCHANGED waitTimer
    BY <1>3, <1>5 DEF PathEnsured, Reject
  <2> QED
    BY <1>2, <2>5, <2>6, OrderFrame DEF RolesNumbered, Numbered
<1>6. CASE Created(r)
  <2> DEFINE q == Request_("children", r, {}, "lock")
  <2>1. Arrived(r, "create", "lock") /\ Consume(r)
    BY <1>6 DEF Created
  <2>2. cmd[r] # "none" /\ (ReplyOf(r).rc = "ok" => Numbered(r))
    BY <2>1, <1>3, ArrivedFacts DEF Op
  <2>3. q \in Operation
    BY RequestTypes DEF Op, Caller
  <2>4. outbox' = outbox \/ (Send(ServerOf[r], q) /\ Numbered(r))
    BY <1>6, <2>2 DEF Created, SendFor
  <2>5. AllPipesOK'
    BY <1>2, <1>3, <1>4, <2>1, <2>2, <2>3, <2>4, CallbackPipes DEF Op
  <2>6. /\ \A x \in Request : promise'[x] = "acquired" => promise[x] = "acquired"
        /\ \A x \in Request : waitTimer'[x] # "off" => waitTimer[x] # "off" \/ Numbered(x)
    BY <1>3, <1>6, <2>2 DEF Created, Reject
  <2> QED
    BY <1>2, <2>5, <2>6, OrderFrame DEF RolesNumbered, Numbered
<1>7. CASE Listed(r, Request_("get", r, {}, "lock"))
  <2> DEFINE get == Request_("get", r, {}, "lock")
             exists(z) == Request_("exists", r, {z}, "lock")
  <2>1. Arrived(r, "children", "lock") /\ Consume(r)
    BY <1>7 DEF Listed
  <2>2. /\ cmd[r] # "none" /\ Numbered(r)
        /\ ReplyOf(r).rc = "ok" => ListsAllAhead(ReplyOf(r))
        /\ ReplyOf(r) \in Message /\ ReplyOf(r).r = r
    BY <2>1, <1>3, ArrivedFacts DEF Op
  <2>3. NodeToBeWatched(r, ReplyOf(r).val) \subseteq Request
    BY <2>2 DEF NodeToBeWatched, Ahead, Message, Reply, Event
  <2>4. /\ get \in Operation /\ Sendable(ServerOf[r], get) /\ ~Fresh(get)
        /\ \A z \in Request :
             /\ exists(z) \in Operation
             /\ Sendable(ServerOf[r], exists(z))
             /\ ~Fresh(exists(z))
    BY <1>4, <2>2 DEF Op
  <2>5. PICK q \in Operation :
          \/ outbox' = outbox
          \/ Send(ServerOf[r], q) /\ Sendable(ServerOf[r], q) /\ ~Fresh(q)
    <3>1. CASE outbox' = outbox \/ Send(ServerOf[r], get)
      BY <2>4, <3>1
    <3>2. CASE \E z \in Request : Send(ServerOf[r], exists(z))
      BY <2>4, <3>2
    <3> QED
      BY <1>7, <2>3, <3>1, <3>2 DEF Listed, SendFor
  <2>6. AllPipesOK'
    BY <1>2, <1>3, <2>1, <2>5, CallbackPipes DEF Op
  <2>7. \A x \in Request : waitTimer'[x] # "off" => waitTimer[x] # "off"
    BY <1>3, <1>7 DEF Listed, lockVars
  <2>8. \A x \in Request : promise'[x] = "acquired" => promise[x] = "acquired" \/ x = r
    BY <1>3, <1>7 DEF Listed, Reject, lockVars
  <2>9. RolesNumbered'
    BY <1>2, <2>2, <2>7, <2>8 DEF RolesNumbered, Numbered
  <2>10. CASE promise'[r] = "acquired" => promise[r] = "acquired"
    BY <1>2, <2>6, <2>8, <2>9, <2>10, OrderFrame
  <2>11. CASE promise'[r] = "acquired" /\ promise[r] # "acquired"
    <3>1. ReplyOf(r).rc = "ok" /\ Ahead(r, ReplyOf(r).val) = {}
      BY <1>3, <1>7, <2>11 DEF Listed, Reject, lockVars
    <3>2. ASSUME NEW a \in znodes, Conflicts(a, r), 0 < seq[a]
          PROVE  seq[r] < seq[a]
      <4>1. SUFFICES ASSUME ~(seq[r] < seq[a])
                     PROVE  FALSE
        OBVIOUS
      <4>2. /\ a \in Request /\ a # r
            /\ seq[a] \in Nat /\ seq[r] \in Nat
        BY <2>2, <3>2 DEF TypeOK, ZkTypeOK, Conflicts, Numbered, NoSeq
      <4>3. seq[a] # seq[r]
        BY <2>2, <4>2 DEF NumbersInOrder
      <4>4. seq[a] < seq[r]
        BY <4>1, <4>2, <4>3
      <4>5. a \in ReplyOf(r).val
        BY <2>2, <3>1, <4>4 DEF ListsAllAhead
      <4>6. a \in Ahead(r, ReplyOf(r).val)
        BY <3>2, <4>4, <4>5 DEF Ahead, Conflicts
      <4> QED
        BY <3>1, <4>6
    <3>3. GrantedInOrder'
      <4> SUFFICES ASSUME NEW a \in Request, NEW b \in Request,
                          Holds(b)', a \in znodes', Conflicts(a, b)', 0 < seq'[a]
                   PROVE  seq'[b] < seq'[a]
        BY DEF GrantedInOrder
      <4>1. Conflicts(a, b) /\ a \in znodes /\ 0 < seq[a] /\ seq' = seq
        BY <1>2 DEF Conflicts, IsWriter
      <4>2. CASE b = r
        BY <3>2, <4>1, <4>2
      <4>3. CASE b # r
        BY <1>2, <2>8, <4>1, <4>3 DEF GrantedInOrder, Holds
      <4> QED
        BY <4>2, <4>3
    <3>4. NumbersInOrder'
      BY <1>2 DEF NumbersInOrder, Numbered
    <3> QED
      BY <2>6, <2>9, <3>3, <3>4
  <2> QED
    BY <2>10, <2>11
<1>8. CASE ExistsReplied(r)
  <2> DEFINE q == Request_("children", r, {}, "lock")
  <2>1. Arrived(r, "exists", "lock") /\ Consume(r)
    BY <1>8 DEF ExistsReplied
  <2>2. cmd[r] # "none" /\ Numbered(r)
    BY <2>1, <1>3, ArrivedFacts DEF Op
  <2>3. q \in Operation /\ Sendable(ServerOf[r], q) /\ ~Fresh(q)
    BY <1>4, <2>2 DEF Op
  <2>4. outbox' = outbox \/ Send(ServerOf[r], q)
    BY <1>8 DEF ExistsReplied, SendFor
  <2>5. AllPipesOK'
    BY <1>2, <1>3, <2>1, <2>3, <2>4, CallbackPipes DEF Op
  <2>6. /\ \A x \in Request : promise'[x] = "acquired" => promise[x] = "acquired"
        /\ UNCHANGED waitTimer
    BY <1>3, <1>8 DEF ExistsReplied, Reject
  <2> QED
    BY <1>2, <2>5, <2>6, OrderFrame DEF RolesNumbered, Numbered
<1>9. CASE WatchFired(r)
  <2> DEFINE q == Request_("children", r, {}, "lock")
  <2>1. EventArrived(r) /\ ConsumeEvent(r)
    BY <1>9 DEF WatchFired
  <2>2. cmd[r] # "none" /\ Numbered(r)
    BY <1>3, <2>1, EventArrivedFacts
  <2>3. q \in Operation /\ Sendable(ServerOf[r], q) /\ ~Fresh(q)
    BY <1>4, <2>2 DEF Op
  <2>4. outbox' = outbox \/ Send(ServerOf[r], q)
    BY <1>9 DEF WatchFired, SendFor
  <2>5. AllPipesOK'
    BY <1>2, <1>3, <2>1, <2>3, <2>4, EventPipes
  <2>6. /\ \A x \in Request : promise'[x] = "acquired" => promise[x] = "acquired"
        /\ UNCHANGED waitTimer
    BY <1>3, <1>9 DEF WatchFired, Reject
  <2> QED
    BY <1>2, <2>5, <2>6, OrderFrame DEF RolesNumbered, Numbered
<1>10. CASE WaitUnlocked(r)
  <2>1. Arrived(r, "delete", "wait") /\ Consume(r) /\ outbox' = outbox
    BY <1>10 DEF WaitUnlocked
  <2>2. Request_("children", r, {}, "lock") \in Operation
    BY RequestTypes DEF Op, Caller
  <2>3. AllPipesOK'
    BY <1>2, <1>3, <2>1, <2>2, CallbackPipes DEF Op
  <2>4. /\ \A x \in Request : promise'[x] = "acquired" => promise[x] = "acquired"
        /\ UNCHANGED waitTimer
    BY <1>3, <1>10 DEF WaitUnlocked, Reject
  <2> QED
    BY <1>2, <2>3, <2>4, OrderFrame DEF RolesNumbered, Numbered
<1> QED
  BY <1>5, <1>6, <1>7, <1>8, <1>9, <1>10 DEF LockCallback

\* The parts of IndInv survive a step of the manager that changes neither the
\* store nor the lock.
LEMMA ManagerFrame ==
  ASSUME IndInv, AllPipesOK', UNCHANGED <<storeVars, lockVars, cmd>>,
         \A r \in control' : r \in control \/ Numbered(r)
  PROVE  AllPipesOK' /\ RolesNumbered' /\ NumbersInOrder' /\ GrantedInOrder'
<1>1. UNCHANGED <<seq, nextSeq, znodes, watch, promise, waitTimer, cmd>>
  BY DEF storeVars, lockVars
<1>2. RolesNumbered'
  BY <1>1 DEF IndInv, RolesNumbered, Numbered
<1> QED
  BY <1>1, <1>2, OrderFrame

\* The client messages, the timers and the callbacks of the context manager.
LEMMA RequestNextInv ==
  ASSUME IndInv, NEW r \in Request, RequestNext(r)
  PROVE  AllPipesOK' /\ RolesNumbered' /\ NumbersInOrder' /\ GrantedInOrder'
<1> USE DEF IndInv
<1>1. /\ promise \in [Request -> {"none", "pending", "acquired", "rejected"}]
      /\ waitTimer \in [Request -> {"off", "armed", "fired"}]
      /\ cmd \in [Request -> Command \cup {"none"}]
      /\ control \subseteq Request
  BY DEF TypeOK, LockTypeOK
<1>2. ASSUME NEW op \in Op, NEW arg \in SUBSET Request, NEW by \in Caller,
             Numbered(r), ~(op \in {"path", "create"})
      PROVE  /\ Request_(op, r, arg, by) \in Operation
             /\ Sendable(ServerOf[r], Request_(op, r, arg, by))
             /\ ~Fresh(Request_(op, r, arg, by))
  BY <1>2, RequestTypes DEF Sendable, Fresh, NumbersInOrder
<1>3. r \in control \/ waitTimer[r] # "off" => Numbered(r)
  BY DEF RolesNumbered
<1>4. ASSUME NEW c \in Commands, RecvLock(r, c)
      PROVE  AllPipesOK' /\ RolesNumbered' /\ NumbersInOrder' /\ GrantedInOrder'
  <2>1. AllPipesOK'
    BY <1>4, RecvLockPipes, CommandsAssumption
  <2>2. /\ UNCHANGED <<seq, nextSeq, znodes, watch, waitTimer, control>>
        /\ \A x \in Request : cmd[x] # "none" => cmd'[x] = cmd[x]
        /\ \A x \in Request : promise'[x] = "acquired" => promise[x] = "acquired"
    BY <1>1, <1>4 DEF RecvLock, Lock, storeVars, mgrVars
  <2> QED
    BY <2>1, <2>2, OrderFrame DEF RolesNumbered, Numbered
<1>5. CASE RecvSave(r)
  <2> DEFINE q == Request_("set", r, read[r] \cup {r}, "save")
  <2>1. r \in control => q \in Operation /\ Sendable(ServerOf[r], q) /\ ~Fresh(q)
    BY <1>2, <1>3 DEF Op, Caller, TypeOK
  <2>2. outbox' = outbox \/ (r \in control /\ Send(ServerOf[r], q))
    BY <1>5 DEF RecvSave, SaveRefused, SendFor
  <2>3. UNCHANGED <<storeVars, lockVars, cmd, inbox>> /\ control' \subseteq control
    BY <1>5 DEF RecvSave
  <2>4. AllPipesOK'
    BY <2>1, <2>2, <2>3, SendPipes, QuietPipes DEF storeVars
  <2> QED
    BY <2>3, <2>4, ManagerFrame
<1>6. CASE RecvUnlock(r)
  <2> DEFINE q == Request_("delete", r, {}, "unlock")
  <2>1. r \in control => q \in Operation /\ Sendable(ServerOf[r], q) /\ ~Fresh(q)
    BY <1>2, <1>3 DEF Op, Caller
  <2>2. outbox' = outbox \/ (r \in control /\ Send(ServerOf[r], q))
    BY <1>6 DEF RecvUnlock, SendFor
  <2>3. UNCHANGED <<storeVars, lockVars, cmd, inbox>> /\ control' \subseteq control
    BY <1>6 DEF RecvUnlock
  <2>4. AllPipesOK'
    BY <2>1, <2>2, <2>3, SendPipes, QuietPipes DEF storeVars
  <2> QED
    BY <2>3, <2>4, ManagerFrame
<1>7. CASE WaitTimeout(r)
  <2> DEFINE q == Request_("delete", r, {}, "wait")
  <2>1. waitTimer[r] = "armed" /\ waitTimer' = [waitTimer EXCEPT ![r] = "fired"]
    BY <1>7 DEF WaitTimeout, LockWaitTimeout
  <2>2. q \in Operation /\ Sendable(ServerOf[r], q) /\ ~Fresh(q)
    BY <1>2, <1>3, <2>1 DEF Op, Caller
  <2>3. /\ Send(ServerOf[r], q)
        /\ UNCHANGED <<seq, nextSeq, znodes, watch, promise, inbox, cmd, control>>
    BY <1>7 DEF WaitTimeout, LockWaitTimeout, SendFor, storeVars, mgrVars
  <2>4. AllPipesOK'
    BY <2>2, <2>3, SendPipes
  <2>5. RolesNumbered'
    BY <1>1, <2>1, <2>3 DEF RolesNumbered, Numbered
  <2> QED
    BY <2>3, <2>4, <2>5, OrderFrame
<1>8. CASE HoldTimeout(r)
  <2> DEFINE q == Request_("delete", r, {}, "hold")
  <2>1. q \in Operation /\ Sendable(ServerOf[r], q) /\ ~Fresh(q)
    BY <1>2, <1>3, <1>8 DEF Op, Caller, HoldTimeout
  <2>2. /\ Send(ServerOf[r], q)
        /\ UNCHANGED <<storeVars, lockVars, cmd, inbox>> /\ control' \subseteq control
    BY <1>8 DEF HoldTimeout, SendFor
  <2>3. AllPipesOK'
    BY <2>1, <2>2, SendPipes DEF storeVars
  <2> QED
    BY <2>2, <2>3, ManagerFrame
<1>9. CASE LockCallback(r)
  BY <1>9, LockCallbackInv
<1>10. CASE GetReplied(r)
  <2> DEFINE q == Request_("delete", r, {}, "unlock")
  <2>1. Arrived(r, "get", "lock") /\ Consume(r)
    BY <1>10 DEF GetReplied
  <2>2. Numbered(r)
    BY <2>1, ArrivedFacts DEF Op
  <2>3. q \in Operation /\ Sendable(ServerOf[r], q) /\ ~Fresh(q)
    BY <1>2, <2>2 DEF Op, Caller
  <2>4. outbox' = outbox \/ Send(ServerOf[r], q)
    BY <1>10 DEF GetReplied, SendFor
  <2>5. /\ UNCHANGED <<storeVars, lockVars, cmd>>
        /\ \A x \in control' : x \in control \/ x = r
    BY <1>10 DEF GetReplied
  <2>6. AllPipesOK'
    BY <2>1, <2>3, <2>4, <2>5, CallbackPipes DEF Op, storeVars
  <2> QED
    BY <2>2, <2>5, <2>6, ManagerFrame
<1>11. CASE SetReplied(r)
  <2> DEFINE q == Request_("delete", r, {}, "save")
  <2>1. Arrived(r, "set", "save") /\ Consume(r)
    BY <1>11 DEF SetReplied
  <2>2. Numbered(r)
    BY <2>1, ArrivedFacts DEF Op
  <2>3. q \in Operation /\ Sendable(ServerOf[r], q) /\ ~Fresh(q)
    BY <1>2, <2>2 DEF Op, Caller
  <2>4. outbox' = outbox \/ Send(ServerOf[r], q)
    BY <1>11 DEF SetReplied, SendFor
  <2>5. UNCHANGED <<storeVars, lockVars, cmd, control>>
    BY <1>11 DEF SetReplied
  <2>6. AllPipesOK'
    BY <2>1, <2>3, <2>4, <2>5, CallbackPipes DEF Op, storeVars
  <2> QED
    BY <2>5, <2>6, ManagerFrame
<1>12. CASE SaveUnlocked(r) \/ Unlocked(r) \/ HoldUnlocked(r)
  <2>1. PICK by : Arrived(r, "delete", by) /\ Consume(r) /\ outbox' = outbox
    BY <1>12 DEF SaveUnlocked, Unlocked, HoldUnlocked
  <2>2. UNCHANGED <<storeVars, lockVars, cmd, control>>
    BY <1>12 DEF SaveUnlocked, Unlocked, HoldUnlocked, mgrVars
  <2>3. Request_("delete", r, {}, "save") \in Operation
    BY RequestTypes DEF Op, Caller
  <2>4. AllPipesOK'
    BY <2>1, <2>2, <2>3, CallbackPipes DEF Op, storeVars
  <2> QED
    BY <2>2, <2>4, ManagerFrame
<1> QED
  BY <1>4, <1>5, <1>6, <1>7, <1>8, <1>9, <1>10, <1>11, <1>12
     DEF RequestNext, ReplyCallback

\* The service answers an operation.
LEMMA ServeInv ==
  ASSUME IndInv, NEW s \in Server, ZkServe(s)
  PROVE  AllPipesOK' /\ RolesNumbered' /\ NumbersInOrder' /\ GrantedInOrder'
<1> USE DEF IndInv
<1>1. UNCHANGED <<cmd, promise, waitTimer, control>> /\ Serve(s)
  BY DEF ZkServe, lockVars, mgrVars
<1>2. outbox[s] # << >> /\ outbox' = [outbox EXCEPT ![s] = Tail(@)]
  BY <1>1 DEF Serve, Serving, ServePath, ServeCreate, ServeChildren, ServeExists,
              ServeGet, ServeSet, ServeDelete
<1>3. PICK q \in Operation : q = Head(outbox[s])
  BY <1>2, TailFacts DEF TypeOK, ZkTypeOK
<1>4. q.r \in Request /\ Sendable(s, q)
  <2>1. outbox[s] \in Seq(Operation) /\ inbox[s] \in Seq(Message)
        /\ PipesOK(s, inbox[s], outbox[s])
    BY DEF AllPipesOK, TypeOK, ZkTypeOK, Message
  <2> QED
    BY <1>2, <1>3, <2>1, PipesTailOut DEF Operation
<1>5. /\ inbox \in [Server -> Seq(Message)]
      /\ \A t \in Server : PipesOK(t, inbox[t], outbox[t])
      /\ znodes \subseteq Request /\ data \subseteq Request
  BY DEF AllPipesOK, TypeOK, ZkTypeOK, Message
<1>6. CASE ServeCreate(s)
  <2>1. AllPipesOK'
    BY <1>1, <1>6, CreatePipes
  <2>2. q.op = "create" /\ ~Numbered(q.r) /\ cmd[q.r] # "none"
    BY <1>3, <1>4, <1>6 DEF ServeCreate, Serving, Sendable, Fresh
  <2>3. /\ znodes' = znodes \cup {q.r}
        /\ seq' = [seq EXCEPT ![q.r] = nextSeq]
        /\ nextSeq' = nextSeq + 1
        /\ UNCHANGED watch
    BY <1>3, <1>6 DEF ServeCreate
  <2>4. /\ seq'[q.r] = nextSeq /\ nextSeq \in Nat
        /\ \A x \in Request : x # q.r => seq'[x] = seq[x]
        /\ \A x \in Request : Numbered(x) =>
             seq'[x] = seq[x] /\ seq[x] \in Nat /\ seq[x] < nextSeq /\ x # q.r
    BY <1>4, <2>2, <2>3 DEF TypeOK, ZkTypeOK, Numbered, NumbersInOrder
  <2>5. \A x \in Request : Numbered(x)' => Numbered(x) \/ x = q.r
    BY <2>4 DEF Numbered
  <2>6. NumbersInOrder'
    <3>1. \A x \in Request : Numbered(x)' => seq'[x] < nextSeq' /\ cmd'[x] # "none"
      BY <1>1, <2>2, <2>3, <2>4, <2>5 DEF NumbersInOrder
    <3>2. \A a, b \in Request : Numbered(a)' /\ seq'[a] = seq'[b] => a = b
      <4> SUFFICES ASSUME NEW a \in Request, NEW b \in Request,
                          Numbered(a)', seq'[a] = seq'[b]
                   PROVE  a = b
        OBVIOUS
      <4>1. Numbered(b)'
        BY DEF Numbered
      <4> QED
        BY <2>4, <2>5, <4>1 DEF NumbersInOrder
    <3>3. \A z \in znodes' : Numbered(z)'
      BY <1>5, <2>3, <2>4 DEF NumbersInOrder, Numbered, NoSeq
    <3> QED
      BY <3>1, <3>2, <3>3 DEF NumbersInOrder
  <2>7. RolesNumbered'
    BY <1>1, <2>3, <2>4 DEF RolesNumbered, Numbered
  <2>8. GrantedInOrder'
    <3> SUFFICES ASSUME NEW a \in Request, NEW b \in Request,
                        Holds(b)', a \in znodes', Conflicts(a, b)', 0 < seq'[a]
                 PROVE  seq'[b] < seq'[a]
      BY DEF GrantedInOrder
    <3>1. Numbered(b) /\ b # q.r /\ seq'[b] = seq[b] /\ seq[b] < nextSeq
      BY <1>1, <2>2, <2>4 DEF Holds, RolesNumbered
    <3>2. CASE a = q.r
      BY <2>4, <3>1, <3>2
    <3>3. CASE a # q.r
      <4>1. /\ Holds(b) /\ a \in znodes /\ Conflicts(a, b) /\ seq'[a] = seq[a]
        BY <1>1, <2>3, <2>4, <3>1, <3>3 DEF Holds, Conflicts, IsWriter
      <4> QED
        BY <3>1, <4>1 DEF GrantedInOrder
    <3> QED
      BY <3>2, <3>3
  <2> QED
    BY <2>1, <2>6, <2>7, <2>8
<1>7. CASE ServePath(s) \/ ServeChildren(s) \/ ServeExists(s) \/ ServeGet(s) \/ ServeSet(s)
  <2>1. /\ UNCHANGED <<seq, nextSeq, znodes>>
        /\ q.op \notin {"create", "delete"}
    BY <1>3, <1>7 DEF ServePath, ServeChildren, ServeExists, ServeGet, ServeSet,
                      Serving, storeVars
  <2>2. PICK rc \in {"ok", "nonode", "fail"}, val \in SUBSET Request :
          Respond(s, rc, val) /\ (q.op = "children" => val = znodes)
    BY <1>3, <1>5, <1>7 DEF ServePath, ServeChildren, ServeExists, ServeGet, ServeSet,
                            Serving
  <2>3. AllPipesOK'
    BY <1>1, <1>2, <1>3, <1>5, <2>1, <2>2, ServePipes DEF Respond
  <2>4. \A x \in Request : watch'[x] # {} => watch[x] # {} \/ Numbered(x)
    <3>1. CASE UNCHANGED watch
      BY <3>1
    <3>2. CASE ServeExists(s) /\ watch' = [watch EXCEPT ![q.r] = q.arg]
      <4>1. Numbered(q.r)
        BY <1>3, <1>4, <3>2 DEF ServeExists, Serving, Sendable, Fresh
      <4> QED
        BY <3>2, <4>1 DEF TypeOK, ZkTypeOK
    <3> QED
      BY <1>3, <1>7, <3>1, <3>2 DEF ServePath, ServeChildren, ServeExists, ServeGet,
                                    ServeSet, storeVars
  <2>5. RolesNumbered'
    BY <1>1, <2>1, <2>4 DEF RolesNumbered, Numbered
  <2> QED
    BY <1>1, <2>1, <2>3, <2>5, OrderFrame
<1>8. CASE ServeDelete(s)
  <2>1. /\ UNCHANGED <<seq, nextSeq>> /\ znodes' \subseteq znodes
        /\ q.op = "delete"
        /\ UNCHANGED watch \/ FireWatches({q.r})
    BY <1>3, <1>8 DEF ServeDelete, Serving
  <2>2. AllPipesOK'
    <3>1. PICK val \in SUBSET Request : val = {}
      OBVIOUS
    <3>2. PICK rc \in {"ok", "nonode"} :
            rc = IF q.r \in znodes THEN "ok" ELSE "nonode"
      OBVIOUS
    <3>3. PICK mid \in [Server -> Seq(Message)] :
            mid = IF q.r \in znodes THEN Notified({q.r}) ELSE inbox
      BY <1>5, NotifiedTypes DEF TypeOK
    <3>4. \A t \in Server : PipesOK(t, mid[t], outbox[t])
      BY <1>5, <3>3, NotifiedPipes
    <3>5. inbox' = [mid EXCEPT ![s] = Append(@, Answer(Head(outbox[s]), rc, val))]
      BY <1>3, <1>8, <3>1, <3>2, <3>3 DEF ServeDelete, Respond
    <3>6. /\ Head(outbox[s]).op # "create"
          /\ Head(outbox[s]).op = "children" => val = znodes
          /\ UNCHANGED <<seq, cmd>>
      BY <1>1, <1>3, <2>1
    <3> QED
      BY <1>2, <2>1, <3>2, <3>4, <3>5, <3>6, ServePipes
  <2>3. RolesNumbered'
    BY <1>1, <2>1 DEF RolesNumbered, Numbered, FireWatches
  <2> QED
    BY <1>1, <2>1, <2>2, <2>3, OrderFrame
<1> QED
  BY <1>1, <1>6, <1>7, <1>8 DEF Serve

\* Disconnects, crashes and the end of sessions.
LEMMA ServerNextInv ==
  ASSUME IndInv, NEW s \in Server, ServerNext(s)
  PROVE  AllPipesOK' /\ RolesNumbered' /\ NumbersInOrder' /\ GrantedInOrder'
<1> USE DEF IndInv
<1>1. CASE ZkServe(s)
  BY <1>1, ServeInv
<1>2. CASE ZkDisconnect(s)
  <2>1. /\ UNCHANGED <<seq, nextSeq, znodes, cmd, promise, waitTimer, control>>
        /\ \A x \in Request : watch'[x] # {} => watch[x] # {}
        /\ Disconnect(s)
    BY <1>2 DEF ZkDisconnect, Disconnect, lockVars, mgrVars
  <2>2. AllPipesOK'
    BY <2>1, DisconnectPipes
  <2>3. RolesNumbered'
    BY <2>1 DEF RolesNumbered, Numbered
  <2> QED
    BY <2>1, <2>2, <2>3, OrderFrame
<1>3. CASE Crash(s)
  <2>1. /\ UNCHANGED <<seq, nextSeq, znodes, cmd, promise>>
        /\ \A x \in Request : watch'[x] # {} => watch[x] # {}
        /\ \A x \in Request : waitTimer'[x] # "off" => waitTimer[x] # "off"
        /\ control' \subseteq control
        /\ Abandon(s)
    BY <1>3 DEF Crash, Abandon
  <2>2. AllPipesOK'
    BY <2>1, AbandonPipes
  <2>3. RolesNumbered'
    BY <2>1 DEF RolesNumbered, Numbered
  <2> QED
    BY <2>1, <2>2, <2>3, OrderFrame
<1>4. CASE SessionExpires(s)
  <2>1. PICK Z : RemoveEphemerals(Z)
    BY <1>4 DEF SessionExpires
  <2>2. /\ UNCHANGED <<seq, nextSeq, cmd, promise, waitTimer, control>>
        /\ znodes' \subseteq znodes
        /\ \A x \in Request : watch'[x] # {} => watch[x] # {}
    BY <1>4, <2>1 DEF SessionExpires, RemoveEphemerals, FireWatches, lockVars, mgrVars
  <2>3. AllPipesOK'
    BY <2>1, <2>2, RemovePipes
  <2>4. RolesNumbered'
    BY <2>2 DEF RolesNumbered, Numbered
  <2> QED
    BY <2>2, <2>3, <2>4, OrderFrame
<1> QED
  BY <1>1, <1>2, <1>3, <1>4 DEF ServerNext

\* IndInv is inductive.
LEMMA IndInvStep ==
  ASSUME IndInv, [Next]_vars
  PROVE  IndInv'
<1>1. TypeOK'
  BY NextTypes DEF IndInv
<1>2. CASE UNCHANGED vars
  <2>1. /\ UNCHANGED <<znodes, seq, nextSeq, watch, inbox, outbox, cmd, promise,
                       waitTimer, control>>
    BY <1>2 DEF vars, zkVars, storeVars, lockVars, mgrVars
  <2>2. AllPipesOK'
    BY <2>1, QuietPipes DEF IndInv
  <2>3. RolesNumbered'
    BY <2>1 DEF IndInv, RolesNumbered, Numbered
  <2> QED
    BY <1>1, <2>1, <2>2, <2>3, OrderFrame DEF IndInv
<1>3. CASE Next
  BY <1>1, <1>3, RequestNextInv, ServerNextInv DEF Next, IndInv
<1> QED
  BY <1>2, <1>3

\* The inductive invariant holds in every reachable state.
THEOREM Inductive == Spec => []IndInv
<1>1. Init => IndInv
  <2> SUFFICES ASSUME Init
               PROVE  IndInv
    OBVIOUS
  <2>1. TypeOK
    BY FirstSeqAssumption
       DEF Init, ZkInit, LockInit, TypeOK, ZkTypeOK, LockTypeOK, NoSeq
  <2>2. NumbersInOrder /\ RolesNumbered /\ GrantedInOrder
    BY DEF Init, ZkInit, LockInit, NumbersInOrder, RolesNumbered, GrantedInOrder,
           Numbered, Holds
  <2>3. AllPipesOK
    BY DEF Init, ZkInit, AllPipesOK, PipesOK
  <2> QED
    BY <2>1, <2>2, <2>3 DEF IndInv
<1>2. IndInv /\ [Next]_vars => IndInv'
  BY IndInvStep
<1> QED
  BY <1>1, <1>2, PTL DEF Spec

\* No request holds the lock while a conflicting request that came first, and
\* does not have znode number 0, is still in line: the order of the znodes is
\* respected whatever disconnects, crashes and timers do.
THEOREM InOrder == Spec => []GrantedInOrder
<1>1. IndInv => GrantedInOrder
  BY DEF IndInv
<1> QED
  BY <1>1, Inductive, PTL

\* Mutual exclusion of the read/write lock, for any number of clients and of
\* context managers, as long as neither holder has znode number 0.
THEOREM MutualExclusion == Spec => []LockExclusion
<1>1. IndInv => LockExclusion
  <2> SUFFICES ASSUME IndInv, NEW a \in Request, NEW b \in Request,
                      Holds(a), Holds(b), Conflicts(a, b), seq[a] # 0, seq[b] # 0
               PROVE  FALSE
    BY DEF LockExclusion
  <2>1. seq[a] \in Nat /\ seq[b] \in Nat
    BY DEF IndInv, NumbersInOrder, Holds, Numbered, TypeOK, ZkTypeOK
  <2>2. Conflicts(b, a) /\ a \in znodes /\ b \in znodes
    BY DEF Conflicts, Holds
  <2>3. seq[b] < seq[a] /\ seq[a] < seq[b]
    BY <2>1, <2>2 DEF IndInv, GrantedInOrder
  <2> QED
    BY <2>1, <2>3
<1> QED
  BY <1>1, Inductive, PTL

-----------------------------------------------------------------------------
(* The life of a request: its own operations, one after the other, say how *)
(* far it has come.                                                        *)

\* The operations of which a request has one at a time, from its path to the
\* deletion that answers its release: all but those of the queue for the lock,
\* and the deletion of the wait timer.
Own(m) ==
  m.op \in {"path", "create", "get", "set"} \/ (m.op = "delete" /\ m.by # "wait")

\* Those a request that was given the lock has.
Holding(m) == m.op \in {"get", "set"} \/ (m.op = "delete" /\ m.by # "wait")

\* r has come to the queue for the lock, or its promise is settled.
Waited(r) == waitTimer[r] # "off" \/ promise[r] # "pending"

\* The znode of r stands, or r is one of those that may win a race with their
\* wait timer.
InPlace(r) == r \in znodes \/ waitTimer[r] = "fired"

\* The messages of a pipe, whatever their order: of the inbox and the outbox of
\* session s.
Msgs(q) == {q[i] : i \in 1..Len(q)}
In(s)  == Msgs(inbox[s])
Out(s) == Msgs(outbox[s])

\* No two operations that requests have one of are under way for the same one.
Once(in, out) ==
  /\ \A i, j \in 1..Len(in) : Own(in[i]) /\ Own(in[j]) /\ in[i].r = in[j].r => i = j
  /\ \A i \in 1..Len(in), j \in 1..Len(out) : Own(in[i]) /\ Own(out[j]) => in[i].r # out[j].r
  /\ \A i, j \in 1..Len(out) : Own(out[i]) /\ Own(out[j]) /\ out[i].r = out[j].r => i = j

\* So it is in every session.
AllOnce == \A s \in Server : Once(inbox[s], outbox[s])

\* Request r has no such operation in M, or anywhere.
Free(r, M) == \A m \in M : Own(m) => m.r # r

\* What is under way in session s.
All(s) == In(s) \cup Out(s)

Alone(r) == \A s \in Server : Free(r, All(s))

\* What is known of a request from an operation of it that is under way, or its
\* reply: the operations of the queue come after the path, those of the context
\* after the lock was given.
MessageOK(m) ==
  /\ m.r \notin lost
  /\ m.op \in {"path", "create"} => waitTimer[m.r] = "off" /\ promise[m.r] = "pending"
  /\ m.op \in {"children", "exists"} => Waited(m.r)
  /\ Holding(m) => promise[m.r] = "acquired" /\ m.r \notin control
  /\ m.op = "delete" /\ m.by = "wait" => waitTimer[m.r] = "fired"
  /\ m.op \in {"get", "set"} => InPlace(m.r)

\* An event of the watches speaks of requests of that session that wait.
EventOK(s, m) == \A r \in m.val : ServerOf[r] = s /\ r \notin lost /\ Waited(r)

\* All that is under way is as it should be.
MessagesOK ==
  \A s \in Server :
    /\ \A m \in All(s) : m.op # "event" => MessageOK(m)
    /\ \A m \in In(s) : m.op = "event" => EventOK(s, m)

\* What is known of a request from what its context manager remembers of it.
RequestOK(r) ==
  /\ watch[r] # {} => Waited(r) /\ r \notin lost
  /\ r \in control => promise[r] = "acquired" /\ InPlace(r) /\ r \notin lost
  /\ promise[r] = "pending" /\ Numbered(r) /\ r \notin lost => InPlace(r)
  /\ r \in lost => cmd[r] # "none" /\ waitTimer[r] # "armed"
  /\ cmd[r] = "none" => promise[r] = "none" /\ waitTimer[r] = "off"

\* So are all requests.
RequestsOK == \A r \in Request : RequestOK(r)

\* The life of a request: the inductive invariant of the first part.
LifeInv == AllOnce /\ MessagesOK /\ RequestsOK

-----------------------------------------------------------------------------
(* Pipes as sets of messages. *)

LEMMA MsgsAppend ==
  ASSUME NEW S, NEW q \in Seq(S), NEW e \in S
  PROVE  Msgs(Append(q, e)) = Msgs(q) \cup {e}
<1>1. 1..Len(Append(q, e)) = 1..Len(q) \cup {Len(q) + 1}
  <2>1. Len(q) \in Nat /\ Len(Append(q, e)) = Len(q) + 1
    BY AppendFacts
  <2> QED
    BY ONLY <2>1
<1>2. Append(q, e)[Len(q) + 1] = e /\ \A i \in 1..Len(q) : Append(q, e)[i] = q[i]
  BY AppendFacts
<1> QED
  BY ONLY <1>1, <1>2 DEF Msgs

\* A pipe is its head and what is left without it.
LEMMA MsgsTail ==
  ASSUME NEW S, NEW q \in Seq(S), q # << >>
  PROVE  Head(q) \in Msgs(q) /\ Msgs(q) = Msgs(Tail(q)) \cup {Head(q)}
<1>1. /\ Len(Tail(q)) = Len(q) - 1 /\ Len(q) \in Nat /\ 1 \in 1..Len(q)
      /\ \A i \in 1..Len(Tail(q)) : i + 1 \in 1..Len(q) /\ Tail(q)[i] = q[i + 1]
      /\ Head(q) = q[1]
  BY TailFacts
<1>2. \A i \in 1..Len(q) : i = 1 \/ (i - 1 \in 1..Len(Tail(q)) /\ q[i] = Tail(q)[i - 1])
  BY <1>1
<1>3. Head(q) \in Msgs(q)
  BY <1>1 DEF Msgs
<1>4. Msgs(Tail(q)) \subseteq Msgs(q)
  <2> SUFFICES ASSUME NEW i \in 1..Len(Tail(q))
               PROVE  Tail(q)[i] \in Msgs(q)
    BY DEF Msgs
  <2> QED
    BY <1>1 DEF Msgs
<1>5. Msgs(q) \subseteq Msgs(Tail(q)) \cup {Head(q)}
  <2> SUFFICES ASSUME NEW i \in 1..Len(q)
               PROVE  q[i] \in Msgs(Tail(q)) \cup {Head(q)}
    BY DEF Msgs
  <2>1. CASE i = 1
    BY <2>1, <1>1
  <2>2. CASE i - 1 \in 1..Len(Tail(q)) /\ q[i] = Tail(q)[i - 1]
    BY <2>2 DEF Msgs
  <2> QED
    BY <2>1, <2>2, <1>2
<1> QED
  BY <1>3, <1>4, <1>5

\* The head of a pipe is replaced.
LEMMA MsgsReplaceHead ==
  ASSUME NEW S, NEW q \in Seq(S), q # << >>, NEW e \in S
  PROVE  Msgs(<<e>> \o Tail(q)) = Msgs(Tail(q)) \cup {e}
<1> DEFINE new == <<e>> \o Tail(q)
<1>1. /\ Len(new) = Len(q) /\ new[1] = e /\ \A i \in 1..Len(q) : i # 1 => new[i] = q[i]
  BY ReplaceHeadFacts
<1>2. /\ Len(Tail(q)) = Len(q) - 1 /\ Len(q) \in Nat /\ 1 \in 1..Len(q)
      /\ \A i \in 1..Len(Tail(q)) : i + 1 \in 1..Len(q) /\ Tail(q)[i] = q[i + 1]
  BY TailFacts
<1> HIDE DEF new
<1>3. \A i \in 1..Len(new) : i = 1 \/ (i - 1 \in 1..Len(Tail(q)) /\ new[i] = Tail(q)[i - 1])
  BY <1>1, <1>2
<1>4. \A i \in 1..Len(Tail(q)) : i + 1 \in 1..Len(new) /\ Tail(q)[i] = new[i + 1]
  BY <1>1, <1>2
<1>5. Msgs(new) \subseteq Msgs(Tail(q)) \cup {e}
  <2> SUFFICES ASSUME NEW i \in 1..Len(new)
               PROVE  new[i] \in Msgs(Tail(q)) \cup {e}
    BY DEF Msgs
  <2>1. CASE i = 1
    BY <2>1, <1>1
  <2>2. CASE i - 1 \in 1..Len(Tail(q)) /\ new[i] = Tail(q)[i - 1]
    BY <2>2 DEF Msgs
  <2> QED
    BY <2>1, <2>2, <1>3
<1>6. 1 \in 1..Len(new)
  BY <1>1, <1>2
<1>7. Msgs(Tail(q)) \cup {e} \subseteq Msgs(new)
  <2>1. \A i \in 1..Len(Tail(q)) : Tail(q)[i] \in Msgs(new)
    BY <1>4 DEF Msgs
  <2>2. e \in Msgs(new)
    BY <1>1, <1>6 DEF Msgs
  <2> QED
    BY <2>1, <2>2 DEF Msgs
<1> QED
  BY <1>5, <1>7 DEF new

\* An empty pipe has no messages.
LEMMA MsgsEmpty == Msgs(<< >>) = {}
BY DEF Msgs

\* The messages of a session are messages, its operations are operations.
LEMMA MsgsTyped ==
  ASSUME TypeOK, NEW s \in Server
  PROVE  /\ inbox[s] \in Seq(Message) /\ outbox[s] \in Seq(Operation)
         /\ In(s) \subseteq Message /\ Out(s) \subseteq Operation
<1>1. inbox[s] \in Seq(Message) /\ outbox[s] \in Seq(Operation)
  BY DEF TypeOK, ZkTypeOK, Message
<1> QED
  BY <1>1 DEF In, Out, Msgs

-----------------------------------------------------------------------------
(* What each way of changing a pipe does to Once. *)

LEMMA OnceTailIn ==
  ASSUME NEW in \in Seq(Message), NEW out \in Seq(Operation), Once(in, out), in # << >>
  PROVE  /\ Once(Tail(in), out)
         /\ Own(Head(in)) => Free(Head(in).r, Msgs(Tail(in)) \cup Msgs(out))
<1>1. /\ Len(Tail(in)) = Len(in) - 1 /\ Len(in) \in Nat /\ 1 \in 1..Len(in)
      /\ \A i \in 1..Len(Tail(in)) : i + 1 \in 1..Len(in) /\ Tail(in)[i] = in[i + 1]
      /\ Head(in) = in[1]
  BY TailFacts
<1>2. \A i, j \in 1..Len(Tail(in)) : i \in Int /\ i + 1 # 1 /\ (i + 1 = j + 1 => i = j)
  BY <1>1
<1>3. Once(Tail(in), out)
  BY <1>1, <1>2 DEF Once
<1>4. ASSUME Own(Head(in)) PROVE Free(Head(in).r, Msgs(Tail(in)) \cup Msgs(out))
  BY <1>1, <1>2, <1>4 DEF Once, Free, Msgs
<1> QED
  BY <1>3, <1>4

\* Without its head the outbox leaves the request of that operation free.
LEMMA OnceTailOut ==
  ASSUME NEW in \in Seq(Message), NEW out \in Seq(Operation), Once(in, out), out # << >>
  PROVE  /\ Once(in, Tail(out))
         /\ Own(Head(out)) => Free(Head(out).r, Msgs(in) \cup Msgs(Tail(out)))
<1>1. /\ Len(Tail(out)) = Len(out) - 1 /\ Len(out) \in Nat /\ 1 \in 1..Len(out)
      /\ \A i \in 1..Len(Tail(out)) : i + 1 \in 1..Len(out) /\ Tail(out)[i] = out[i + 1]
      /\ Head(out) = out[1]
  BY TailFacts
<1>2. \A i, j \in 1..Len(Tail(out)) : i \in Int /\ i + 1 # 1 /\ (i + 1 = j + 1 => i = j)
  BY <1>1
<1>3. Once(in, Tail(out))
  BY <1>1, <1>2 DEF Once
<1>4. ASSUME Own(Head(out)) PROVE Free(Head(out).r, Msgs(in) \cup Msgs(Tail(out)))
  BY <1>1, <1>2, <1>4 DEF Once, Free, Msgs
<1> QED
  BY <1>3, <1>4

\* A reply for a request that is free.
LEMMA OnceAppendIn ==
  ASSUME NEW in \in Seq(Message), NEW out \in Seq(Operation), Once(in, out), NEW m \in Message,
         Own(m) => Free(m.r, Msgs(in) \cup Msgs(out))
  PROVE  Once(Append(in, m), out)
<1> DEFINE new == Append(in, m)
<1>1. /\ Len(new) = Len(in) + 1 /\ Len(in) \in Nat /\ new[Len(in) + 1] = m
      /\ \A i \in 1..Len(in) : new[i] = in[i]
  BY AppendFacts
<1>2. \A i \in 1..Len(new) : i \in 1..Len(in) \/ i = Len(in) + 1
  BY <1>1
<1> HIDE DEF new
<1>3. Own(m) => /\ \A i \in 1..Len(in) : Own(in[i]) => in[i].r # m.r
                /\ \A j \in 1..Len(out) : Own(out[j]) => out[j].r # m.r
  BY DEF Free, Msgs
<1>4. ASSUME NEW i \in 1..Len(new), NEW j \in 1..Len(new),
             Own(new[i]), Own(new[j]), new[i].r = new[j].r
      PROVE  i = j
  BY <1>1, <1>2, <1>3, <1>4 DEF Once
<1>5. \A i \in 1..Len(new), j \in 1..Len(out) : Own(new[i]) /\ Own(out[j]) => new[i].r # out[j].r
  BY <1>1, <1>2, <1>3 DEF Once
<1>6. Once(new, out)
  BY <1>4, <1>5 DEF Once
<1> QED
  BY <1>6 DEF new

\* An operation for a request that is free.
LEMMA OnceAppendOut ==
  ASSUME NEW in \in Seq(Message), NEW out \in Seq(Operation), Once(in, out), NEW q \in Operation,
         Own(q) => Free(q.r, Msgs(in) \cup Msgs(out))
  PROVE  Once(in, Append(out, q))
<1> DEFINE new == Append(out, q)
<1>1. /\ Len(new) = Len(out) + 1 /\ Len(out) \in Nat /\ new[Len(out) + 1] = q
      /\ \A i \in 1..Len(out) : new[i] = out[i]
  BY AppendFacts
<1>2. \A i \in 1..Len(new) : i \in 1..Len(out) \/ i = Len(out) + 1
  BY <1>1
<1> HIDE DEF new
<1>3. Own(q) => /\ \A i \in 1..Len(in) : Own(in[i]) => in[i].r # q.r
                /\ \A j \in 1..Len(out) : Own(out[j]) => out[j].r # q.r
  BY DEF Free, Msgs
<1>4. ASSUME NEW i \in 1..Len(new), NEW j \in 1..Len(new),
             Own(new[i]), Own(new[j]), new[i].r = new[j].r
      PROVE  i = j
  BY <1>1, <1>2, <1>3, <1>4 DEF Once
<1>5. \A i \in 1..Len(in), j \in 1..Len(new) : Own(in[i]) /\ Own(new[j]) => in[i].r # new[j].r
  BY <1>1, <1>2, <1>3 DEF Once
<1>6. Once(in, new)
  BY <1>4, <1>5 DEF Once
<1> QED
  BY <1>6 DEF new

\* An event in the place of the head of the inbox, when others wait for it too.
LEMMA OnceReplaceHead ==
  ASSUME NEW in \in Seq(Message), NEW out \in Seq(Operation), Once(in, out), in # << >>,
         NEW e \in Event
  PROVE  Once(<<e>> \o Tail(in), out)
<1> DEFINE new == <<e>> \o Tail(in)
<1>1. /\ Len(new) = Len(in) /\ new[1] = e /\ \A i \in 1..Len(in) : i # 1 => new[i] = in[i]
  BY ReplaceHeadFacts DEF Message
<1>2. ~Own(e)
  BY DEF Own, Event
<1> HIDE DEF new
<1>3. \A i \in 1..Len(new) : Own(new[i]) => i \in 1..Len(in) /\ new[i] = in[i]
  BY <1>1, <1>2
<1>4. Once(new, out)
  BY <1>3 DEF Once
<1> QED
  BY <1>4 DEF new

-----------------------------------------------------------------------------
(* What a callback and a command do to the pipes, as sets.                 *)

\* Where the messages of a request are, and that it has arrived.
LEMMA Homes ==
  ASSUME TypeOK, AllPipesOK, NEW t \in Server, NEW m \in All(t), m.op # "event"
  PROVE  m.r \in Request /\ ServerOf[m.r] = t /\ cmd[m.r] # "none"
<1>1. inbox[t] \in Seq(Message) /\ outbox[t] \in Seq(Operation) /\ PipesOK(t, inbox[t], outbox[t])
  BY MsgsTyped DEF AllPipesOK
<1>2. CASE m \in In(t)
  <2>1. PICK i \in 1..Len(inbox[t]) : m = inbox[t][i]
    BY <1>2 DEF In, Msgs
  <2>2. m \in Message /\ Receivable(t, m)
    BY <1>1, <2>1 DEF PipesOK
  <2> QED
    BY <2>2 DEF Receivable, Message, Reply, Event
<1>3. CASE m \in Out(t)
  <2>1. PICK i \in 1..Len(outbox[t]) : m = outbox[t][i]
    BY <1>3 DEF Out, Msgs
  <2>2. m \in Operation /\ Sendable(t, m)
    BY <1>1, <2>1 DEF PipesOK
  <2> QED
    BY <2>2 DEF Sendable, Operation
<1> QED
  BY <1>2, <1>3 DEF All

\* Who holds an entry has no such operation under way.
LEMMA HolderAlone ==
  ASSUME TypeOK, AllPipesOK, MessagesOK, RequestsOK, NEW r \in control
  PROVE  Alone(r)
<1>1. r \in Request /\ promise[r] = "acquired"
  BY DEF TypeOK, RequestsOK, RequestOK
<1> SUFFICES ASSUME NEW s \in Server, NEW m \in All(s), Own(m), m.r = r
             PROVE  FALSE
  BY DEF Alone, Free
<1>2. m.op # "event" /\ MessageOK(m)
  BY DEF Own, MessagesOK
<1> QED
  BY <1>1, <1>2 DEF MessageOK, Own, Holding

\* A message goes out to the service.
LEMMA SendSets ==
  ASSUME outbox \in [Server -> Seq(Operation)], inbox' \in [Server -> Seq(Message)],
         NEW s \in Server, NEW q \in Operation, Send(s, q),
         \A t \in Server : Once(inbox'[t], outbox[t]),
         Own(q) => Free(q.r, In(s)' \cup Out(s))
  PROVE  /\ AllOnce'
         /\ \A t \in Server : Out(t)' = IF t = s THEN Out(t) \cup {q} ELSE Out(t)
<1>1. outbox' = [outbox EXCEPT ![s] = Append(outbox[s], q)]
  BY DEF Send
<1>2. \A t \in Server : outbox'[t] = IF t = s THEN Append(outbox[t], q) ELSE outbox[t]
  BY <1>1
<1>3. outbox[s] \in Seq(Operation) /\ inbox'[s] \in Seq(Message)
  OBVIOUS
<1>4. Msgs(outbox'[s]) = Msgs(outbox[s]) \cup {q}
  BY <1>2, <1>3, MsgsAppend
<1>5. Once(inbox'[s], outbox'[s])
  BY <1>2, <1>3, OnceAppendOut DEF In, Out
<1>6. AllOnce'
  BY <1>2, <1>5 DEF AllOnce
<1>7. ASSUME NEW t \in Server PROVE Out(t)' = IF t = s THEN Out(t) \cup {q} ELSE Out(t)
  BY <1>2, <1>4 DEF Out
<1> QED
  BY <1>6, <1>7

\* The turn of a request sends the operations Q (one or none).
Emits(r, Q) ==
  \/ Q = {} /\ outbox' = outbox
  \/ \E q \in Operation : Q = {q} /\ q.r = r /\ Send(ServerOf[r], q)

\* The operations under way are those that were, and Q.
Grows(Q) ==
  \A t \in Server : \A m \in All(t)' : m.op # "event" => m \in All(t) \/ m \in Q

\* A turn of r submits operations, for which r has to be free.
LEMMA EmitSets ==
  ASSUME outbox \in [Server -> Seq(Operation)], inbox' \in [Server -> Seq(Message)],
         NEW r \in Request, NEW Q, Emits(r, Q),
         \A t \in Server : Once(inbox'[t], outbox[t]),
         \A q \in Q : Own(q) => Free(r, In(ServerOf[r])' \cup Out(ServerOf[r]))
  PROVE  /\ AllOnce'
         /\ \A t \in Server : Out(t)' = IF t = ServerOf[r] THEN Out(t) \cup Q ELSE Out(t)
<1>1. CASE Q = {} /\ outbox' = outbox
  <2>1. AllOnce'
    BY <1>1 DEF AllOnce
  <2>2. \A t \in Server : Out(t)' = Out(t)
    BY <1>1 DEF Out
  <2> QED
    BY <1>1, <2>1, <2>2
<1>2. CASE \E q \in Operation : Q = {q} /\ q.r = r /\ Send(ServerOf[r], q)
  <2>1. PICK q \in Operation : Q = {q} /\ q.r = r /\ Send(ServerOf[r], q)
    BY <1>2
  <2>2. ServerOf[r] \in Server
    BY ServerOfAssumption
  <2>3. Own(q) => Free(q.r, In(ServerOf[r])' \cup Out(ServerOf[r]))
    BY <2>1
  <2>4. /\ AllOnce'
        /\ \A t \in Server : Out(t)' = IF t = ServerOf[r] THEN Out(t) \cup {q} ELSE Out(t)
    BY <2>1, <2>2, <2>3, SendSets
  <2> QED
    BY <2>1, <2>4
<1> QED
  BY <1>1, <1>2 DEF Emits

\* A command or a timer sends.
LEMMA CommandSets ==
  ASSUME TypeOK, AllOnce, UNCHANGED inbox, NEW r \in Request, NEW Q, Emits(r, Q),
         \A q \in Q : Own(q) => Alone(r)
  PROVE  /\ AllOnce' /\ Grows(Q) /\ \A t \in Server : In(t)' = In(t)
         /\ Q \subseteq Out(ServerOf[r])' /\ \A t \in Server : Out(t) \subseteq Out(t)'
<1>1. /\ outbox \in [Server -> Seq(Operation)] /\ inbox' \in [Server -> Seq(Message)]
      /\ ServerOf[r] \in Server
  BY ServerOfAssumption DEF TypeOK, ZkTypeOK, Message
<1>2. \A t \in Server : Once(inbox'[t], outbox[t])
  BY DEF AllOnce
<1>3. \A t \in Server : In(t)' = In(t)
  BY DEF In
<1>4. Alone(r) => Free(r, In(ServerOf[r])' \cup Out(ServerOf[r]))
  BY <1>1, <1>3 DEF Alone, All
<1>5. /\ AllOnce'
      /\ \A t \in Server : Out(t)' = IF t = ServerOf[r] THEN Out(t) \cup Q ELSE Out(t)
  BY <1>1, <1>2, <1>4, EmitSets
<1>6. Grows(Q)
  BY <1>3, <1>5 DEF Grows, All
<1> QED
  BY <1>1, <1>3, <1>5, <1>6

\* A turn handles the head of the inbox, which leaves its request free.
LEMMA ConsumeSets ==
  ASSUME TypeOK, AllOnce, NEW s \in Server, inbox[s] # << >>,
         inbox' = [inbox EXCEPT ![s] = Tail(@)]
  PROVE  /\ inbox' \in [Server -> Seq(Message)]
         /\ Head(inbox[s]) \in In(s) /\ In(s) = In(s)' \cup {Head(inbox[s])}
         /\ \A t \in Server : t # s => In(t)' = In(t)
         /\ \A t \in Server : Once(inbox'[t], outbox[t])
         /\ Own(Head(inbox[s])) => Free(Head(inbox[s]).r, In(s)' \cup Out(s))
<1>1. inbox \in [Server -> Seq(Message)] /\ inbox[s] \in Seq(Message) /\ outbox[s] \in Seq(Operation)
  BY DEF TypeOK, ZkTypeOK, Message
<1>2. inbox' \in [Server -> Seq(Message)]
  BY <1>1, TailFacts
<1>3. \A t \in Server : inbox'[t] = IF t = s THEN Tail(inbox[s]) ELSE inbox[t]
  BY <1>1
<1>4. Head(inbox[s]) \in Msgs(inbox[s]) /\ Msgs(inbox[s]) = Msgs(Tail(inbox[s])) \cup {Head(inbox[s])}
  BY <1>1, MsgsTail
<1>5. In(s) = In(s)' \cup {Head(inbox[s])} /\ Head(inbox[s]) \in In(s)
  BY <1>3, <1>4 DEF In
<1>6. ASSUME NEW t \in Server, t # s PROVE In(t)' = In(t)
  BY <1>3, <1>6 DEF In
<1>7. /\ Once(Tail(inbox[s]), outbox[s])
      /\ Own(Head(inbox[s])) => Free(Head(inbox[s]).r, Msgs(Tail(inbox[s])) \cup Msgs(outbox[s]))
  BY <1>1, OnceTailIn DEF AllOnce
<1>8. \A t \in Server : Once(inbox'[t], outbox[t])
  BY <1>3, <1>7 DEF AllOnce
<1>9. Own(Head(inbox[s])) => Free(Head(inbox[s]).r, In(s)' \cup Out(s))
  BY <1>3, <1>7 DEF In, Out
<1> QED
  BY <1>2, <1>5, <1>6, <1>8, <1>9

\* A callback takes the reply m off its pipe and sends.
LEMMA CallbackSets ==
  ASSUME TypeOK, AllPipesOK, AllOnce, MessagesOK, NEW r \in Request, NEW op \in Op, NEW by,
         Arrived(r, op, by), Consume(r), NEW m, m = ReplyOf(r), NEW Q, Emits(r, Q),
         \A q \in Q : Own(q) => Own(m) \/ Alone(r)
  PROVE  /\ AllOnce' /\ Grows(Q)
         /\ Q \subseteq Out(ServerOf[r])' /\ \A t \in Server : Out(t) \subseteq Out(t)'
         /\ m.op = op /\ m.r = r /\ m.by = by /\ MessageOK(m) /\ m \in In(ServerOf[r])
         /\ m \in Message /\ cmd[r] # "none" /\ ServerOf[r] \in Server
         /\ \A t \in Server : In(t)' \subseteq In(t) /\ In(t) \subseteq In(t)' \cup {m}
         /\ Own(m) => \A t \in Server : \A x \in All(t)' : Own(x) /\ x.r = r => x \in Q
<1> DEFINE s == ServerOf[r]
<1>1. /\ s \in Server /\ inbox[s] # << >> /\ m = Head(inbox[s]) /\ m.op = op /\ m.r = r /\ m.by = by
      /\ inbox' = [inbox EXCEPT ![s] = Tail(@)] /\ m.op # "event"
  BY ServerOfAssumption DEF Arrived, ReplyOf, Consume, Op
<1> HIDE DEF s
<1>2. /\ inbox' \in [Server -> Seq(Message)]
      /\ m \in In(s) /\ In(s) = In(s)' \cup {m}
      /\ \A t \in Server : t # s => In(t)' = In(t)
      /\ \A t \in Server : Once(inbox'[t], outbox[t])
      /\ Own(m) => Free(m.r, In(s)' \cup Out(s))
  BY <1>1, ConsumeSets
<1>3. \A t \in Server : In(t)' \subseteq In(t) /\ In(t) \subseteq In(t)' \cup {m}
  BY <1>2
<1>4. m \in Message /\ MessageOK(m) /\ cmd[r] # "none"
  <2>1. m \in All(s)
    BY <1>2 DEF All
  <2>2. MessageOK(m)
    BY <1>1, <2>1 DEF MessagesOK
  <2>3. cmd[m.r] # "none"
    BY <1>1, <2>1, Homes
  <2> QED
    BY <1>1, <1>2, <2>2, <2>3, MsgsTyped
<1>5. Alone(r) => Free(r, In(s)' \cup Out(s))
  BY <1>1, <1>2 DEF Alone, Free, All
<1>6. \A q \in Q : Own(q) => Free(r, In(s)' \cup Out(s))
  BY <1>1, <1>2, <1>5
<1>7. /\ AllOnce'
      /\ \A t \in Server : Out(t)' = IF t = s THEN Out(t) \cup Q ELSE Out(t)
  BY <1>2, <1>6, EmitSets DEF TypeOK, ZkTypeOK, s
<1>8. Grows(Q) /\ Q \subseteq Out(s)'
  BY <1>1, <1>3, <1>7 DEF Grows, All
<1>9. ASSUME Own(m), NEW t \in Server, NEW x \in All(t)', Own(x), x.r = r PROVE x \in Q
  <2>1. CASE t = s
    BY <1>1, <1>2, <1>7, <1>9, <2>1 DEF Free, All
  <2>2. CASE t # s
    <3>1. x \in All(t) /\ x.op # "event"
      BY <1>2, <1>7, <1>9, <2>2 DEF All, Own
    <3> QED
      BY <1>9, <2>2, <3>1, Homes DEF s
  <2> QED
    BY <2>1, <2>2
<1> QED
  BY <1>1, <1>2, <1>3, <1>4, <1>7, <1>8, <1>9 DEF s

\* The callback of one watch leaves the others of its event.
LEMMA EventSets ==
  ASSUME TypeOK, AllOnce, NEW r \in Request, EventArrived(r), ConsumeEvent(r),
         NEW Q, Emits(r, Q), \A q \in Q : ~Own(q), NEW m, m = ReplyOf(r)
  PROVE  /\ AllOnce' /\ Grows(Q)
         /\ m \in In(ServerOf[r]) /\ m \in Event /\ r \in m.val
         /\ \A t \in Server : \A x \in In(t)' : x.op = "event" =>
              \E y \in In(t) : y.op = "event" /\ x.val \subseteq y.val /\ x.rc = y.rc
         /\ \A t \in Server : \A y \in In(t) : y.op # "event" => y \in In(t)'
         /\ \A t \in Server : \A y \in In(t)' : y.op # "event" => y \in In(t)
         /\ \A t \in Server : Out(t) \subseteq Out(t)'
<1> DEFINE s == ServerOf[r]
           e == WatchEvent(m.rc, m.val \ {r})
<1>1. /\ s \in Server /\ inbox[s] # << >> /\ m = Head(inbox[s]) /\ m.op = "event" /\ r \in m.val
      /\ inbox' = [inbox EXCEPT ![s] = IF m.val = {r} THEN Tail(@) ELSE <<e>> \o Tail(@)]
  BY ServerOfAssumption DEF EventArrived, ConsumeEvent, ReplyOf
<1> HIDE DEF s
<1>2. /\ inbox \in [Server -> Seq(Message)] /\ inbox[s] \in Seq(Message)
      /\ outbox[s] \in Seq(Operation) /\ outbox \in [Server -> Seq(Operation)]
  BY <1>1 DEF TypeOK, ZkTypeOK, Message
<1>3. /\ m \in Msgs(inbox[s]) /\ Msgs(inbox[s]) = Msgs(Tail(inbox[s])) \cup {m}
  BY <1>1, <1>2, MsgsTail
<1>4. m \in Event
  BY <1>1, <1>3, <1>2, MsgsTyped DEF In, Message, Reply, Event, Op
<1>5. e \in Event /\ e \in Message
  BY <1>4 DEF WatchEvent, Event, Message
<1>6. e.op = "event" /\ e.val = m.val \ {r} /\ e.rc = m.rc
  BY DEF WatchEvent
<1> HIDE DEF e
<1> DEFINE new == IF m.val = {r} THEN Tail(inbox[s]) ELSE <<e>> \o Tail(inbox[s])
<1>7. /\ new \in Seq(Message) /\ Once(new, outbox[s])
      /\ Msgs(new) \subseteq Msgs(Tail(inbox[s])) \cup {e}
      /\ Msgs(Tail(inbox[s])) \subseteq Msgs(new)
      /\ m.val # {r} \/ Msgs(new) = Msgs(Tail(inbox[s]))
  <2>1. CASE m.val = {r}
    BY <1>1, <1>2, <2>1, OnceTailIn, TailFacts DEF AllOnce
  <2>2. CASE m.val # {r}
    <3>1. new = <<e>> \o Tail(inbox[s])
      BY <2>2
    <3>2. new \in Seq(Message)
      BY <1>1, <1>2, <1>5, <3>1, ReplaceHeadFacts
    <3>3. Once(new, outbox[s])
      BY <1>1, <1>2, <1>5, <3>1, OnceReplaceHead DEF AllOnce
    <3>4. Msgs(new) = Msgs(Tail(inbox[s])) \cup {e}
      BY <1>1, <1>2, <1>5, <3>1, MsgsReplaceHead
    <3> QED
      BY <2>2, <3>2, <3>3, <3>4
  <2> QED
    BY <2>1, <2>2
<1>8. \A t \in Server : inbox'[t] = IF t = s THEN new ELSE inbox[t]
  BY <1>1, <1>2
<1>9. inbox' \in [Server -> Seq(Message)]
  BY <1>1, <1>2, <1>7
<1> HIDE DEF new
<1>10. \A t \in Server : t # s => In(t)' = In(t)
  BY <1>8 DEF In
<1>11. /\ In(s)' \subseteq (In(s) \cup {e}) /\ In(s) \subseteq In(s)' \cup {m} /\ m \in In(s)
  BY <1>1, <1>3, <1>7, <1>8 DEF In
<1>12. \A t \in Server : Once(inbox'[t], outbox[t])
  BY <1>7, <1>8 DEF AllOnce
<1>13. /\ AllOnce'
       /\ \A t \in Server : Out(t)' = IF t = s THEN Out(t) \cup Q ELSE Out(t)
  BY <1>2, <1>9, <1>12, EmitSets DEF s
<1>14. \A t \in Server : \A x \in In(t)' : x.op = "event" =>
         \E y \in In(t) : y.op = "event" /\ x.val \subseteq y.val /\ x.rc = y.rc
  <2> SUFFICES ASSUME NEW t \in Server, NEW x \in In(t)', x.op = "event"
               PROVE  \E y \in In(t) : y.op = "event" /\ x.val \subseteq y.val /\ x.rc = y.rc
    OBVIOUS
  <2>1. CASE x \in In(t)
    BY <2>1
  <2>2. CASE x \notin In(t)
    <3>1. t = s /\ x = e
      BY <1>10, <1>11, <2>2
    <3> QED
      BY <1>1, <1>6, <1>11, <3>1
  <2> QED
    BY <2>1, <2>2
<1>15. \A t \in Server : \A y \in In(t) : y.op # "event" => y \in In(t)'
  BY <1>1, <1>10, <1>11
<1>16. \A t \in Server : \A y \in In(t)' : y.op # "event" => y \in In(t)
  BY <1>6, <1>10, <1>11
<1>17. Grows(Q)
  BY <1>13, <1>16 DEF Grows, All
<1> QED
  BY <1>1, <1>4, <1>11, <1>13, <1>14, <1>15, <1>16, <1>17 DEF s

-----------------------------------------------------------------------------
(* What a turn of one request leaves alone. *)

\* Nothing that the invariant says of request x has changed.
Same(x) ==
  /\ waitTimer'[x] = waitTimer[x] /\ promise'[x] = promise[x]
  /\ x \in control' <=> x \in control
  /\ x \in znodes' <=> x \in znodes
  /\ x \in lost' <=> x \in lost

\* Of request x a step changes at most that its watch is gone.
SameRequest(x) ==
  Same(x) /\ watch'[x] \in {watch[x], {}} /\ cmd'[x] = cmd[x] /\ seq'[x] = seq[x]

\* What is known from an operation of a request stays true if the request does
\* not change.
LEMMA MessageFrame ==
  ASSUME NEW m, MessageOK(m), Same(m.r)
  PROVE  MessageOK(m)'
BY DEF Same, MessageOK, Waited, InPlace, Holding

\* So does what is known of the request itself.
LEMMA RequestFrame ==
  ASSUME NEW r, RequestOK(r), SameRequest(r)
  PROVE  RequestOK(r)'
BY DEF Same, SameRequest, RequestOK, Waited, InPlace, Numbered

\* So does what is known of an event, whole or in part.
LEMMA EventFrame ==
  ASSUME NEW s \in Server, NEW y, EventOK(s, y), NEW x, x.val \subseteq y.val,
         UNCHANGED lost, \A r \in y.val : Waited(r) => Waited(r)'
  PROVE  EventOK(s, x)'
BY DEF EventOK

\* What is under way after a step names requests.
LEMMA NextTyped ==
  ASSUME TypeOK', NEW s \in Server, NEW m \in All(s)', m.op # "event"
  PROVE  m.r \in Request
<1>1. inbox'[s] \in Seq(Message) /\ outbox'[s] \in Seq(Operation)
  BY DEF TypeOK, ZkTypeOK, Message
<1>2. m \in Message \/ m \in Operation
  BY <1>1 DEF All, In, Out, Msgs
<1> QED
  BY <1>2 DEF Message, Operation, Reply, Event

\* A turn of request r that sends Q.
LEMMA TurnFrame ==
  ASSUME TypeOK', MessagesOK, RequestsOK, NEW r \in Request, NEW Q, Grows(Q),
         \A x \in Request : x # r => SameRequest(x),
         \A q \in Q : q.r = r /\ MessageOK(q)',
         \A t \in Server : \A m \in All(t) : m \in All(t)' /\ m.op # "event" /\ m.r = r
            => MessageOK(m)',
         \A t \in Server : \A m \in In(t)' : m.op = "event" => EventOK(t, m)',
         RequestOK(r)'
  PROVE  MessagesOK' /\ RequestsOK'
<1>1. ASSUME NEW t \in Server, NEW m \in All(t)', m.op # "event" PROVE MessageOK(m)'
  <2>1. CASE m \in Q
    BY <2>1
  <2>2. CASE m \in All(t)
    <3>1. CASE m.r = r
      BY <1>1, <2>2, <3>1
    <3>2. CASE m.r # r
      <4>1. m.r \in Request
        BY <1>1, NextTyped
      <4> QED
        BY <1>1, <2>2, <3>2, <4>1, MessageFrame DEF MessagesOK, SameRequest
    <3> QED
      BY <3>1, <3>2
  <2> QED
    BY <1>1, <2>1, <2>2 DEF Grows
<1>2. MessagesOK'
  BY <1>1 DEF MessagesOK
<1>3. RequestsOK'
  BY RequestFrame DEF RequestsOK
<1> QED
  BY <1>2, <1>3

\* Events keep their promise while requests go forward.
LEMMA EventsFrame ==
  ASSUME TypeOK, MessagesOK, NEW r \in Request, UNCHANGED lost, Waited(r) => Waited(r)',
         \A x \in Request : x # r => SameRequest(x),
         NEW t \in Server, NEW x \in In(t)', x.op = "event",
         \E y \in In(t) : y.op = "event" /\ x.val \subseteq y.val
  PROVE  EventOK(t, x)'
<1>1. PICK y \in In(t) : y.op = "event" /\ x.val \subseteq y.val
  OBVIOUS
<1>2. EventOK(t, y) /\ y \in Message
  BY <1>1, MsgsTyped DEF MessagesOK
<1>3. y.val \subseteq Request
  BY <1>1, <1>2 DEF Message, Reply, Event, Op
<1>4. \A z \in y.val : Waited(z) => Waited(z)'
  BY <1>3 DEF SameRequest, Same, Waited
<1> QED
  BY <1>1, <1>2, <1>4, EventFrame

\* The invariant of the first part after the callback of an operation.
LEMMA CallbackLife ==
  ASSUME IndInv, TypeOK', LifeInv, NEW r \in Request, NEW op \in Op, NEW by,
         Arrived(r, op, by), Consume(r), NEW m, m = ReplyOf(r), NEW Q, Emits(r, Q),
         \A q \in Q : (Own(q) => Own(m) \/ Alone(r)) /\ MessageOK(q)',
         UNCHANGED lost, \A x \in Request : x # r => SameRequest(x),
         Waited(r) => Waited(r)', RequestOK(r)',
         \A t \in Server : \A x \in All(t) :
           x.op # "event" /\ x.r = r /\ MessageOK(x) /\ ~(Own(x) /\ Own(m)) => MessageOK(x)'
  PROVE  LifeInv'
<1>1. /\ AllOnce' /\ Grows(Q)
      /\ \A t \in Server : In(t)' \subseteq In(t)
      /\ Own(m) => \A t \in Server : \A x \in All(t)' : Own(x) /\ x.r = r => x \in Q
  BY CallbackSets DEF IndInv, LifeInv
<1>2. \A q \in Q : q.r = r
  BY DEF Emits
<1>3. ASSUME NEW t \in Server, NEW x \in All(t), x \in All(t)', x.op # "event", x.r = r
      PROVE  MessageOK(x)'
  <2>1. MessageOK(x)
    BY <1>3 DEF LifeInv, MessagesOK
  <2>2. CASE x \in Q
    BY <2>2
  <2>3. CASE x \notin Q
    BY <1>1, <1>3, <2>1, <2>3
  <2> QED
    BY <2>2, <2>3
<1>4. ASSUME NEW t \in Server, NEW x \in In(t)', x.op = "event" PROVE EventOK(t, x)'
  BY <1>1, <1>4, EventsFrame DEF IndInv, LifeInv
<1>5. MessagesOK' /\ RequestsOK'
  BY <1>1, <1>2, <1>3, <1>4, TurnFrame DEF LifeInv
<1> QED
  BY <1>1, <1>5 DEF LifeInv

\* After a command or a timer.
LEMMA CommandLife ==
  ASSUME IndInv, TypeOK', LifeInv, UNCHANGED inbox, NEW r \in Request, NEW Q, Emits(r, Q),
         \A q \in Q : (Own(q) => Alone(r)) /\ MessageOK(q)',
         UNCHANGED lost, \A x \in Request : x # r => SameRequest(x), RequestOK(r)',
         (Waited(r) => Waited(r)') \/ cmd[r] = "none",
         \A t \in Server : \A x \in All(t) :
           x.op # "event" /\ x.r = r /\ MessageOK(x) => MessageOK(x)'
  PROVE  LifeInv'
<1>1. AllOnce' /\ Grows(Q) /\ \A t \in Server : In(t)' = In(t)
  BY CommandSets DEF IndInv, LifeInv
<1>2. \A q \in Q : q.r = r
  BY DEF Emits
<1>3. ASSUME NEW t \in Server, NEW x \in All(t), x.op # "event", x.r = r
      PROVE  MessageOK(x)'
  BY <1>3 DEF LifeInv, MessagesOK
<1>4. ASSUME NEW t \in Server, NEW x \in In(t)', x.op = "event" PROVE EventOK(t, x)'
  <2>1. x \in In(t) /\ EventOK(t, x) /\ x \in Message
    BY <1>1, <1>4, MsgsTyped DEF LifeInv, MessagesOK, IndInv
  <2>2. x.val \subseteq Request
    BY <1>4, <2>1 DEF Message, Reply, Event, Op
  <2>3. cmd[r] = "none" => r \notin x.val
    <3>1. PICK i \in 1..Len(inbox[t]) : x = inbox[t][i]
      BY <2>1 DEF In, Msgs
    <3>2. Receivable(t, x)
      BY <3>1 DEF IndInv, AllPipesOK, PipesOK
    <3> QED
      BY <1>4, <3>2 DEF Receivable, IndInv, NumbersInOrder
  <2>4. \A z \in x.val : Waited(z) => Waited(z)'
    BY <2>2, <2>3 DEF SameRequest, Same, Waited
  <2> QED
    BY <2>1, <2>4, EventFrame
<1>5. MessagesOK' /\ RequestsOK'
  BY <1>1, <1>2, <1>3, <1>4, TurnFrame DEF LifeInv
<1> QED
  BY <1>1, <1>5 DEF LifeInv

-----------------------------------------------------------------------------
(* The callbacks of the lock. *)

\* What r submits is for r.
LEMMA EmitsFor ==
  ASSUME NEW r \in Request, NEW op \in Op, NEW arg \in SUBSET Request, NEW by \in Caller,
         SendFor(r, op, arg, by)
  PROVE  Emits(r, {Request_(op, r, arg, by)})
BY RequestTypes DEF Emits, SendFor

\* A rejection changes a pending promise only.
LEMMA RejectKeeps ==
  ASSUME TypeOK, NEW r \in Request, Reject(r),
         UNCHANGED <<waitTimer, control, znodes, lost, watch, cmd, seq>>
  PROVE  /\ \A x \in Request : x # r => SameRequest(x)
         /\ Waited(r) => Waited(r)'
         /\ RequestOK(r) => RequestOK(r)'
         /\ promise[r] # "pending" => promise'[r] = promise[r]
<1>1. /\ \A x \in Request : x # r => promise'[x] = promise[x]
      /\ promise'[r] = IF promise[r] = "pending" THEN "rejected" ELSE promise[r]
  BY DEF Reject, TypeOK, LockTypeOK
<1>2. \A x \in Request : x # r => SameRequest(x)
  BY <1>1 DEF SameRequest, Same
<1>3. Waited(r) => Waited(r)'
  BY <1>1 DEF Waited
<1>4. RequestOK(r) => RequestOK(r)'
  BY <1>1, <1>3 DEF RequestOK, InPlace, Numbered
<1> QED
  BY <1>1, <1>2, <1>3, <1>4

\* A rejected promise leaves what is known from the operations of r as it was,
\* but of the operations before the queue.
LEMMA RejectMessage ==
  ASSUME TypeOK, NEW r \in Request, Reject(r), UNCHANGED <<waitTimer, control, znodes, lost>>,
         NEW m, m.r = r, MessageOK(m), m.op \notin {"path", "create"} \/ Waited(r)
  PROVE  MessageOK(m)'
<1>1. promise'[r] = IF promise[r] = "pending" THEN "rejected" ELSE promise[r]
  BY DEF Reject, TypeOK, LockTypeOK
<1>2. m.op \notin {"path", "create"}
  BY DEF MessageOK, Waited
<1>3. Waited(r) => Waited(r)'
  BY <1>1 DEF Waited
<1> QED
  BY <1>1, <1>2, <1>3 DEF MessageOK, InPlace, Holding

\* Nothing of the invariant changes but the pipes.
LEMMA QuietKeeps ==
  ASSUME UNCHANGED <<waitTimer, promise, control, znodes, lost, watch, cmd, seq>>, NEW r
  PROVE  /\ \A x \in Request : SameRequest(x)
         /\ Waited(r) => Waited(r)'
         /\ RequestOK(r) => RequestOK(r)'
         /\ \A m : MessageOK(m) => MessageOK(m)'
BY DEF SameRequest, Same, RequestOK, MessageOK, Waited, InPlace, Numbered, Holding

\* What a callback finds.
LEMMA Finds ==
  ASSUME IndInv, LifeInv, NEW r \in Request, NEW op \in Op, NEW by, Arrived(r, op, by)
  PROVE  /\ MessageOK(ReplyOf(r)) /\ ReplyOf(r).op = op /\ ReplyOf(r).r = r /\ ReplyOf(r).by = by
         /\ ReplyOf(r) \in In(ServerOf[r]) /\ ReplyOf(r) \in Message
         /\ cmd[r] # "none" /\ ServerOf[r] \in Server /\ RequestOK(r)
         /\ op \notin {"path", "create"} => Numbered(r)
         /\ ReplyOf(r) \in Reply
<1> DEFINE s == ServerOf[r]
           m == ReplyOf(r)
<1>1. /\ s \in Server /\ inbox[s] # << >> /\ m = Head(inbox[s]) /\ m.op = op /\ m.r = r /\ m.by = by
      /\ m.op # "event"
  BY ServerOfAssumption DEF Arrived, ReplyOf, Op
<1>2. m \in In(s) /\ m \in Message
  BY <1>1, MsgsTail, MsgsTyped DEF IndInv, In
<1>3. MessageOK(m) /\ RequestOK(r)
  BY <1>1, <1>2 DEF LifeInv, MessagesOK, All, RequestsOK
<1>4. cmd[r] # "none" /\ (op \notin {"path", "create"} => Numbered(r))
  BY ArrivedFacts DEF IndInv
<1>5. m \in Reply
  BY <1>1, <1>2 DEF Message, Event
<1> QED
  BY <1>1, <1>2, <1>3, <1>4, <1>5

\* A callback that rejects, sends nothing, and leaves the rest.
LEMMA RejectLife ==
  ASSUME IndInv, TypeOK', LifeInv, NEW r \in Request, NEW op \in Op, NEW by,
         Arrived(r, op, by), Consume(r), Reject(r), UNCHANGED outbox,
         UNCHANGED <<waitTimer, control, znodes, lost, watch, cmd, seq>>,
         op \in {"path", "create"} \/ Waited(r)
  PROVE  LifeInv'
<1>1. ReplyOf(r).op = op /\ RequestOK(r)
  BY Finds
<1>2. Emits(r, {})
  BY DEF Emits
<1>3. /\ \A x \in Request : x # r => SameRequest(x)
      /\ Waited(r) => Waited(r)'
      /\ RequestOK(r)'
  BY <1>1, RejectKeeps DEF IndInv
<1>4. ASSUME NEW t \in Server, NEW x \in All(t), x.r = r, MessageOK(x), ~(Own(x) /\ Own(ReplyOf(r)))
      PROVE  MessageOK(x)'
  <2>1. x.op \notin {"path", "create"} \/ Waited(r)
    BY <1>1, <1>4 DEF Own
  <2> QED
    BY <1>4, <2>1, RejectMessage DEF IndInv
<1>5. PICK Q : Q = {}
  OBVIOUS
<1>6. Emits(r, Q) /\ \A q \in Q : (Own(q) => Own(ReplyOf(r)) \/ Alone(r)) /\ MessageOK(q)'
  BY <1>2, <1>5
<1> QED
  BY <1>3, <1>4, <1>6, CallbackLife

\* A callback that only sends an operation.
LEMMA QuietLife ==
  ASSUME IndInv, TypeOK', LifeInv, NEW r \in Request, NEW op \in Op, NEW by,
         Arrived(r, op, by), Consume(r), NEW Q, Emits(r, Q),
         \A q \in Q : (Own(q) => Own(ReplyOf(r)) \/ Alone(r)) /\ MessageOK(q),
         UNCHANGED <<waitTimer, promise, control, znodes, lost, watch, cmd, seq>>
  PROVE  LifeInv'
<1>1. RequestOK(r)
  BY DEF LifeInv, RequestsOK
<1>2. /\ \A x \in Request : SameRequest(x)
      /\ Waited(r) => Waited(r)'
      /\ RequestOK(r)'
      /\ \A x : MessageOK(x) => MessageOK(x)'
  BY <1>1, QuietKeeps
<1> QED
  BY <1>2, CallbackLife

\* The reply to the path of a request.
LEMMA PathEnsuredLife ==
  ASSUME IndInv, TypeOK', LifeInv, NEW r \in Request, PathEnsured(r),
         UNCHANGED <<storeVars, cmd, control, lost>>
  PROVE  LifeInv'
<1>1. /\ Arrived(r, "path", "lock") /\ Consume(r) /\ "path" \in Op
      /\ UNCHANGED <<waitTimer, control, znodes, lost, watch, cmd, seq>>
  BY DEF PathEnsured, storeVars, Op
<1>2. CASE SendFor(r, "create", {}, "lock") /\ UNCHANGED promise
  <2> DEFINE q == Request_("create", r, {}, "lock")
  <2>1. Emits(r, {q}) /\ q.op = "create" /\ q.r = r
    BY <1>2, EmitsFor DEF Op, Caller, Request_
  <2> HIDE DEF q
  <2>2. MessageOK(ReplyOf(r)) /\ ReplyOf(r).op = "path" /\ ReplyOf(r).r = r
    BY <1>1, Finds
  <2>3. MessageOK(q) /\ Own(ReplyOf(r))
    BY <2>1, <2>2 DEF MessageOK, Own, Holding
  <2> QED
    BY <1>1, <1>2, <2>1, <2>3, QuietLife
<1>3. CASE Reject(r) /\ UNCHANGED outbox
  BY <1>1, <1>3, RejectLife
<1> QED
  BY <1>2, <1>3 DEF PathEnsured

\* The reply to the creation of its znode.
LEMMA CreatedLife ==
  ASSUME IndInv, TypeOK', LifeInv, NEW r \in Request, Created(r),
         UNCHANGED <<storeVars, cmd, control, lost>>
  PROVE  LifeInv'
<1>1. /\ Arrived(r, "create", "lock") /\ Consume(r) /\ "create" \in Op
      /\ UNCHANGED <<control, znodes, lost, watch, cmd, seq>>
  BY DEF Created, storeVars, Op
<1>2. CASE /\ waitTimer' = [waitTimer EXCEPT ![r] = "armed"]
           /\ SendFor(r, "children", {}, "lock") /\ UNCHANGED promise
  <2> DEFINE q == Request_("children", r, {}, "lock")
  <2>1. Emits(r, {q}) /\ q.op = "children" /\ q.r = r
    BY <1>2, EmitsFor DEF Op, Caller, Request_
  <2> HIDE DEF q
  <2>2. /\ MessageOK(ReplyOf(r)) /\ ReplyOf(r).op = "create" /\ ReplyOf(r).r = r
        /\ cmd[r] # "none" /\ RequestOK(r)
    BY <1>1, Finds
  <2>3. waitTimer[r] = "off" /\ promise[r] = "pending" /\ r \notin lost
    BY <2>2 DEF MessageOK
  <2>4. waitTimer'[r] = "armed" /\ \A x \in Request : x # r => waitTimer'[x] = waitTimer[x]
    BY <1>2 DEF IndInv, TypeOK, LockTypeOK
  <2>5. \A x \in Request : x # r => SameRequest(x)
    BY <1>1, <1>2, <2>4 DEF SameRequest, Same
  <2>6. Waited(r)'
    BY <2>4 DEF Waited
  <2>7. RequestOK(r)'
    BY <1>1, <1>2, <2>2, <2>3, <2>4, <2>6 DEF RequestOK, InPlace, Numbered
  <2>8. MessageOK(q)' /\ ~Own(q) /\ Own(ReplyOf(r))
    BY <1>1, <2>1, <2>2, <2>3, <2>6 DEF MessageOK, Own, Holding
  <2>9. ASSUME NEW t \in Server, NEW x \in All(t), x.r = r, MessageOK(x), ~(Own(x) /\ Own(ReplyOf(r)))
        PROVE  MessageOK(x)'
    <3>1. ~Own(x) /\ ~(x.op = "delete" /\ x.by = "wait")
      BY <2>3, <2>8, <2>9 DEF MessageOK
    <3> QED
      BY <1>1, <2>3, <2>6, <2>9, <3>1 DEF MessageOK, Own, Holding
  <2> QED
    BY <1>1, <2>1, <2>5, <2>6, <2>7, <2>8, <2>9, CallbackLife
<1>3. CASE Reject(r) /\ UNCHANGED <<waitTimer, outbox>>
  BY <1>1, <1>3, RejectLife
<1> QED
  BY <1>2, <1>3 DEF Created

\* An operation of the queue for the lock follows a callback that sends nothing else.
LEMMA QueueLife ==
  ASSUME IndInv, TypeOK', LifeInv, NEW r \in Request, NEW op \in Op, NEW by,
         Arrived(r, op, by), Consume(r), NEW next \in {"children", "exists"},
         NEW arg \in SUBSET Request, SendFor(r, next, arg, "lock"), Waited(r), r \notin lost,
         UNCHANGED <<waitTimer, promise, control, znodes, lost, watch, cmd, seq>>
  PROVE  LifeInv'
<1> DEFINE q == Request_(next, r, arg, "lock")
<1>1. Emits(r, {q}) /\ q.op = next /\ q.r = r
  BY EmitsFor DEF Op, Caller, Request_
<1> HIDE DEF q
<1>2. MessageOK(q) /\ ~Own(q)
  BY <1>1 DEF MessageOK, Own, Holding
<1> QED
  BY <1>1, <1>2, QuietLife

\* The listing, which may give it the lock.
LEMMA ListedLife ==
  ASSUME IndInv, TypeOK', LifeInv, NEW r \in Request,
         Listed(r, Request_("get", r, {}, "lock")), UNCHANGED <<storeVars, cmd, control, lost>>
  PROVE  LifeInv'
<1>1. /\ Arrived(r, "children", "lock") /\ Consume(r) /\ "children" \in Op
      /\ UNCHANGED <<control, znodes, lost, watch, cmd, seq>>
  BY DEF Listed, storeVars, Op
<1>2. /\ MessageOK(ReplyOf(r)) /\ ReplyOf(r).op = "children" /\ ReplyOf(r).r = r
      /\ cmd[r] # "none" /\ RequestOK(r) /\ Numbered(r) /\ ReplyOf(r) \in Message
      /\ ReplyOf(r) \in Reply
  BY <1>1, Finds
<1>3. Waited(r) /\ r \notin lost /\ ~Own(ReplyOf(r))
  BY <1>2 DEF MessageOK, Own
<1>4. /\ promise \in [Request -> {"none", "pending", "acquired", "rejected"}]
      /\ waitTimer \in [Request -> {"off", "armed", "fired"}]
  BY DEF IndInv, TypeOK, LockTypeOK
<1>5. CASE Reject(r) /\ UNCHANGED <<waitTimer, outbox>>
  BY <1>1, <1>3, <1>5, RejectLife
<1>6. ASSUME waitTimer' = [waitTimer EXCEPT ![r] = IF @ = "armed" THEN "off" ELSE @],
             promise[r] = "pending", promise' = [promise EXCEPT ![r] = "acquired"],
             Send(ServerOf[r], Request_("get", r, {}, "lock"))
      PROVE  LifeInv'
  <2> DEFINE q == Request_("get", r, {}, "lock")
  <2>1. Emits(r, {q}) /\ q.op = "get" /\ q.r = r
    BY <1>6, EmitsFor DEF Op, Caller, Request_, SendFor
  <2> HIDE DEF q
  <2>2. /\ promise'[r] = "acquired" /\ (waitTimer[r] = "fired" <=> waitTimer'[r] = "fired")
        /\ waitTimer'[r] # "armed"
        /\ \A x \in Request : x # r => waitTimer'[x] = waitTimer[x] /\ promise'[x] = promise[x]
    BY <1>4, <1>6
  <2>3. \A x \in Request : x # r => SameRequest(x)
    BY <1>1, <2>2 DEF SameRequest, Same
  <2>4. InPlace(r) /\ r \notin control
    BY <1>2, <1>3, <1>6 DEF RequestOK
  <2>5. InPlace(r)' /\ Waited(r)'
    BY <1>1, <2>2, <2>4 DEF InPlace, Waited
  <2>6. RequestOK(r)'
    BY <1>1, <1>2, <1>3, <2>2, <2>4, <2>5 DEF RequestOK, Numbered
  <2>7. MessageOK(q)'
    BY <1>1, <1>3, <2>1, <2>2, <2>4, <2>5 DEF MessageOK, Holding
  <2>8. Alone(r)
    <3> SUFFICES ASSUME NEW s \in Server, NEW x \in All(s), Own(x), x.r = r PROVE FALSE
      BY DEF Alone, Free
    <3>1. MessageOK(x)
      BY DEF Own, LifeInv, MessagesOK
    <3> QED
      BY <1>3, <1>6, <3>1 DEF MessageOK, Own, Holding, Waited
  <2>9. ASSUME NEW t \in Server, NEW x \in All(t), x.r = r, MessageOK(x)
        PROVE  MessageOK(x)'
    <3>1. ~Own(x)
      BY <2>8, <2>9 DEF Alone, Free
    <3> QED
      BY <1>1, <2>2, <2>5, <2>9, <3>1 DEF MessageOK, Own, Holding
  <2> QED
    BY <1>1, <2>1, <2>3, <2>5, <2>6, <2>7, <2>8, <2>9, CallbackLife
<1>7. ASSUME waitTimer' = [waitTimer EXCEPT ![r] = IF @ = "armed" THEN "off" ELSE @],
             promise[r] # "pending", UNCHANGED <<promise, outbox>>
      PROVE  LifeInv'
  <2>1. PICK Q : Q = {}
    OBVIOUS
  <2>2. Emits(r, Q) /\ \A q \in Q : (Own(q) => Own(ReplyOf(r)) \/ Alone(r)) /\ MessageOK(q)'
    BY <1>7, <2>1 DEF Emits
  <2>3. /\ (waitTimer[r] = "fired" <=> waitTimer'[r] = "fired") /\ waitTimer'[r] # "armed"
        /\ \A x \in Request : x # r => waitTimer'[x] = waitTimer[x]
        /\ waitTimer[r] = "off" => waitTimer'[r] = "off"
    BY <1>4, <1>7
  <2>4. \A x \in Request : x # r => SameRequest(x)
    BY <1>1, <1>7, <2>3 DEF SameRequest, Same
  <2>5. Waited(r)' /\ (InPlace(r) <=> InPlace(r)')
    BY <1>1, <1>7, <2>3 DEF Waited, InPlace
  <2>6. RequestOK(r)'
    BY <1>1, <1>2, <1>7, <2>3, <2>5 DEF RequestOK, Numbered
  <2>7. ASSUME NEW t \in Server, NEW x \in All(t), x.r = r, MessageOK(x)
        PROVE  MessageOK(x)'
    BY <1>1, <1>7, <2>3, <2>5, <2>7 DEF MessageOK, Holding
  <2> QED
    BY <1>1, <2>2, <2>4, <2>5, <2>6, <2>7, CallbackLife
<1>8. ASSUME NEW z \in NodeToBeWatched(r, ReplyOf(r).val), SendFor(r, "exists", {z}, "lock"),
             UNCHANGED lockVars
      PROVE  LifeInv'
  <2>1. z \in Request
    BY <1>2 DEF NodeToBeWatched, Ahead, Reply
  <2> QED
    BY <1>1, <1>3, <1>8, <2>1, QueueLife DEF lockVars
<1> QED
  BY <1>5, <1>6, <1>7, <1>8 DEF Listed

\* The reply to the search for the znode it waits for.
LEMMA ExistsRepliedLife ==
  ASSUME IndInv, TypeOK', LifeInv, NEW r \in Request, ExistsReplied(r),
         UNCHANGED <<storeVars, cmd, control, lost>>
  PROVE  LifeInv'
<1>1. /\ Arrived(r, "exists", "lock") /\ Consume(r) /\ "exists" \in Op
      /\ UNCHANGED <<waitTimer, control, znodes, lost, watch, cmd, seq>>
  BY DEF ExistsReplied, storeVars, Op
<1>2. MessageOK(ReplyOf(r)) /\ ReplyOf(r).op = "exists" /\ ReplyOf(r).r = r
  BY <1>1, Finds
<1>3. Waited(r) /\ r \notin lost
  BY <1>2 DEF MessageOK
<1>4. CASE SendFor(r, "children", {}, "lock") /\ UNCHANGED promise
  BY <1>1, <1>3, <1>4, QueueLife
<1>5. CASE UNCHANGED <<promise, outbox>>
  <2>1. PICK Q : Q = {}
    OBVIOUS
  <2>2. Emits(r, Q) /\ \A q \in Q : (Own(q) => Own(ReplyOf(r)) \/ Alone(r)) /\ MessageOK(q)
    BY <1>5, <2>1 DEF Emits
  <2> QED
    BY <1>1, <1>5, <2>2, QuietLife
<1>6. CASE Reject(r) /\ UNCHANGED outbox
  BY <1>1, <1>3, <1>6, RejectLife
<1> QED
  BY <1>4, <1>5, <1>6 DEF ExistsReplied

\* The reply to the deletion of the wait timer.
LEMMA WaitUnlockedLife ==
  ASSUME IndInv, TypeOK', LifeInv, NEW r \in Request, WaitUnlocked(r),
         UNCHANGED <<storeVars, cmd, control, lost>>
  PROVE  LifeInv'
<1>1. /\ Arrived(r, "delete", "wait") /\ Consume(r) /\ "delete" \in Op
      /\ UNCHANGED <<waitTimer, control, znodes, lost, watch, cmd, seq, outbox>> /\ Reject(r)
  BY DEF WaitUnlocked, storeVars, Op
<1>2. /\ MessageOK(ReplyOf(r)) /\ ReplyOf(r).op = "delete" /\ ReplyOf(r).r = r
      /\ ReplyOf(r).by = "wait"
  BY <1>1, Finds
<1>3. Waited(r)
  BY <1>2 DEF MessageOK, Waited
<1> QED
  BY <1>1, <1>3, RejectLife

\* The event that the znode it waits for is gone.
LEMMA WatchFiredLife ==
  ASSUME IndInv, TypeOK', LifeInv, NEW r \in Request, WatchFired(r),
         UNCHANGED <<storeVars, cmd, control, lost>>
  PROVE  LifeInv'
<1>1. /\ EventArrived(r) /\ ConsumeEvent(r)
      /\ UNCHANGED <<waitTimer, control, znodes, lost, watch, cmd, seq>>
  BY DEF WatchFired, storeVars
<1>2. ServerOf[r] \in Server /\ ReplyOf(r) \in In(ServerOf[r]) /\ ReplyOf(r).op = "event" /\ r \in ReplyOf(r).val
  BY <1>1, MsgsTail, MsgsTyped, ServerOfAssumption DEF IndInv, EventArrived, ReplyOf, In
<1>3. Waited(r) /\ r \notin lost /\ RequestOK(r)
  BY <1>2 DEF LifeInv, MessagesOK, EventOK, RequestsOK
<1>4. PICK Q : /\ Emits(r, Q) /\ \A q \in Q : q.op = "children" /\ q.r = r
               /\ UNCHANGED promise \/ Reject(r)
  <2>1. CASE SendFor(r, "children", {}, "lock") /\ UNCHANGED promise
    <3> DEFINE q == Request_("children", r, {}, "lock")
    <3>1. Emits(r, {q}) /\ q.op = "children" /\ q.r = r
      BY <2>1, EmitsFor DEF Op, Caller, Request_
    <3>2. \A x \in {q} : x.op = "children" /\ x.r = r
      BY <3>1
    <3> HIDE DEF q
    <3> QED
      BY <2>1, <3>1, <3>2
  <2>2. CASE Reject(r) /\ UNCHANGED outbox
    <3>1. Emits(r, {})
      BY <2>2 DEF Emits
    <3>2. \A x \in {} : x.op = "children" /\ x.r = r
      OBVIOUS
    <3> QED
      BY <2>2, <3>1, <3>2
  <2> QED
    BY <2>1, <2>2 DEF WatchFired
<1>5. \A q \in Q : ~Own(q)
  BY <1>4 DEF Own
<1>6. /\ AllOnce' /\ Grows(Q)
      /\ \A t \in Server : \A x \in In(t)' : x.op = "event" =>
            \E y \in In(t) : y.op = "event" /\ x.val \subseteq y.val /\ x.rc = y.rc
  BY <1>1, <1>4, <1>5, EventSets DEF IndInv, LifeInv
<1>7. /\ \A x \in Request : x # r => SameRequest(x)
      /\ Waited(r)'
      /\ RequestOK(r)'
  BY <1>1, <1>3, <1>4, RejectKeeps, QuietKeeps DEF IndInv
<1>8. ASSUME NEW x, x.r = r, MessageOK(x) PROVE MessageOK(x)'
  BY <1>1, <1>3, <1>4, <1>8, RejectMessage, QuietKeeps DEF IndInv
<1>9. ASSUME NEW q \in Q PROVE q.r = r /\ MessageOK(q)'
  BY <1>1, <1>3, <1>4, <1>7 DEF MessageOK, Holding
<1>10. ASSUME NEW t \in Server, NEW x \in In(t)', x.op = "event" PROVE EventOK(t, x)'
  BY <1>1, <1>6, <1>7, <1>10, EventsFrame DEF IndInv, LifeInv
<1>11. \A t \in Server : \A m \in All(t) : m \in All(t)' /\ m.op # "event" /\ m.r = r => MessageOK(m)'
  BY <1>8 DEF LifeInv, MessagesOK
<1>12. MessagesOK' /\ RequestsOK'
  BY <1>6, <1>7, <1>9, <1>10, <1>11, TurnFrame DEF LifeInv
<1> QED
  BY <1>6, <1>12 DEF LifeInv

\* Every callback of the lock.
LEMMA LockCallbackLife ==
  ASSUME IndInv, TypeOK', LifeInv, NEW r \in Request, LockCallback(r)
  PROVE  LifeInv'
<1>1. UNCHANGED <<storeVars, cmd, control, lost>>
  BY LockCallbackTypes DEF LockCallback, IndInv
<1> QED
  BY <1>1, PathEnsuredLife, CreatedLife, ListedLife, ExistsRepliedLife, WatchFiredLife,
     WaitUnlockedLife DEF LockCallback

-----------------------------------------------------------------------------
(* The commands and the timers, and the callbacks of the context. *)

\* The arrival of a lock command.
LEMMA RecvLockLife ==
  ASSUME IndInv, TypeOK', LifeInv, NEW r \in Request, NEW c \in Command, RecvLock(r, c)
  PROVE  LifeInv'
<1> DEFINE q == Request_("path", r, {}, "lock")
<1>1. /\ cmd[r] = "none" /\ cmd' = [cmd EXCEPT ![r] = c] /\ promise' = [promise EXCEPT ![r] = "pending"]
      /\ SendFor(r, "path", {}, "lock")
      /\ UNCHANGED <<waitTimer, inbox, control, znodes, lost, watch, seq>>
  BY DEF RecvLock, Lock, storeVars, mgrVars
<1>2. Emits(r, {q}) /\ q.op = "path" /\ q.r = r
  BY <1>1, EmitsFor DEF Op, Caller, Request_
<1> HIDE DEF q
<1>3. /\ promise'[r] = "pending" /\ cmd'[r] # "none"
      /\ \A x \in Request : x # r => promise'[x] = promise[x] /\ cmd'[x] = cmd[x]
  BY <1>1 DEF IndInv, TypeOK, LockTypeOK, Command
<1>4. \A x \in Request : x # r => SameRequest(x)
  BY <1>1, <1>3 DEF SameRequest, Same
<1>5. ~Numbered(r) /\ watch[r] = {} /\ r \notin control
  BY <1>1 DEF IndInv, NumbersInOrder, RolesNumbered
<1>6. r \notin lost /\ waitTimer[r] = "off"
  BY <1>1 DEF LifeInv, RequestsOK, RequestOK
<1>7. RequestOK(r)'
  BY <1>1, <1>3, <1>5, <1>6 DEF RequestOK, Numbered
<1>8. MessageOK(q)'
  BY <1>1, <1>2, <1>3, <1>6 DEF MessageOK, Holding
<1>9. \A t \in Server : \A x \in All(t) : x.op # "event" => x.r # r
  BY <1>1, Homes DEF IndInv
<1>10. Alone(r)
  BY <1>9 DEF Alone, Free, Own
<1> QED
  BY <1>1, <1>2, <1>4, <1>7, <1>8, <1>9, <1>10, CommandLife

\* The wait timer.
LEMMA WaitTimeoutLife ==
  ASSUME IndInv, TypeOK', LifeInv, NEW r \in Request, WaitTimeout(r)
  PROVE  LifeInv'
<1> DEFINE q == Request_("delete", r, {}, "wait")
<1>1. /\ waitTimer[r] = "armed" /\ waitTimer' = [waitTimer EXCEPT ![r] = "fired"]
      /\ SendFor(r, "delete", {}, "wait")
      /\ UNCHANGED <<promise, inbox, control, znodes, lost, watch, seq, cmd>>
  BY DEF WaitTimeout, LockWaitTimeout, storeVars, mgrVars
<1>2. Emits(r, {q}) /\ q.op = "delete" /\ q.r = r /\ q.by = "wait"
  BY <1>1, EmitsFor DEF Op, Caller, Request_
<1> HIDE DEF q
<1>3. waitTimer'[r] = "fired" /\ \A x \in Request : x # r => waitTimer'[x] = waitTimer[x]
  BY <1>1 DEF IndInv, TypeOK, LockTypeOK
<1>4. \A x \in Request : x # r => SameRequest(x)
  BY <1>1, <1>3 DEF SameRequest, Same
<1>5. RequestOK(r)
  BY DEF LifeInv, RequestsOK
<1>6. r \notin lost /\ cmd[r] # "none" /\ Waited(r)' /\ InPlace(r)'
  BY <1>1, <1>3, <1>5 DEF RequestOK, Waited, InPlace
<1>7. RequestOK(r)'
  BY <1>1, <1>3, <1>5, <1>6 DEF RequestOK
<1>8. MessageOK(q)' /\ ~Own(q)
  BY <1>1, <1>2, <1>3, <1>6 DEF MessageOK, Holding, Own
<1>9. \A t \in Server : \A x \in All(t) : x.r = r /\ MessageOK(x) => MessageOK(x)'
  BY <1>1, <1>3, <1>6 DEF MessageOK, Holding
<1> QED
  BY <1>1, <1>2, <1>4, <1>6, <1>7, <1>8, <1>9, CommandLife

\* The holder of an entry gives it up for an operation of its own.
LEMMA ReleaseLife ==
  ASSUME IndInv, TypeOK', LifeInv, NEW r \in control, control' = control \ {r},
         NEW op \in {"set", "delete"}, NEW arg \in SUBSET Request,
         NEW by \in {"save", "unlock", "hold"}, SendFor(r, op, arg, by),
         UNCHANGED <<waitTimer, promise, inbox, znodes, lost, watch, seq, cmd>>
  PROVE  LifeInv'
<1> DEFINE q == Request_(op, r, arg, by)
<1>1. r \in Request
  BY DEF IndInv, TypeOK
<1>2. Emits(r, {q}) /\ q.op = op /\ q.r = r /\ q.by = by
  BY <1>1, EmitsFor DEF Op, Caller, Request_
<1> HIDE DEF q
<1>3. Alone(r)
  BY HolderAlone DEF IndInv, LifeInv
<1>4. \A x \in Request : x # r => SameRequest(x)
  BY DEF SameRequest, Same
<1>5. RequestOK(r)
  BY <1>1 DEF LifeInv, RequestsOK
<1>6. promise[r] = "acquired" /\ InPlace(r) /\ r \notin lost
  BY <1>5 DEF RequestOK
<1>7. RequestOK(r)'
  BY <1>5 DEF RequestOK, InPlace, Waited, Numbered
<1>8. MessageOK(q)'
  BY <1>2, <1>6 DEF MessageOK, Holding, InPlace
<1>9. \A t \in Server : \A x \in All(t) : x.r = r /\ MessageOK(x) => MessageOK(x)'
  BY DEF MessageOK, Holding, InPlace, Waited
<1>10. Waited(r) => Waited(r)'
  BY DEF Waited
<1> QED
  BY <1>1, <1>2, <1>3, <1>4, <1>7, <1>8, <1>9, <1>10, CommandLife

\* The reply to the read of the content, with or without the unlock.
LEMMA GetRepliedLife ==
  ASSUME IndInv, TypeOK', LifeInv, NEW r \in Request, GetReplied(r)
  PROVE  LifeInv'
<1>1. /\ Arrived(r, "get", "lock") /\ Consume(r) /\ "get" \in Op
      /\ UNCHANGED <<waitTimer, promise, znodes, lost, watch, cmd, seq>>
  BY DEF GetReplied, storeVars, lockVars, Op
<1>2. /\ MessageOK(ReplyOf(r)) /\ ReplyOf(r).op = "get" /\ ReplyOf(r).r = r
      /\ cmd[r] # "none" /\ RequestOK(r)
  BY <1>1, Finds
<1>3. /\ promise[r] = "acquired" /\ r \notin control /\ InPlace(r) /\ r \notin lost
      /\ Own(ReplyOf(r)) /\ Waited(r)
  BY <1>2 DEF MessageOK, Own, Holding, Waited
<1>4. CASE UNCHANGED <<control, outbox>>
  <2>1. PICK Q : Q = {}
    OBVIOUS
  <2>2. Emits(r, Q) /\ \A q \in Q : (Own(q) => Own(ReplyOf(r)) \/ Alone(r)) /\ MessageOK(q)
    BY <1>4, <2>1 DEF Emits
  <2> QED
    BY <1>1, <1>4, <2>2, QuietLife
<1>5. CASE control' = control \cup {r} /\ UNCHANGED outbox
  <2>1. PICK Q : Q = {}
    OBVIOUS
  <2>2. Emits(r, Q) /\ \A q \in Q : (Own(q) => Own(ReplyOf(r)) \/ Alone(r)) /\ MessageOK(q)'
    BY <1>5, <2>1 DEF Emits
  <2>3. \A x \in Request : x # r => SameRequest(x)
    BY <1>1, <1>5 DEF SameRequest, Same
  <2>4. RequestOK(r)' /\ Waited(r)'
    BY <1>1, <1>2, <1>3 DEF RequestOK, InPlace, Waited, Numbered
  <2>5. \A t \in Server : \A x \in All(t) :
          x.r = r /\ MessageOK(x) /\ ~(Own(x) /\ Own(ReplyOf(r))) => MessageOK(x)'
    BY <1>1, <1>3 DEF MessageOK, Holding, InPlace, Waited, Own
  <2> QED
    BY <1>1, <2>2, <2>3, <2>4, <2>5, CallbackLife
<1>6. CASE SendFor(r, "delete", {}, "unlock") /\ UNCHANGED control
  <2> DEFINE q == Request_("delete", r, {}, "unlock")
  <2>1. Emits(r, {q}) /\ q.op = "delete" /\ q.r = r /\ q.by = "unlock"
    BY <1>6, EmitsFor DEF Op, Caller, Request_
  <2> HIDE DEF q
  <2>2. MessageOK(q)
    BY <1>3, <2>1 DEF MessageOK, Holding
  <2> QED
    BY <1>1, <1>3, <1>6, <2>1, <2>2, QuietLife
<1> QED
  BY <1>4, <1>5, <1>6 DEF GetReplied

\* A callback of the context that changes nothing but the pipes.
LEMMA DoneLife ==
  ASSUME IndInv, TypeOK', LifeInv, NEW r \in Request, NEW op \in {"set", "delete"},
         NEW by \in {"save", "unlock", "hold"}, Arrived(r, op, by), Consume(r),
         outbox' = outbox \/ SendFor(r, "delete", {}, "save"),
         UNCHANGED <<waitTimer, promise, control, znodes, lost, watch, cmd, seq>>
  PROVE  LifeInv'
<1>1. op \in Op
  BY DEF Op
<1>2. /\ MessageOK(ReplyOf(r)) /\ ReplyOf(r).op = op /\ ReplyOf(r).r = r /\ ReplyOf(r).by = by
  BY <1>1, Finds
<1>3. /\ Own(ReplyOf(r)) /\ promise[r] = "acquired" /\ r \notin control /\ r \notin lost
  BY <1>2 DEF MessageOK, Own, Holding
<1>4. CASE outbox' = outbox
  <2>1. PICK Q : Q = {}
    OBVIOUS
  <2>2. Emits(r, Q) /\ \A q \in Q : (Own(q) => Own(ReplyOf(r)) \/ Alone(r)) /\ MessageOK(q)
    BY <1>4, <2>1 DEF Emits
  <2> QED
    BY <1>1, <1>4, <2>2, QuietLife
<1>5. CASE SendFor(r, "delete", {}, "save")
  <2> DEFINE q == Request_("delete", r, {}, "save")
  <2>1. Emits(r, {q}) /\ q.op = "delete" /\ q.r = r /\ q.by = "save"
    BY <1>5, EmitsFor DEF Op, Caller, Request_
  <2> HIDE DEF q
  <2>2. MessageOK(q)
    BY <1>3, <2>1 DEF MessageOK, Holding
  <2> QED
    BY <1>1, <1>3, <1>5, <2>1, <2>2, QuietLife
<1> QED
  BY <1>4, <1>5

\* Every turn of a request.
LEMMA RequestNextLife ==
  ASSUME IndInv, TypeOK', LifeInv, NEW r \in Request, RequestNext(r)
  PROVE  LifeInv'
<1>1. ASSUME NEW c \in Commands, RecvLock(r, c) PROVE LifeInv'
  BY <1>1, RecvLockLife, CommandsAssumption
<1>2. CASE RecvSave(r)
  <2>1. CASE UNCHANGED <<control, outbox>>
    <3>1. UNCHANGED <<waitTimer, promise, control, znodes, lost, watch, cmd, seq, inbox, outbox>>
      BY <1>2, <2>1 DEF RecvSave, storeVars, lockVars
    <3>2. PICK Q : Q = {}
      OBVIOUS
    <3>3. Emits(r, Q) /\ \A q \in Q : (Own(q) => Alone(r)) /\ MessageOK(q)'
      BY <3>1, <3>2 DEF Emits
    <3>4. RequestOK(r)
      BY DEF LifeInv, RequestsOK
    <3> QED
      BY <3>1, <3>3, <3>4, QuietKeeps, CommandLife
  <2>2. CASE ~SaveRefused(r) /\ control' = control \ {r} /\ SendFor(r, "set", read[r] \cup {r}, "save")
    <3>1. read[r] \cup {r} \in SUBSET Request /\ r \in control
      BY <2>2 DEF IndInv, TypeOK, SaveRefused
    <3>2. UNCHANGED <<waitTimer, promise, inbox, znodes, lost, watch, seq, cmd>>
      BY <1>2 DEF RecvSave, storeVars, lockVars
    <3> QED
      BY <2>2, <3>1, <3>2, ReleaseLife
  <2> QED
    BY <1>2, <2>1, <2>2 DEF RecvSave
<1>3. CASE RecvUnlock(r)
  <2>1. CASE UNCHANGED <<control, outbox>>
    <3>1. UNCHANGED <<waitTimer, promise, control, znodes, lost, watch, cmd, seq, inbox, outbox>>
      BY <1>3, <2>1 DEF RecvUnlock, storeVars, lockVars
    <3>2. PICK Q : Q = {}
      OBVIOUS
    <3>3. Emits(r, Q) /\ \A q \in Q : (Own(q) => Alone(r)) /\ MessageOK(q)'
      BY <3>1, <3>2 DEF Emits
    <3>4. RequestOK(r)
      BY DEF LifeInv, RequestsOK
    <3> QED
      BY <3>1, <3>3, <3>4, QuietKeeps, CommandLife
  <2>2. CASE r \in control /\ control' = control \ {r} /\ SendFor(r, "delete", {}, "unlock")
    <3>1. UNCHANGED <<waitTimer, promise, inbox, znodes, lost, watch, seq, cmd>>
      BY <1>3 DEF RecvUnlock, storeVars, lockVars
    <3> QED
      BY <2>2, <3>1, ReleaseLife
  <2> QED
    BY <1>3, <2>1, <2>2 DEF RecvUnlock
<1>4. CASE LockCallback(r)
  BY <1>4, LockCallbackLife
<1>5. CASE GetReplied(r)
  BY <1>5, GetRepliedLife
<1>6. CASE SetReplied(r)
  <2>1. /\ Arrived(r, "set", "save") /\ Consume(r) /\ (outbox' = outbox \/ SendFor(r, "delete", {}, "save"))
        /\ UNCHANGED <<waitTimer, promise, control, znodes, lost, watch, cmd, seq>>
    BY <1>6 DEF SetReplied, storeVars, lockVars
  <2> QED
    BY <2>1, DoneLife
<1>7. CASE SaveUnlocked(r)
  <2>1. /\ Arrived(r, "delete", "save") /\ Consume(r) /\ outbox' = outbox
        /\ UNCHANGED <<waitTimer, promise, control, znodes, lost, watch, cmd, seq>>
    BY <1>7 DEF SaveUnlocked, storeVars, lockVars
  <2> QED
    BY <2>1, DoneLife
<1>8. CASE Unlocked(r)
  <2>1. /\ Arrived(r, "delete", "unlock") /\ Consume(r) /\ outbox' = outbox
        /\ UNCHANGED <<waitTimer, promise, control, znodes, lost, watch, cmd, seq>>
    BY <1>8 DEF Unlocked, storeVars, lockVars
  <2> QED
    BY <2>1, DoneLife
<1>9. CASE HoldUnlocked(r)
  <2>1. /\ Arrived(r, "delete", "hold") /\ Consume(r) /\ outbox' = outbox
        /\ UNCHANGED <<waitTimer, promise, control, znodes, lost, watch, cmd, seq>>
    BY <1>9 DEF HoldUnlocked, storeVars, lockVars, mgrVars
  <2> QED
    BY <2>1, DoneLife
<1>10. CASE WaitTimeout(r)
  BY <1>10, WaitTimeoutLife
<1>11. CASE HoldTimeout(r)
  <2>1. /\ r \in control /\ control' = control \ {r} /\ SendFor(r, "delete", {}, "hold")
        /\ UNCHANGED <<waitTimer, promise, inbox, znodes, lost, watch, seq, cmd>>
    BY <1>11 DEF HoldTimeout, storeVars, lockVars
  <2> QED
    BY <2>1, ReleaseLife
<1> QED
  BY <1>1, <1>2, <1>3, <1>4, <1>5, <1>6, <1>7, <1>8, <1>9, <1>10, <1>11 DEF RequestNext, ReplyCallback

-----------------------------------------------------------------------------
(* The service and the faults. *)

\* What a reply to q says of it.
LEMMA AnswerFacts ==
  ASSUME NEW q, NEW rc, NEW val
  PROVE  /\ Answer(q, rc, val).op = q.op /\ Answer(q, rc, val).r = q.r
         /\ Answer(q, rc, val).by = q.by /\ Answer(q, rc, val).rc = rc
         /\ Answer(q, rc, val).val = val
         /\ Own(Answer(q, rc, val)) <=> Own(q)
         /\ Holding(Answer(q, rc, val)) <=> Holding(q)
         /\ MessageOK(Answer(q, rc, val)) <=> MessageOK(q)
BY DEF Answer, Own, Holding, MessageOK

\* The watchers of Z are told by events of their own.
LEMMA NotifiedSets ==
  ASSUME TypeOK, AllOnce, NEW Z
  PROVE  /\ Notified(Z) \in [Server -> Seq(Message)]
         /\ \A t \in Server :
              /\ Once(Notified(Z)[t], outbox[t])
              /\ In(t) \subseteq Msgs(Notified(Z)[t])
              /\ \A m \in Msgs(Notified(Z)[t]) : m \in In(t) \/ m = WatchEvent("ok", Watchers(t, Z))
<1>1. Notified(Z) \in [Server -> Seq(Message)]
  BY NotifiedTypes DEF TypeOK
<1>2. ASSUME NEW t \in Server
      PROVE  /\ Once(Notified(Z)[t], outbox[t])
             /\ In(t) \subseteq Msgs(Notified(Z)[t])
             /\ \A m \in Msgs(Notified(Z)[t]) : m \in In(t) \/ m = WatchEvent("ok", Watchers(t, Z))
  <2> DEFINE e == WatchEvent("ok", Watchers(t, Z))
  <2>1. inbox[t] \in Seq(Message) /\ outbox[t] \in Seq(Operation) /\ Once(inbox[t], outbox[t])
    BY MsgsTyped DEF AllOnce
  <2>2. e \in Message /\ ~Own(e)
    BY DEF WatchEvent, Watchers, Message, Event, Own
  <2>3. Notified(Z)[t] = inbox[t] \/ Notified(Z)[t] = Append(inbox[t], e)
    BY DEF Notified
  <2> HIDE DEF e
  <2>4. Once(Append(inbox[t], e), outbox[t]) /\ Msgs(Append(inbox[t], e)) = Msgs(inbox[t]) \cup {e}
    BY <2>1, <2>2, OnceAppendIn, MsgsAppend, ZenonT(40)
  <2>5. Once(Notified(Z)[t], outbox[t])
    BY <2>1, <2>3, <2>4
  <2>6. Msgs(Notified(Z)[t]) = Msgs(inbox[t]) \/ Msgs(Notified(Z)[t]) = Msgs(inbox[t]) \cup {e}
    BY <2>3, <2>4
  <2> QED
    BY <2>5, <2>6 DEF In, e
<1> QED
  BY <1>1, <1>2

\* Pipes that differ from those there are by events.
AddsEvents(mid) ==
  \A t \in Server :
    /\ Once(mid[t], outbox[t])
    /\ In(t) \subseteq Msgs(mid[t])
    /\ \A m \in Msgs(mid[t]) : m \in In(t) \/ m.op = "event"

\* The answer a follows what is in "mid".
Puts(s, mid, a) == inbox' = [mid EXCEPT ![s] = Append(@, a)]

\* The service takes q off its pipe and puts the answer at the end of the
\* other, after the events in "mid".
Replaced(s, mid, q, a) ==
  /\ AllOnce' /\ q \in Out(s) /\ Out(s) = Out(s)' \cup {q} /\ a \in In(s)'
  /\ \A t \in Server : t # s => Out(t)' = Out(t)
  /\ \A t \in Server : In(t)' = Msgs(mid[t]) \cup (IF t = s THEN {a} ELSE {})
  /\ Own(q) => \A m \in All(s)' : Own(m) /\ m.r = q.r => m = a

\* So it is whatever events the operation sets off.
LEMMA ServeSets ==
  ASSUME TypeOK, AllOnce, NEW s \in Server, outbox[s] # << >>, outbox' = [outbox EXCEPT ![s] = Tail(@)],
         NEW mid \in [Server -> Seq(Message)], AddsEvents(mid),
         NEW q, q = Head(outbox[s]), NEW a \in Message, a.op = q.op, a.r = q.r, a.by = q.by,
         Puts(s, mid, a)
  PROVE  Replaced(s, mid, q, a)
<1>1. outbox[s] \in Seq(Operation) /\ mid[s] \in Seq(Message) /\ outbox \in [Server -> Seq(Operation)]
  BY DEF TypeOK, ZkTypeOK
<1>2. /\ \A t \in Server : outbox'[t] = IF t = s THEN Tail(outbox[s]) ELSE outbox[t]
      /\ \A t \in Server : inbox'[t] = IF t = s THEN Append(mid[s], a) ELSE mid[t]
  BY <1>1 DEF Puts
<1>3. /\ q \in Msgs(outbox[s]) /\ Msgs(outbox[s]) = Msgs(Tail(outbox[s])) \cup {q}
  BY <1>1, MsgsTail
<1>4. /\ Once(mid[s], Tail(outbox[s])) /\ Tail(outbox[s]) \in Seq(Operation)
      /\ Own(q) => Free(q.r, Msgs(mid[s]) \cup Msgs(Tail(outbox[s])))
  BY <1>1, OnceTailOut, TailFacts DEF AddsEvents
<1>5. Own(a) <=> Own(q)
  BY DEF Own
<1>6. Once(Append(mid[s], a), Tail(outbox[s])) /\ Msgs(Append(mid[s], a)) = Msgs(mid[s]) \cup {a}
  <2>1. Own(a) => Free(a.r, Msgs(mid[s]) \cup Msgs(Tail(outbox[s])))
    BY <1>4, <1>5
  <2>2. Once(Append(mid[s], a), Tail(outbox[s]))
    BY <1>1, <1>4, <2>1, OnceAppendIn
  <2>3. Msgs(Append(mid[s], a)) = Msgs(mid[s]) \cup {a}
    BY <1>1, MsgsAppend
  <2> QED
    BY <2>2, <2>3
<1>7. AllOnce'
  BY <1>2, <1>6 DEF AllOnce, AddsEvents
<1>8. Out(s) = Out(s)' \cup {q} /\ q \in Out(s)
  BY <1>2, <1>3 DEF Out
<1>9. ASSUME NEW t \in Server
      PROVE  /\ t # s => Out(t)' = Out(t)
             /\ In(t)' = Msgs(mid[t]) \cup (IF t = s THEN {a} ELSE {})
  BY <1>2, <1>6 DEF In, Out
<1>10. ASSUME Own(q), NEW m \in All(s)', Own(m), m.r = q.r PROVE m = a
  <2>1. m \in Msgs(mid[s]) \cup {a} \/ m \in Msgs(Tail(outbox[s]))
    BY <1>2, <1>6 DEF All, In, Out
  <2> QED
    BY <1>4, <1>10, <2>1 DEF Free
<1>11. a \in In(s)'
  BY <1>9
<1> QED
  BY <1>7, <1>8, <1>9, <1>10, <1>11 DEF Replaced

\* Only the znode that is watched or deleted may be missing.
Plain(q, rc) == rc = "nonode" => q.op \in {"exists", "delete"}

\* The reply to q, after the event if it has watchers to tell.
Answers(s, q) ==
  \E mid \in {inbox, Notified({q.r})}, rc \in {"ok", "nonode"}, val \in SUBSET Request :
    Puts(s, mid, Answer(q, rc, val)) /\ Plain(q, rc)

\* What serving has in common.
LEMMA ServeShape ==
  ASSUME TypeOK, NEW s \in Server, Serve(s), NEW q, q = Head(outbox[s])
  PROVE  /\ outbox[s] # << >> /\ outbox' = [outbox EXCEPT ![s] = Tail(@)]
         /\ q \in Operation /\ q \in Out(s)
         /\ Answers(s, q)
<1>1. outbox[s] # << >> /\ outbox' = [outbox EXCEPT ![s] = Tail(@)]
  BY DEF Serve, Serving, ServePath, ServeCreate, ServeChildren, ServeExists, ServeGet, ServeSet, ServeDelete
<1>2. q \in Operation /\ q \in Out(s)
  BY <1>1, MsgsTail, MsgsTyped DEF Out
<1>3. {} \in SUBSET Request /\ znodes \in SUBSET Request /\ data \in SUBSET Request
  BY DEF TypeOK, ZkTypeOK
<1>4. \A rc \in {"ok", "nonode"}, val \in SUBSET Request :
        Respond(s, rc, val) => Puts(s, inbox, Answer(q, rc, val))
  BY DEF Respond, Puts
<1>5. inbox' = [Notified({q.r}) EXCEPT ![s] = Append(@, Answer(q, "ok", {}))]
        => Puts(s, Notified({q.r}), Answer(q, "ok", {}))
  BY DEF Puts
<1>6. \/ \E rc \in {"ok", "nonode"}, val \in SUBSET Request : Respond(s, rc, val) /\ Plain(q, rc)
      \/ inbox' = [Notified({q.r}) EXCEPT ![s] = Append(@, Answer(q, "ok", {}))]
  BY <1>3 DEF Serve, Serving, ServePath, ServeCreate, ServeChildren, ServeExists, ServeGet, ServeSet, ServeDelete,
     Plain
<1>7. Plain(q, "ok")
  BY DEF Plain
<1>8. Answers(s, q)
  BY <1>3, <1>4, <1>5, <1>6, <1>7 DEF Answers
<1> QED
  BY <1>1, <1>2, <1>8

\* The service carried out q with the answer a: what that does to all sessions.
Served(s, q, a) ==
  /\ AllOnce' /\ q \in Out(s) /\ Out(s) = Out(s)' \cup {q} /\ a \in In(s)'
  /\ a.op = q.op /\ a.r = q.r /\ a.by = q.by /\ Grows({a})
  /\ a.rc # "fail" /\ Plain(a, a.rc)
  /\ \A t \in Server :
       /\ t # s => Out(t)' = Out(t)
       /\ In(t) \subseteq In(t)'
       /\ \A m \in In(t)' : m \in In(t) \/ m = a \/ m.op = "event"
       /\ \A m \in In(t)' : m.op = "event" =>
            m \in In(t) \/ m = WatchEvent("ok", Watchers(t, {q.r}))
  /\ Own(q) => \A m \in All(s)' : Own(m) /\ m.r = q.r => m = a

\* What serving makes of the pipes: the answer a to q, and perhaps events.
LEMMA ServedSets ==
  ASSUME TypeOK, AllOnce, NEW s \in Server, Serve(s), NEW q, q = Head(outbox[s])
  PROVE  \E a \in Reply : Served(s, q, a)
<1>1. /\ outbox[s] # << >> /\ outbox' = [outbox EXCEPT ![s] = Tail(@)]
      /\ q \in Operation /\ q \in Out(s) /\ Answers(s, q)
  BY ServeShape
<1>2. PICK mid \in {inbox, Notified({q.r})}, rc \in {"ok", "nonode"}, val \in SUBSET Request :
             Puts(s, mid, Answer(q, rc, val)) /\ Plain(q, rc)
  BY <1>1 DEF Answers
<1>3. PICK a : a = Answer(q, rc, val)
  OBVIOUS
<1>4. a \in Reply /\ a \in Message /\ a.op = q.op /\ a.r = q.r /\ a.by = q.by /\ a.op # "event"
  BY <1>1, <1>3, AnswerTypes, AnswerFacts
<1>5. /\ mid \in [Server -> Seq(Message)]
      /\ \A t \in Server : Once(mid[t], outbox[t])
      /\ \A t \in Server : In(t) \subseteq Msgs(mid[t])
      /\ \A t \in Server : \A m \in Msgs(mid[t]) : m \in In(t) \/ m = WatchEvent("ok", Watchers(t, {q.r}))
  <2>1. CASE mid = inbox
    BY <2>1 DEF TypeOK, ZkTypeOK, Message, AllOnce, In
  <2>2. CASE mid = Notified({q.r})
    BY <2>2, NotifiedSets
  <2> QED
    BY <2>1, <2>2
<1>6. \A t \in Server : \A m \in Msgs(mid[t]) : m \in In(t) \/ m.op = "event"
  BY <1>5 DEF WatchEvent
<1>7. AddsEvents(mid)
  BY <1>5, <1>6 DEF AddsEvents
<1>8. Puts(s, mid, a)
  BY <1>2, <1>3
<1>9. Replaced(s, mid, q, a)
  BY <1>1, <1>4, <1>7, <1>5, <1>8, ServeSets
<1>10. /\ AllOnce' /\ q \in Out(s) /\ Out(s) = Out(s)' \cup {q} /\ a \in In(s)'
       /\ \A t \in Server : t # s => Out(t)' = Out(t)
       /\ \A t \in Server : In(t)' = Msgs(mid[t]) \cup (IF t = s THEN {a} ELSE {})
       /\ Own(q) => \A m \in All(s)' : Own(m) /\ m.r = q.r => m = a
  BY <1>9 DEF Replaced
<1>11. ASSUME NEW t \in Server
       PROVE  /\ In(t) \subseteq In(t)'
              /\ \A m \in In(t)' : m \in Msgs(mid[t]) \/ m = a
  BY <1>5, <1>10
<1>12. ASSUME NEW t \in Server
       PROVE  /\ \A m \in In(t)' : m \in In(t) \/ m = a \/ m.op = "event"
              /\ \A m \in In(t)' : m.op = "event" =>
                   m \in In(t) \/ m = WatchEvent("ok", Watchers(t, {q.r}))
  BY <1>4, <1>5, <1>6, <1>11
<1>13. Grows({a})
  <2> SUFFICES ASSUME NEW t \in Server, NEW m \in All(t)', m.op # "event"
               PROVE  m \in All(t) \/ m = a
    BY DEF Grows
  <2>1. CASE m \in In(t)'
    BY <1>12, <2>1 DEF All
  <2>2. CASE m \in Out(t)'
    BY <1>10, <2>2 DEF All
  <2> QED
    BY <2>1, <2>2 DEF All
<1>14. a.rc # "fail" /\ Plain(a, a.rc)
  BY <1>2, <1>3, <1>4, AnswerFacts DEF Plain
<1>15. Served(s, q, a)
  BY <1>4, <1>10, <1>11, <1>12, <1>13, <1>14 DEF Served
<1> QED
  BY <1>4, <1>15

\* Whoever watches gets an event that is kept.
LEMMA WatchersOK ==
  ASSUME LifeInv, NEW s \in Server, NEW Z, UNCHANGED lost, \A r \in Request : Waited(r) => Waited(r)',
         NEW e, e = WatchEvent("ok", Watchers(s, Z))
  PROVE  EventOK(s, e)'
BY DEF EventOK, WatchEvent, Watchers, LifeInv, RequestsOK, RequestOK

\* Every operation the service carries out.
LEMMA ServeLife ==
  ASSUME IndInv, TypeOK', LifeInv, NEW s \in Server, ZkServe(s)
  PROVE  LifeInv'
<1>1. Serve(s) /\ UNCHANGED <<cmd, promise, waitTimer, control, lost>>
  BY DEF ZkServe, lockVars, mgrVars
<1>2. PICK q : q = Head(outbox[s])
  OBVIOUS
<1>3. PICK a \in Reply : Served(s, q, a)
  BY <1>1, <1>2, ServedSets DEF IndInv, LifeInv
<1>4. /\ AllOnce' /\ q \in Out(s) /\ Out(s) = Out(s)' \cup {q} /\ a \in In(s)'
      /\ a.op = q.op /\ a.r = q.r /\ a.by = q.by /\ Grows({a})
      /\ \A t \in Server : \A m \in In(t)' : m.op = "event" =>
           m \in In(t) \/ m = WatchEvent("ok", Watchers(t, {q.r}))
      /\ Own(q) => \A m \in All(s)' : Own(m) /\ m.r = q.r => m = a
  BY <1>3 DEF Served
<1>5. /\ q \in Operation /\ q.op # "event" /\ q \in All(s) /\ q.r \in Request
      /\ MessageOK(q) /\ ServerOf[q.r] = s /\ RequestOK(q.r) /\ cmd[q.r] # "none"
  <2>1. q \in Operation /\ q \in All(s)
    BY <1>4, MsgsTyped DEF All, IndInv
  <2>2. q.op # "event" /\ q.r \in Request
    BY <2>1 DEF Operation, Op
  <2> QED
    BY <2>1, <2>2, Homes DEF IndInv, LifeInv, MessagesOK, RequestsOK
<1>6. \A x \in Request : Waited(x) => Waited(x)'
  BY <1>1 DEF Waited
<1>7. \A x \in Request : x # q.r => SameRequest(x)
  <2> SUFFICES ASSUME NEW x \in Request, x # q.r PROVE SameRequest(x)
    OBVIOUS
  <2>1. (x \in znodes' <=> x \in znodes) /\ seq'[x] = seq[x] /\ watch'[x] \in {watch[x], {}}
    BY <1>1, <1>2, <1>5 DEF Serve, Serving, ServePath, ServeCreate, ServeChildren, ServeExists, ServeGet,
       ServeSet, ServeDelete, FireWatches, storeVars, IndInv, TypeOK, ZkTypeOK
  <2> QED
    BY <1>1, <2>1 DEF SameRequest, Same
<1>8. q.op = "delete" \/ znodes \subseteq znodes'
  BY <1>1, <1>2 DEF Serve, Serving, ServePath, ServeCreate, ServeChildren, ServeExists, ServeGet,
     ServeSet, ServeDelete, storeVars
<1>9. MessageOK(a)'
  <2>1. MessageOK(a)
    BY <1>4, <1>5 DEF MessageOK, Holding
  <2>2. a.op = "delete" \/ (InPlace(a.r) => InPlace(a.r)')
    BY <1>1, <1>4, <1>8 DEF InPlace
  <2> QED
    BY <1>1, <2>1, <2>2 DEF MessageOK, Waited, Holding
<1>10. q.op = "delete" => waitTimer[q.r] = "fired" \/ (Own(q) /\ promise[q.r] = "acquired" /\ q.r \notin control)
  BY <1>5 DEF MessageOK, Holding, Own
<1>11. ASSUME NEW t \in Server, NEW m \in All(t), m \in All(t)', m.op # "event", m.r = q.r
       PROVE  MessageOK(m)'
  <2>1. MessageOK(m) /\ t = s
    BY <1>5, <1>11, Homes DEF LifeInv, MessagesOK, IndInv
  <2>2. CASE m = a
    BY <1>9, <2>2
  <2>3. CASE m # a /\ m.op \in {"get", "set"}
    <3>1. InPlace(m.r) => InPlace(m.r)'
      BY <1>1, <1>4, <1>8, <1>10, <1>11, <2>1, <2>3 DEF InPlace, Own
    <3> QED
      BY <1>1, <2>1, <3>1 DEF MessageOK, Waited, Holding
  <2>4. CASE m.op \notin {"get", "set"}
    BY <1>1, <2>1, <2>4 DEF MessageOK, Waited, Holding
  <2> QED
    BY <2>2, <2>3, <2>4
<1>12. RequestOK(q.r)'
  <2>1. watch'[q.r] # {} => Waited(q.r) /\ q.r \notin lost
    <3>1. watch'[q.r] \in {watch[q.r], {}} \/ q.op = "exists"
      BY <1>1, <1>2, <1>5 DEF Serve, Serving, ServePath, ServeCreate, ServeChildren, ServeExists, ServeGet,
         ServeSet, ServeDelete, FireWatches, storeVars, IndInv, TypeOK, ZkTypeOK
    <3> QED
      BY <1>5, <3>1 DEF RequestOK, MessageOK
  <2>2. seq'[q.r] = seq[q.r] \/ q.r \in znodes'
    BY <1>1, <1>2, <1>5 DEF Serve, Serving, ServePath, ServeCreate, ServeChildren, ServeExists, ServeGet,
         ServeSet, ServeDelete, storeVars
  <2>3. InPlace(q.r) => InPlace(q.r)' \/ (promise[q.r] = "acquired" /\ q.r \notin control)
    BY <1>1, <1>8, <1>10 DEF InPlace
  <2> QED
    BY <1>1, <1>5, <2>1, <2>2, <2>3 DEF RequestOK, Waited, Numbered, InPlace
<1>13. ASSUME NEW t \in Server, NEW m \in In(t)', m.op = "event" PROVE EventOK(t, m)'
  <2>1. CASE m \in In(t)
    <3>1. EventOK(t, m)
      BY <1>13, <2>1 DEF LifeInv, MessagesOK
    <3> QED
      BY <1>1, <3>1 DEF EventOK, Waited
  <2>2. CASE m = WatchEvent("ok", Watchers(t, {q.r}))
    BY <1>1, <1>6, <2>2, WatchersOK
  <2> QED
    BY <1>4, <1>5, <1>13, <2>1, <2>2
<1>14. MessagesOK' /\ RequestsOK'
  <2>1. \A m \in {a} : m.r = q.r /\ MessageOK(m)'
    BY <1>4, <1>9
  <2> QED
    BY <1>4, <1>5, <1>7, <1>11, <1>12, <1>13, <2>1, TurnFrame DEF LifeInv
<1> QED
  BY <1>4, <1>14 DEF LifeInv

-----------------------------------------------------------------------------
(* A lost connection. *)

\* m is the message y, or the failure a client is told of in its place.
Echoes(m, y) ==
  /\ m.op = y.op
  /\ y.op # "event" => m.r = y.r /\ m.by = y.by
  /\ y.op = "event" => m.val = y.val
  /\ (m = y /\ m \in Message) \/ m.rc = "fail"

\* The failure of y says of which operation it is.
LEMMA FailedEchoes ==
  ASSUME NEW y \in Message \cup Operation
  PROVE  Echoes(Failed(y), y)
<1>1. Failed(y).rc = "fail"
  BY FailedTypes
<1>2. CASE y.op = "event"
  BY <1>1, <1>2 DEF Echoes, Failed, WatchEvent
<1>3. CASE y.op # "event"
  BY <1>1, <1>3 DEF Echoes, Failed, Answer
<1> QED
  BY <1>2, <1>3

\* It counts for the same request.
LEMMA EchoesOwn ==
  ASSUME NEW m, NEW y, Echoes(m, y)
  PROVE  (Own(m) <=> Own(y)) /\ (Own(m) => m.r = y.r)
BY DEF Echoes, Own

\* The replies and the failures after a lost connection.
LEMMA OnceFailed ==
  ASSUME NEW in \in Seq(Message), NEW out \in Seq(Operation), Once(in, out),
         NEW n \in Nat, n = Len(in), NEW m \in Nat, m = Len(out),
         NEW k \in 0..n, NEW new \in Seq(Message), Len(new) = n + m,
         \A i \in 1..(n + m) :
           new[i] = IF i <= k THEN in[i]
                    ELSE Failed(IF i <= n THEN in[i] ELSE out[i - n])
  PROVE  /\ Once(new, << >>)
         /\ \A x \in Msgs(new) : \E y \in Msgs(in) \cup Msgs(out) : Echoes(x, y)
<1>1. \A i \in 1..n : in[i] \in Message
  OBVIOUS
<1>2. \A i \in 1..m : out[i] \in Operation
  OBVIOUS
<1>3. ASSUME NEW i \in 1..(n + m), i <= n
      PROVE  i \in 1..n /\ Echoes(new[i], in[i])
  <2>1. i \in 1..n /\ in[i] \in Message
    BY <1>1, <1>3
  <2>2. new[i] = in[i] \/ new[i] = Failed(in[i])
    BY <1>3
  <2>3. Echoes(in[i], in[i])
    BY <2>1 DEF Echoes
  <2> QED
    BY <2>1, <2>2, <2>3, FailedEchoes
<1>4. ASSUME NEW i \in 1..(n + m), ~(i <= n)
      PROVE  i - n \in 1..m /\ Echoes(new[i], out[i - n])
  <2>1. i - n \in 1..m /\ ~(i <= k)
    BY <1>4
  <2>2. new[i] = Failed(out[i - n]) /\ out[i - n] \in Operation
    BY <1>2, <1>4, <2>1
  <2> QED
    BY <2>1, <2>2, FailedEchoes
<1>5. ASSUME NEW i \in 1..Len(new), NEW j \in 1..Len(new),
             Own(new[i]), Own(new[j]), new[i].r = new[j].r
      PROVE  i = j
  <2>1. CASE i <= n /\ j <= n
    <3>1. /\ i \in 1..Len(in) /\ j \in 1..Len(in)
          /\ Own(in[i]) /\ Own(in[j]) /\ in[i].r = in[j].r
      BY <1>3, <1>5, <2>1, EchoesOwn
    <3> QED
      BY <3>1 DEF Once
  <2>2. CASE ~(i <= n) /\ ~(j <= n)
    <3>1. /\ i - n \in 1..Len(out) /\ j - n \in 1..Len(out)
          /\ Own(out[i - n]) /\ Own(out[j - n]) /\ out[i - n].r = out[j - n].r
      BY <1>4, <1>5, <2>2, EchoesOwn
    <3>2. i - n = j - n
      BY <3>1 DEF Once
    <3> QED
      BY <3>2
  <2>3. CASE i <= n /\ ~(j <= n)
    <3>1. /\ i \in 1..Len(in) /\ j - n \in 1..Len(out)
          /\ Own(in[i]) /\ Own(out[j - n]) /\ in[i].r = out[j - n].r
      BY <1>3, <1>4, <1>5, <2>3, EchoesOwn
    <3> QED
      BY <3>1 DEF Once
  <2>4. CASE j <= n /\ ~(i <= n)
    <3>1. /\ j \in 1..Len(in) /\ i - n \in 1..Len(out)
          /\ Own(in[j]) /\ Own(out[i - n]) /\ in[j].r = out[i - n].r
      BY <1>3, <1>4, <1>5, <2>4, EchoesOwn
    <3> QED
      BY <3>1 DEF Once
  <2> QED
    BY <2>1, <2>2, <2>3, <2>4
<1>6. Once(new, << >>)
  BY <1>5 DEF Once
<1>7. ASSUME NEW x \in Msgs(new) PROVE \E y \in Msgs(in) \cup Msgs(out) : Echoes(x, y)
  <2>1. PICK i \in 1..(n + m) : x = new[i]
    BY DEF Msgs
  <2>2. CASE i <= n
    <3>1. in[i] \in Msgs(in) /\ Echoes(x, in[i])
      BY <1>3, <2>1, <2>2 DEF Msgs
    <3> QED
      BY <3>1
  <2>3. CASE ~(i <= n)
    <3>1. out[i - n] \in Msgs(out) /\ Echoes(x, out[i - n])
      BY <1>4, <2>1, <2>3 DEF Msgs
    <3> QED
      BY <3>1
  <2> QED
    BY <2>2, <2>3
<1> QED
  BY <1>6, <1>7

\* The requests of s that watch a znode.
Waiting(s) == {r \in Request : ServerOf[r] = s /\ watch[r] # {}}

\* The connection of s is lost: its outbox is empty and all its operations, and its
\* watches, fail.
Cut(s) ==
  /\ AllOnce' /\ Out(s)' = {}
  /\ \A t \in Server : t # s => In(t)' = In(t) /\ Out(t)' = Out(t)
  /\ \A x \in In(s)' : (\E y \in All(s) : Echoes(x, y)) \/ x = WatchEvent("fail", Waiting(s))

\* A disconnect cuts the session and nothing else.
LEMMA DisconnectSets ==
  ASSUME TypeOK, AllOnce, NEW s \in Server, Disconnect(s)
  PROVE  Cut(s)
<1>1. PICK in \in Seq(Message), out \in Seq(Operation) : in = inbox[s] /\ out = outbox[s]
  BY DEF TypeOK, ZkTypeOK, Message
<1>2. Once(in, out)
  BY <1>1 DEF AllOnce
<1>3. PICK n \in Nat, m \in Nat : n = Len(in) /\ m = Len(out)
  OBVIOUS
<1> DEFINE waiting == {r \in Request : ServerOf[r] = s /\ watch[r] # {}}
           Replies(k) == [i \in 1..(n + m) |->
             IF i <= k THEN in[i] ELSE Failed(IF i <= n THEN in[i] ELSE out[i - n])]
<1>4. PICK k \in 0..n :
        inbox' = [inbox EXCEPT ![s] =
                    IF waiting = {} THEN Replies(k)
                    ELSE Append(Replies(k), WatchEvent("fail", waiting))]
  <2>1. n = Len(inbox[s]) /\ m = Len(outbox[s]) /\ inbox[s] = in /\ outbox[s] = out
    BY <1>1, <1>3
  <2>2. \E k \in 0..n :
          LET replies == [i \in 1..(n + m) |->
                 IF i <= k THEN in[i] ELSE Failed(IF i <= n THEN in[i] ELSE out[i - n])]
          IN inbox' = [inbox EXCEPT ![s] =
                         IF waiting = {} THEN replies
                         ELSE Append(replies, WatchEvent("fail", waiting))]
    BY <2>1, Zenon DEF Disconnect
  <2> QED
    BY <2>2, Zenon
<1>5. ASSUME NEW i \in 1..(n + m)
      PROVE  Replies(k)[i] \in Message
  <2>1. CASE i <= n
    <3>1. in[i] \in Message
      BY <1>3, <2>1
    <3> QED
      BY <2>1, <3>1, FailedTypes
  <2>2. CASE ~(i <= n)
    <3>1. i - n \in 1..m /\ ~(i <= k)
      BY <2>2
    <3>2. out[i - n] \in Operation
      BY <1>3, <3>1
    <3> QED
      BY <2>2, <3>1, <3>2, FailedTypes
  <2> QED
    BY <2>1, <2>2
<1>6. PICK new : new = Replies(k)
  OBVIOUS
<1>7. new \in Seq(Message) /\ Len(new) = n + m
  <2>1. n + m \in Nat /\ new \in [1..(n + m) -> Message]
    BY <1>5, <1>6
  <2> QED
    BY <2>1, SeqOfFcn
<1>8. /\ Once(new, << >>)
      /\ \A x \in Msgs(new) : \E y \in Msgs(in) \cup Msgs(out) : Echoes(x, y)
  <2>1. \A i \in 1..(n + m) :
          new[i] = IF i <= k THEN in[i]
                   ELSE Failed(IF i <= n THEN in[i] ELSE out[i - n])
    BY <1>6
  <2> HIDE DEF Replies
  <2> QED
    BY <1>2, <1>3, <1>7, <2>1, OnceFailed, ZenonT(30)
<1>9. PICK e : e = WatchEvent("fail", waiting)
  OBVIOUS
<1>10. e \in Message /\ ~Own(e) /\ e = WatchEvent("fail", Waiting(s))
  BY <1>9 DEF WatchEvent, Message, Event, Own, Waiting
<1>11. << >> \in Seq(Operation)
  OBVIOUS
<1>12. /\ Once(Append(new, e), << >>) /\ Msgs(Append(new, e)) = Msgs(new) \cup {e}
  BY <1>7, <1>8, <1>10, <1>11, OnceAppendIn, MsgsAppend, ZenonT(40)
<1> HIDE DEF Replies
<1>13. /\ inbox' = [inbox EXCEPT ![s] = IF waiting = {} THEN new ELSE Append(new, e)]
       /\ outbox' = [outbox EXCEPT ![s] = << >>]
  BY <1>4, <1>6, <1>9 DEF Disconnect
<1>14. \A t \in Server :
         /\ inbox'[t] = IF t # s THEN inbox[t] ELSE IF waiting = {} THEN new ELSE Append(new, e)
         /\ outbox'[t] = IF t # s THEN outbox[t] ELSE << >>
  BY <1>13 DEF TypeOK, ZkTypeOK
<1>15. AllOnce'
  BY <1>8, <1>12, <1>14 DEF AllOnce
<1>16. Out(s)' = {} /\ \A t \in Server : t # s => In(t)' = In(t) /\ Out(t)' = Out(t)
  BY <1>14, MsgsEmpty DEF In, Out
<1>17. In(s)' \subseteq Msgs(new) \cup {e}
  BY <1>12, <1>14 DEF In
<1>18. All(s) = Msgs(in) \cup Msgs(out)
  BY <1>1 DEF All, In, Out
<1> QED
  BY <1>8, <1>10, <1>15, <1>16, <1>17, <1>18 DEF Cut

\* What is known from an operation is known from its failure.
LEMMA EchoesOK ==
  ASSUME NEW y, NEW m, Echoes(m, y), m.op # "event", MessageOK(y)
  PROVE  MessageOK(m)
BY DEF Echoes, MessageOK, Holding

\* A step that leaves the request variables alone leaves that alone, too.
LEMMA QuietMessage ==
  ASSUME NEW m, MessageOK(m), UNCHANGED <<waitTimer, promise, control, znodes, lost>>
  PROVE  MessageOK(m)'
BY DEF MessageOK, Waited, InPlace, Holding

\* So it does for events.
LEMMA QuietEvent ==
  ASSUME NEW s, NEW m, EventOK(s, m), UNCHANGED <<waitTimer, promise, lost>>
  PROVE  EventOK(s, m)'
BY DEF EventOK, Waited

\* A disconnect leaves the life of every request in order.
LEMMA DisconnectLife ==
  ASSUME IndInv, TypeOK', LifeInv, NEW s \in Server, ZkDisconnect(s)
  PROVE  LifeInv'
<1>1. /\ Disconnect(s) /\ UNCHANGED <<waitTimer, promise, control, znodes, lost, cmd, seq>>
      /\ \A x \in Request : watch'[x] \in {watch[x], {}}
  BY DEF ZkDisconnect, Disconnect, lockVars, mgrVars
<1>2. Cut(s)
  BY <1>1, DisconnectSets DEF IndInv, LifeInv
<1>3. RequestsOK'
  <2>1. \A x \in Request : SameRequest(x)
    BY <1>1 DEF SameRequest, Same
  <2> QED
    BY <2>1, RequestFrame DEF RequestsOK, LifeInv
<1>4. ASSUME NEW t \in Server, NEW m \in All(t)', m.op # "event" PROVE MessageOK(m)'
  <2>1. CASE t # s
    <3>1. m \in All(t)
      BY <1>2, <2>1 DEF Cut, All
    <3>2. MessageOK(m)
      BY <1>4, <3>1 DEF LifeInv, MessagesOK
    <3> QED
      BY <1>1, <3>2, QuietMessage
  <2>2. CASE t = s
    <3>1. m \in In(s)'
      BY <1>2, <2>2 DEF Cut, All
    <3>2. PICK y \in All(s) : Echoes(m, y)
      BY <1>2, <1>4, <3>1 DEF Cut, WatchEvent
    <3>3. MessageOK(y)
      BY <1>4, <3>2 DEF LifeInv, MessagesOK, Echoes
    <3>4. MessageOK(m)
      BY <1>4, <3>2, <3>3, EchoesOK
    <3> QED
      BY <1>1, <3>4, QuietMessage
  <2> QED
    BY <2>1, <2>2
<1>5. ASSUME NEW t \in Server, NEW m \in In(t)', m.op = "event" PROVE EventOK(t, m)'
  <2>1. CASE m \in In(t)
    BY <1>1, <1>5, <2>1, QuietEvent DEF LifeInv, MessagesOK
  <2>2. CASE t = s /\ m = WatchEvent("fail", Waiting(s))
    <3>1. EventOK(t, m)
      BY <2>2 DEF EventOK, WatchEvent, Waiting, LifeInv, RequestsOK, RequestOK
    <3> QED
      BY <1>1, <3>1, QuietEvent
  <2>3. CASE t = s /\ \E y \in All(s) : Echoes(m, y)
    <3>1. PICK y \in All(s) : Echoes(m, y)
      BY <2>3
    <3>2. y.op = "event" /\ m.val = y.val
      BY <1>5, <3>1 DEF Echoes
    <3>3. y \in In(s)
      BY <3>1, <3>2, MsgsTyped DEF All, Operation, Op, IndInv
    <3>4. EventOK(t, m)
      BY <2>3, <3>2, <3>3 DEF EventOK, LifeInv, MessagesOK
    <3> QED
      BY <1>1, <3>4, QuietEvent
  <2> QED
    BY <1>2, <1>5, <2>1, <2>2, <2>3 DEF Cut
<1> QED
  BY <1>2, <1>3, <1>4, <1>5 DEF LifeInv, MessagesOK, Cut

\* A crash: nothing is left of the requests of s.
LEMMA CrashLife ==
  ASSUME IndInv, TypeOK', LifeInv, NEW s \in Server, Crash(s)
  PROVE  LifeInv'
<1>1. /\ Abandon(s) /\ UNCHANGED <<cmd, promise, znodes, seq>>
      /\ lost' = lost \cup {r \in Request : ServerOf[r] = s /\ cmd[r] # "none"}
      /\ control' = {r \in control : ServerOf[r] # s}
      /\ waitTimer' = [r \in Request |->
           IF ServerOf[r] = s /\ waitTimer[r] = "armed" THEN "off" ELSE waitTimer[r]]
      /\ watch' = [r \in Request |-> IF ServerOf[r] = s THEN {} ELSE watch[r]]
  BY DEF Crash, Abandon
<1>2. \A t \in Server : /\ inbox'[t] = IF t = s THEN << >> ELSE inbox[t]
                        /\ outbox'[t] = IF t = s THEN << >> ELSE outbox[t]
  BY <1>1 DEF Abandon, IndInv, TypeOK, ZkTypeOK
<1>3. AllOnce'
  <2>1. Once(<< >>, << >>)
    BY DEF Once
  <2> QED
    BY <1>2, <2>1 DEF AllOnce, LifeInv
<1>4. /\ In(s)' = {} /\ Out(s)' = {}
      /\ \A t \in Server : t # s => In(t)' = In(t) /\ Out(t)' = Out(t)
  BY <1>2, MsgsEmpty DEF In, Out
<1>5. \A x \in Request : ServerOf[x] # s => SameRequest(x)
  BY <1>1 DEF SameRequest, Same
<1>6. ASSUME NEW t \in Server, NEW m \in All(t)', m.op # "event" PROVE MessageOK(m)'
  <2>1. t # s /\ m \in All(t)
    BY <1>4 DEF All
  <2>2. m.r \in Request /\ ServerOf[m.r] = t /\ MessageOK(m)
    BY <1>6, <2>1, Homes DEF IndInv, LifeInv, MessagesOK
  <2> QED
    BY <1>5, <2>1, <2>2, MessageFrame DEF SameRequest
<1>7. ASSUME NEW t \in Server, NEW m \in In(t)', m.op = "event" PROVE EventOK(t, m)'
  <2>1. t # s /\ m \in In(t)
    BY <1>4
  <2>2. EventOK(t, m) /\ m \in Message
    BY <1>7, <2>1, MsgsTyped DEF IndInv, LifeInv, MessagesOK
  <2>3. m.val \subseteq Request
    BY <1>7, <2>2 DEF Message, Reply, Event, Op
  <2> QED
    BY <1>5, <2>1, <2>2, <2>3 DEF EventOK, SameRequest, Same, Waited
<1>8. ASSUME NEW r \in Request PROVE RequestOK(r)'
  <2>1. CASE ServerOf[r] # s
    BY <1>5, <2>1, RequestFrame DEF LifeInv, RequestsOK
  <2>2. CASE ServerOf[r] = s
    <3>1. Numbered(r) => cmd[r] # "none"
      BY DEF IndInv, NumbersInOrder
    <3>2. RequestOK(r)
      BY DEF LifeInv, RequestsOK
    <3>3. waitTimer'[r] # "armed" /\ watch'[r] = {} /\ r \notin control'
      BY <1>1, <2>2
    <3>4. (cmd[r] # "none" => r \in lost') /\ (r \in lost' => r \in lost \/ cmd[r] # "none")
      BY <1>1, <2>2
    <3>5. waitTimer[r] = "off" => waitTimer'[r] = "off"
      BY <1>1
    <3> QED
      BY <1>1, <3>1, <3>2, <3>3, <3>4, <3>5 DEF RequestOK, Numbered
  <2> QED
    BY <2>1, <2>2
<1> QED
  BY <1>3, <1>6, <1>7, <1>8 DEF LifeInv, MessagesOK, RequestsOK

\* The end of a session: its requests were lost before.
LEMMA SessionExpiresLife ==
  ASSUME IndInv, TypeOK', LifeInv, NEW s \in Server, SessionExpires(s)
  PROVE  LifeInv'
<1>1. PICK Z : Z = {z \in znodes \cap lost : ServerOf[z] = s}
  OBVIOUS
<1>2. /\ Z \subseteq lost /\ znodes' = znodes \ Z /\ inbox' = Notified(Z) /\ FireWatches(Z)
      /\ UNCHANGED <<seq, outbox, cmd, waitTimer, promise, control, lost>>
  BY <1>1 DEF SessionExpires, RemoveEphemerals, lockVars, mgrVars
<1>3. \A t \in Server :
        /\ Once(Notified(Z)[t], outbox[t])
        /\ \A m \in Msgs(Notified(Z)[t]) : m \in In(t) \/ m = WatchEvent("ok", Watchers(t, Z))
  BY NotifiedSets DEF IndInv, LifeInv
<1>4. AllOnce'
  BY <1>2, <1>3 DEF AllOnce
<1>5. \A t \in Server : /\ Out(t)' = Out(t)
                        /\ \A m \in In(t)' : m \in In(t) \/ m = WatchEvent("ok", Watchers(t, Z))
  BY <1>2, <1>3 DEF In, Out
<1>6. \A r : r \notin lost => (InPlace(r) => InPlace(r)')
  BY <1>2 DEF InPlace
<1>7. ASSUME NEW t \in Server, NEW m \in All(t)', m.op # "event" PROVE MessageOK(m)'
  <2>1. m \in All(t)
    BY <1>5, <1>7 DEF All, WatchEvent
  <2>2. MessageOK(m)
    BY <1>7, <2>1 DEF LifeInv, MessagesOK
  <2> QED
    BY <1>2, <1>6, <2>2 DEF MessageOK, Waited, Holding
<1>8. ASSUME NEW t \in Server, NEW m \in In(t)', m.op = "event" PROVE EventOK(t, m)'
  <2>1. CASE m \in In(t)
    BY <1>2, <1>8, <2>1, QuietEvent DEF LifeInv, MessagesOK
  <2>2. CASE m = WatchEvent("ok", Watchers(t, Z))
    <3>1. \A r \in Request : Waited(r) => Waited(r)'
      BY <1>2 DEF Waited
    <3> QED
      BY <1>2, <2>2, <3>1, WatchersOK
  <2> QED
    BY <1>5, <2>1, <2>2
<1>9. ASSUME NEW r \in Request PROVE RequestOK(r)'
  <2>1. RequestOK(r)
    BY DEF LifeInv, RequestsOK
  <2>2. watch'[r] # {} => watch[r] # {}
    BY <1>2 DEF FireWatches
  <2> QED
    BY <1>2, <1>6, <2>1, <2>2 DEF RequestOK, Waited, Numbered
<1> QED
  BY <1>4, <1>7, <1>8, <1>9 DEF LifeInv, MessagesOK, RequestsOK

-----------------------------------------------------------------------------
(* The life of a request. *)

\* A step that changes nothing.
LEMMA StutterLife ==
  ASSUME LifeInv, UNCHANGED vars
  PROVE  LifeInv'
<1>1. UNCHANGED <<znodes, seq, watch, inbox, outbox, cmd, promise, waitTimer, control, lost>>
  BY DEF vars, zkVars, storeVars, lockVars, mgrVars
<1>2. AllOnce'
  BY <1>1 DEF AllOnce, LifeInv
<1>3. \A t \in Server : In(t)' = In(t) /\ All(t)' = All(t)
  BY <1>1 DEF All, In, Out
<1>4. MessagesOK'
  BY <1>1, <1>3, QuietMessage, QuietEvent DEF MessagesOK, LifeInv
<1>5. RequestsOK'
  BY <1>1, RequestFrame DEF RequestsOK, SameRequest, Same, LifeInv
<1> QED
  BY <1>2, <1>4, <1>5 DEF LifeInv

\* Every step.
LEMMA LifeStep ==
  ASSUME IndInv, IndInv', LifeInv, [Next]_vars
  PROVE  LifeInv'
<1>1. TypeOK'
  BY DEF IndInv
<1>2. CASE UNCHANGED vars
  BY <1>2, StutterLife
<1>3. ASSUME NEW r \in Request, RequestNext(r) PROVE LifeInv'
  BY <1>1, <1>3, RequestNextLife
<1>4. ASSUME NEW s \in Server, ServerNext(s) PROVE LifeInv'
  BY <1>1, <1>4, ServeLife, DisconnectLife, CrashLife, SessionExpiresLife DEF ServerNext
<1> QED
  BY <1>2, <1>3, <1>4 DEF Next

\* At the start nothing is under way.
LEMMA LifeInit ==
  ASSUME Init
  PROVE  LifeInv
<1>1. AllOnce
  BY DEF Init, ZkInit, AllOnce, Once
<1>2. \A s \in Server : In(s) = {} /\ All(s) = {}
  BY MsgsEmpty DEF Init, ZkInit, In, Out, All
<1>3. RequestsOK
  BY DEF Init, ZkInit, LockInit, RequestsOK, RequestOK, Numbered
<1> QED
  BY <1>1, <1>2, <1>3 DEF LifeInv, MessagesOK

\* The operations of a request follow each other as the code sends them,
\* whatever the other requests, the timers, the connections and the crashes do.
THEOREM Lives == Spec => []LifeInv
<1>1. Init => LifeInv
  BY LifeInit
<1>2. IndInv /\ IndInv' /\ LifeInv /\ [Next]_vars => LifeInv'
  BY LifeStep
<1> QED
  BY <1>1, <1>2, Inductive, PTL DEF Spec

\* An entry that save_and_unlock trusts has its znode, unless the grant raced
\* with the wait timer: no command, hold timer, failure or end of a session
\* takes the znode from under it.
THEOREM EntriesHaveZnodes == Spec => []EntryHasZnode
<1>1. IndInv /\ LifeInv => EntryHasZnode
  BY DEF EntryHasZnode, LifeInv, RequestsOK, RequestOK, InPlace, LateGrant, IndInv, TypeOK
<1> QED
  BY <1>1, Inductive, Lives, PTL

-----------------------------------------------------------------------------
(***************************************************************************)
(* The content of the context: what a client was sent is current as long   *)
(* as it has its entry, and what it was told is saved stays saved.  Both   *)
(* assume what the code needs for them: that nobody wins the race between  *)
(* the listing and the wait timer, and that nobody has znode number 0.     *)
(*                                                                         *)
(* Then two results on the lock as a whole.  As long as no connection is   *)
(* lost, every lock znode has somebody left to give it back; and the       *)
(* context managers, as long as nobody runs out of patience and the        *)
(* directory is not new, implement the read/write lock.                    *)
(***************************************************************************)

\* What a reply says of the content.
ReplySays(m) ==
  /\ m.op = "get" /\ m.rc = "ok" => m.val = data
  /\ m.op = "set" /\ m.rc = "ok" => m.r \in data
  /\ m.op = "delete" /\ m.by = "save" => m.r \in data

\* What an operation says of it.
OperationSays(m) ==
  /\ m.op = "set" => m.arg = data \cup {m.r}
  /\ m.op = "delete" /\ m.by = "save" => m.r \in data

\* Only requests with a write lock set the content.
SetsByWriters ==
  \A s \in Server : \A m \in Out(s) : m.op = "set" => IsWriter(m.r)

\* What is under way, and what a holder read, agrees with the content; what was
\* confirmed is in it.
Current ==
  /\ \A s \in Server : \A m \in In(s) : m.op # "event" => ReplySays(m)
  /\ \A s \in Server : \A m \in Out(s) : OperationSays(m)
  /\ \A r \in control : read[r] = data
  /\ \A r \in Request : release[r] = "saved" => r \in data

\* The inductive invariant of the content.
DataInv == SetsByWriters /\ (Orderly => Current)

-----------------------------------------------------------------------------
(* The pipes after a step, as far as the content is concerned. *)

\* The turn of r takes what it handles off the inbox.
Hears(r) ==
  \/ UNCHANGED inbox
  \/ inbox[ServerOf[r]] # << >> /\ Consume(r)
  \/ EventArrived(r) /\ ConsumeEvent(r)

\* Hearing adds no reply to any session.
LEMMA HeardSets ==
  ASSUME TypeOK, NEW r \in Request, Hears(r)
  PROVE  \A t \in Server : \A m \in In(t)' : m.op = "event" \/ m \in In(t)
<1> DEFINE s == ServerOf[r]
<1>1. s \in Server /\ inbox \in [Server -> Seq(Message)] /\ inbox[s] \in Seq(Message)
  BY ServerOfAssumption DEF TypeOK, ZkTypeOK, Message
<1>2. CASE UNCHANGED inbox
  BY <1>2 DEF In
<1>3. CASE inbox[s] # << >> /\ Consume(r)
  <2>1. \A t \in Server : inbox'[t] = IF t = s THEN Tail(inbox[s]) ELSE inbox[t]
    BY <1>1, <1>3 DEF Consume
  <2>2. Msgs(Tail(inbox[s])) \subseteq Msgs(inbox[s])
    BY <1>1, <1>3, MsgsTail
  <2> QED
    BY <2>1, <2>2 DEF In
<1>4. CASE EventArrived(r) /\ ConsumeEvent(r)
  <2>1. inbox[s] # << >>
    BY <1>4 DEF EventArrived
  <2>2. PICK h : h = Head(inbox[s])
    OBVIOUS
  <2>3. PICK e : e = WatchEvent(h.rc, h.val \ {r})
    OBVIOUS
  <2>4. \A t \in Server : inbox'[t] =
          IF t # s THEN inbox[t]
          ELSE IF h.val = {r} THEN Tail(inbox[s]) ELSE <<e>> \o Tail(inbox[s])
    BY <1>1, <1>4, <2>2, <2>3 DEF ConsumeEvent
  <2>5. h \in Message /\ h.op = "event"
    BY <1>1, <1>4, <2>1, <2>2, MsgsTail, MsgsTyped DEF EventArrived, In
  <2>6. e \in Message /\ e.op = "event"
    BY <2>3, <2>5 DEF WatchEvent, Message, Reply, Event, Op
  <2>7. /\ Msgs(Tail(inbox[s])) \subseteq Msgs(inbox[s])
        /\ Msgs(<<e>> \o Tail(inbox[s])) = Msgs(Tail(inbox[s])) \cup {e}
    BY <1>1, <2>1, <2>6, MsgsTail, MsgsReplaceHead
  <2> QED
    BY <2>4, <2>6, <2>7 DEF In
<1> QED
  BY <1>2, <1>3, <1>4 DEF Hears

\* The turn of r sends nothing, or q.
Says(r, q) == UNCHANGED outbox \/ (q \in Operation /\ Send(ServerOf[r], q))

\* Saying adds the operation to the session of r.
LEMMA SaidSets ==
  ASSUME TypeOK, NEW r \in Request, NEW q, Says(r, q)
  PROVE  \A t \in Server : \A m \in Out(t)' : m \in Out(t) \/ (m = q /\ t = ServerOf[r])
<1> DEFINE s == ServerOf[r]
<1>1. s \in Server /\ outbox \in [Server -> Seq(Operation)] /\ outbox[s] \in Seq(Operation)
  BY ServerOfAssumption DEF TypeOK, ZkTypeOK
<1>2. CASE UNCHANGED outbox
  BY <1>2 DEF Out
<1>3. CASE q \in Operation /\ Send(s, q)
  <2>1. \A t \in Server : outbox'[t] = IF t = s THEN Append(outbox[s], q) ELSE outbox[t]
    BY <1>1, <1>3 DEF Send
  <2>2. Msgs(Append(outbox[s], q)) = Msgs(outbox[s]) \cup {q}
    BY <1>1, <1>3, MsgsAppend
  <2> QED
    BY <2>1, <2>2 DEF Out
<1> QED
  BY <1>2, <1>3 DEF Says

\* Operations that say nothing of the content.
Silent(m) == m.op # "set" /\ ~(m.op = "delete" /\ m.by = "save")

\* A turn that leaves the content and the entries' knowledge of it.
LEMMA TurnData ==
  ASSUME IndInv, LifeInv, DataInv, NEW r \in Request, Hears(r), NEW q, Says(r, q),
         UNCHANGED data, Orderly' => Orderly,
         \A x \in Request : cmd[x] # "none" => cmd'[x] = cmd[x],
         UNCHANGED outbox \/ (q.op = "set" => IsWriter(q.r)'),
         Orderly /\ Current => UNCHANGED outbox \/ OperationSays(q),
         Orderly /\ Current =>
           \A x \in control' : (x \in control /\ read'[x] = read[x]) \/ read'[x] = data,
         Orderly /\ Current =>
           \A x \in Request : release'[x] = "saved" => release[x] = "saved" \/ x \in data
  PROVE  DataInv'
<1>1. \A t \in Server : \A m \in In(t)' : m.op = "event" \/ m \in In(t)
  BY HeardSets DEF IndInv
<1>2. \A t \in Server : \A m \in Out(t)' : m \in Out(t) \/ (m = q /\ outbox' # outbox)
  <2>1. CASE UNCHANGED outbox
    BY <2>1 DEF Out
  <2>2. CASE outbox' # outbox
    BY <2>2, SaidSets DEF IndInv
  <2> QED
    BY <2>1, <2>2
<1>3. SetsByWriters'
  <2> SUFFICES ASSUME NEW t \in Server, NEW m \in Out(t)', m.op = "set"
               PROVE  IsWriter(m.r)'
    BY DEF SetsByWriters
  <2>1. CASE m \in Out(t)
    <3>1. m \in Operation /\ m.op # "event" /\ IsWriter(m.r)
      BY <2>1, MsgsTyped DEF DataInv, SetsByWriters, IndInv
    <3>2. m.r \in Request /\ cmd[m.r] # "none"
      BY <2>1, <3>1, Homes DEF IndInv, All
    <3> QED
      BY <3>1, <3>2 DEF IsWriter
  <2>2. CASE m = q /\ outbox' # outbox
    BY <2>2
  <2> QED
    BY <1>2, <2>1, <2>2
<1>4. ASSUME Orderly' PROVE Current'
  <2>1. Orderly /\ Current
    BY <1>4 DEF DataInv
  <2>2. \A m : (ReplySays(m) => ReplySays(m)') /\ (OperationSays(m) => OperationSays(m)')
    BY DEF ReplySays, OperationSays
  <2>3. \A t \in Server : \A m \in In(t)' : m.op # "event" => ReplySays(m)'
    BY <1>1, <2>1, <2>2 DEF Current
  <2>4. \A t \in Server : \A m \in Out(t)' : OperationSays(m)'
    BY <1>2, <2>1, <2>2 DEF Current
  <2>5. \A x \in control' : read'[x] = data'
    BY <2>1 DEF Current
  <2>6. \A x \in Request : release'[x] = "saved" => x \in data'
    BY <2>1 DEF Current
  <2> QED
    BY <2>3, <2>4, <2>5, <2>6 DEF Current
<1> QED
  BY <1>3, <1>4 DEF DataInv

-----------------------------------------------------------------------------
(* The turns of a request. *)

\* A late grant stays one, and numbers and commands stay.
LEMMA RequestKeeps ==
  ASSUME IndInv, LifeInv, NEW r \in Request, RequestNext(r)
  PROVE  /\ UNCHANGED <<data, seq, disconnects>>
         /\ \A x \in Request : cmd[x] # "none" => cmd'[x] = cmd[x]
         /\ \A x \in Request : promise[x] = "acquired" => promise'[x] = "acquired"
         /\ \A x \in Request : waitTimer[x] = "fired" => waitTimer'[x] = "fired"
<1> USE DEF IndInv, TypeOK, LockTypeOK
<1>1. CASE \E c \in Commands : RecvLock(r, c)
  <2>1. cmd[r] = "none" => promise[r] = "none"
    BY DEF LifeInv, RequestsOK, RequestOK
  <2> QED
    BY <1>1, <2>1 DEF RecvLock, Lock, storeVars
<1>2. CASE LockCallback(r)
  <2>1. Created(r) => waitTimer[r] = "off"
    <3> SUFFICES ASSUME Created(r) PROVE waitTimer[r] = "off"
      OBVIOUS
    <3>1. Arrived(r, "create", "lock")
      BY DEF Created
    <3>2. "create" \in Op
      BY DEF Op
    <3> QED
      BY <3>1, <3>2, Finds DEF MessageOK
  <2>2. UNCHANGED <<data, seq, disconnects, cmd>>
    BY <1>2 DEF LockCallback, PathEnsured, Created, Listed, ExistsReplied, WatchFired, WaitUnlocked, storeVars
  <2>3. \A x \in Request : promise[x] = "acquired" => promise'[x] = "acquired"
    BY <1>2 DEF LockCallback, PathEnsured, Created, Listed, ExistsReplied, WatchFired, WaitUnlocked, Reject,
       lockVars
  <2>4. \A x \in Request : waitTimer[x] = "fired" => waitTimer'[x] = "fired"
    BY <1>2, <2>1 DEF LockCallback, PathEnsured, Created, Listed, ExistsReplied, WatchFired, WaitUnlocked,
       lockVars
  <2> QED
    BY <2>2, <2>3, <2>4
<1>3. CASE WaitTimeout(r)
  BY <1>3 DEF WaitTimeout, LockWaitTimeout, storeVars
<1>4. CASE \/ RecvSave(r) \/ RecvUnlock(r) \/ GetReplied(r) \/ SetReplied(r) \/ SaveUnlocked(r)
           \/ Unlocked(r) \/ HoldUnlocked(r) \/ HoldTimeout(r)
  BY <1>4 DEF RecvSave, RecvUnlock, GetReplied, SetReplied, SaveUnlocked, Unlocked, HoldUnlocked,
     HoldTimeout, storeVars, lockVars
<1> QED
  BY <1>1, <1>2, <1>3, <1>4 DEF RequestNext, ReplyCallback

\* A turn of a request does not make an order that was not there.
LEMMA RequestOrderly ==
  ASSUME IndInv, LifeInv, NEW r \in Request, RequestNext(r)
  PROVE  Orderly' => Orderly
BY RequestKeeps DEF Orderly, LateGrant

\* The operations of the queue for the lock, and what the timers and the
\* commands send.
LEMMA SilentRequests ==
  ASSUME NEW r \in Request, NEW op \in Op, NEW arg \in SUBSET Request, NEW by \in Caller,
         SendFor(r, op, arg, by)
  PROVE  /\ Says(r, Request_(op, r, arg, by))
         /\ Request_(op, r, arg, by).op = op /\ Request_(op, r, arg, by).by = by
         /\ Request_(op, r, arg, by).r = r /\ Request_(op, r, arg, by).arg = arg
BY RequestTypes DEF Says, SendFor, Request_

\* What a turn of the queue for the lock says.
LEMMA LockSays ==
  ASSUME IndInv, LifeInv, NEW r \in Request, LockCallback(r)
  PROVE  /\ Hears(r) /\ \E q : Says(r, q) /\ Silent(q)
         /\ UNCHANGED <<control, read, release>>
<1>1. UNCHANGED <<control, read, release>>
  BY DEF LockCallback
<1>2. Hears(r)
  BY DEF Hears, LockCallback, PathEnsured, Created, Listed, ExistsReplied, WatchFired, WaitUnlocked, Arrived
<1>3. \/ UNCHANGED outbox
      \/ SendFor(r, "create", {}, "lock") \/ SendFor(r, "children", {}, "lock")
      \/ Send(ServerOf[r], Request_("get", r, {}, "lock"))
      \/ \E z \in Request : SendFor(r, "exists", {z}, "lock")
  <2>1. CASE Listed(r, Request_("get", r, {}, "lock"))
    <3>1. Arrived(r, "children", "lock") /\ "children" \in Op
      BY <2>1 DEF Listed, Op
    <3>2. ReplyOf(r).val \subseteq Request
      BY <3>1, Finds DEF Reply
    <3>3. NodeToBeWatched(r, ReplyOf(r).val) \subseteq Request
      BY <3>2 DEF NodeToBeWatched, Ahead
    <3> QED
      BY <2>1, <3>3 DEF Listed, lockVars
  <2> QED
    BY <2>1 DEF LockCallback, PathEnsured, Created, ExistsReplied, WatchFired, WaitUnlocked
<1>4. PICK q : q = Request_("children", r, {}, "lock")
  OBVIOUS
<1>5. /\ {} \in SUBSET Request /\ "lock" \in Caller
      /\ \A op \in {"create", "children", "get"} : op \in Op
  BY DEF Op, Caller
<1>6. CASE UNCHANGED outbox
  BY <1>1, <1>2, <1>4, <1>6 DEF Says, Silent, Request_
<1>7. CASE Send(ServerOf[r], Request_("get", r, {}, "lock"))
  BY <1>1, <1>2, <1>7, <1>5, SilentRequests DEF SendFor, Silent
<1>8. CASE SendFor(r, "create", {}, "lock") \/ SendFor(r, "children", {}, "lock")
  BY <1>1, <1>2, <1>8, <1>5, SilentRequests DEF Silent
<1>9. CASE \E z \in Request : SendFor(r, "exists", {z}, "lock")
  <2>1. PICK z \in Request : SendFor(r, "exists", {z}, "lock")
    BY <1>9
  <2>2. {z} \in SUBSET Request /\ "exists" \in Op /\ "lock" \in Caller
    BY DEF Op, Caller
  <2> QED
    BY <1>1, <1>2, <2>1, <2>2, SilentRequests DEF Silent
<1> QED
  BY <1>1, <1>2, <1>3, <1>6, <1>7, <1>8, <1>9

\* Every turn of a request keeps the content invariant.
LEMMA RequestData ==
  ASSUME IndInv, LifeInv, DataInv, NEW r \in Request, RequestNext(r)
  PROVE  DataInv'
<1>1. /\ UNCHANGED data /\ (Orderly' => Orderly)
      /\ \A x \in Request : cmd[x] # "none" => cmd'[x] = cmd[x]
  BY RequestKeeps, RequestOrderly
<1>2. /\ release \in [Request -> {"none", "saving", "saved", "unlocking", "unlocked", "error"}]
      /\ read \in [Request -> SUBSET Request]
      /\ \A op \in {"path", "delete", "set"} : op \in Op
      /\ \A by \in {"lock", "wait", "save", "unlock", "hold"} : by \in Caller
      /\ {} \in SUBSET Request
  BY DEF IndInv, TypeOK, Op, Caller
<1>3. ASSUME Hears(r), NEW q, Says(r, q), Silent(q) \/ UNCHANGED outbox, control' \subseteq control,
             UNCHANGED read,
             \A x \in Request : release'[x] = "saved" => release[x] = "saved"
      PROVE  DataInv'
  BY <1>1, <1>3, TurnData DEF Silent, OperationSays
<1>4. ASSUME Hears(r), UNCHANGED outbox, control' \subseteq control, UNCHANGED read,
             \A x \in Request : release'[x] = "saved" => release[x] = "saved"
      PROVE  DataInv'
  <2>1. PICK q : q = Request_("path", r, {}, "lock")
    OBVIOUS
  <2> QED
    BY <1>3, <1>4, <2>1 DEF Says
<1>5. CASE \E c \in Commands : RecvLock(r, c)
  <2>1. SendFor(r, "path", {}, "lock") /\ UNCHANGED <<inbox, control, read, release>>
    BY <1>5 DEF RecvLock, Lock, mgrVars
  <2> QED
    BY <1>2, <1>3, <2>1, SilentRequests DEF Hears, Silent
<1>6. CASE LockCallback(r)
  BY <1>3, <1>6, LockSays
<1>7. CASE WaitTimeout(r)
  <2>1. SendFor(r, "delete", {}, "wait") /\ UNCHANGED <<inbox, control, read, release>>
    BY <1>7 DEF WaitTimeout, LockWaitTimeout, mgrVars
  <2> QED
    BY <1>2, <1>3, <2>1, SilentRequests DEF Hears, Silent
<1>8. CASE HoldTimeout(r)
  <2>1. /\ SendFor(r, "delete", {}, "hold") /\ UNCHANGED <<inbox, read, release>>
        /\ control' \subseteq control
    BY <1>8 DEF HoldTimeout
  <2> QED
    BY <1>2, <1>3, <2>1, SilentRequests DEF Hears, Silent
<1>9. CASE RecvUnlock(r)
  <2>1. /\ UNCHANGED outbox \/ SendFor(r, "delete", {}, "unlock")
        /\ UNCHANGED <<inbox, read>> /\ control' \subseteq control
    BY <1>9 DEF RecvUnlock
  <2>2. \A x \in Request : release'[x] = "saved" => release[x] = "saved"
    BY <1>2, <1>9 DEF RecvUnlock
  <2> QED
    BY <1>2, <1>3, <1>4, <2>1, <2>2, SilentRequests DEF Hears, Silent
<1>10. CASE Unlocked(r) \/ HoldUnlocked(r)
  <2>1. Hears(r) /\ UNCHANGED <<outbox, control, read>>
    BY <1>10 DEF Unlocked, HoldUnlocked, Hears, Arrived, mgrVars
  <2>2. \A x \in Request : release'[x] = "saved" => release[x] = "saved"
    BY <1>2, <1>10 DEF Unlocked, HoldUnlocked, mgrVars
  <2> QED
    BY <1>4, <2>1, <2>2
<1>11. CASE RecvSave(r)
  <2>1. CASE SaveRefused(r)
    <3>1. /\ UNCHANGED <<outbox, inbox, control, read>>
          /\ \A x \in Request : release'[x] = "saved" => release[x] = "saved"
      BY <1>2, <1>11, <2>1 DEF RecvSave
    <3> QED
      BY <1>4, <3>1 DEF Hears
  <2>2. CASE ~SaveRefused(r)
    <3>1. /\ SendFor(r, "set", read[r] \cup {r}, "save") /\ UNCHANGED <<inbox, read, cmd>>
          /\ control' \subseteq control /\ r \in control /\ IsWriter(r)
      BY <1>11, <2>2 DEF RecvSave, SaveRefused
    <3>2. \A x \in Request : release'[x] = "saved" => release[x] = "saved"
      BY <1>2, <1>11, <2>2 DEF RecvSave
    <3>3. PICK arg \in SUBSET Request : arg = read[r] \cup {r}
      BY <1>2
    <3>4. PICK q : q = Request_("set", r, arg, "save")
      OBVIOUS
    <3>5. SendFor(r, "set", arg, "save")
      BY <3>1, <3>3
    <3>6. "set" \in Op /\ "save" \in Caller
      BY <1>2
    <3>7. Says(r, q) /\ q.op = "set" /\ q.r = r /\ q.arg = read[r] \cup {r}
      BY <3>3, <3>4, <3>6, <3>5 DEF Says, SendFor, Request_, Operation
    <3>8. IsWriter(q.r)'
      BY <3>1, <3>7 DEF IsWriter
    <3>9. Current => OperationSays(q)
      BY <3>1, <3>7 DEF Current, OperationSays
    <3>10. Hears(r)
      BY <3>1 DEF Hears
    <3>11. \A x \in control' : x \in control /\ read'[x] = read[x]
      BY <3>1
    <3> QED
      BY <1>1, <3>2, <3>7, <3>8, <3>9, <3>10, <3>11, TurnData
  <2> QED
    BY <2>1, <2>2
<1>12. CASE GetReplied(r)
  <2>1. Arrived(r, "get", "lock") /\ "get" \in Op /\ Hears(r)
    BY <1>12 DEF GetReplied, Arrived, Hears, Op
  <2>2. PICK m : m = ReplyOf(r)
    OBVIOUS
  <2>3. m.op = "get" /\ m \in In(ServerOf[r]) /\ ServerOf[r] \in Server
    BY <2>1, <2>2, Finds
  <2>4. Current => (m.rc = "ok" => m.val = data)
    BY <2>3 DEF Current, ReplySays
  <2>5. CASE m.rc # "ok"
    <3>1. UNCHANGED <<outbox, control, read, release>>
      BY <1>12, <2>2, <2>5 DEF GetReplied
    <3> QED
      BY <1>4, <2>1, <3>1
  <2>6. CASE m.rc = "ok"
    <3>1. /\ read' = [read EXCEPT ![r] = m.val] /\ control' \subseteq control \cup {r}
          /\ UNCHANGED outbox \/ SendFor(r, "delete", {}, "unlock")
          /\ UNCHANGED release
      BY <1>12, <2>2, <2>6 DEF GetReplied
    <3>2. Current => \A x \in control' : (x \in control /\ read'[x] = read[x]) \/ read'[x] = data
      BY <1>2, <2>4, <2>6, <3>1
    <3>3. PICK q : q = Request_("delete", r, {}, "unlock")
      OBVIOUS
    <3>4. Says(r, q) /\ Silent(q)
      BY <1>2, <3>1, <3>3, SilentRequests DEF Says, Silent, Request_
    <3> QED
      BY <1>1, <2>1, <3>1, <3>2, <3>4, TurnData DEF Silent, OperationSays
  <2> QED
    BY <2>5, <2>6
<1>13. CASE SetReplied(r)
  <2>1. Arrived(r, "set", "save") /\ "set" \in Op /\ Hears(r) /\ UNCHANGED <<control, read>>
    BY <1>13 DEF SetReplied, Arrived, Hears, Op
  <2>2. PICK m : m = ReplyOf(r)
    OBVIOUS
  <2>3. m.op = "set" /\ m.r = r /\ m \in In(ServerOf[r]) /\ ServerOf[r] \in Server
    BY <2>1, <2>2, Finds
  <2>4. Current => (m.rc = "ok" => r \in data)
    BY <2>3 DEF Current, ReplySays
  <2>5. \A x \in Request : release'[x] = "saved" => release[x] = "saved"
    BY <1>2, <1>13 DEF SetReplied
  <2>6. CASE m.rc # "ok"
    <3>1. UNCHANGED outbox
      BY <1>13, <2>2, <2>6 DEF SetReplied
    <3> QED
      BY <1>4, <2>1, <2>5, <3>1
  <2>7. CASE m.rc = "ok"
    <3>1. SendFor(r, "delete", {}, "save")
      BY <1>13, <2>2, <2>7 DEF SetReplied
    <3>2. PICK q : q = Request_("delete", r, {}, "save")
      OBVIOUS
    <3>3. Says(r, q) /\ q.op = "delete" /\ q.r = r
      BY <1>2, <3>1, <3>2, SilentRequests
    <3>4. Current => OperationSays(q)
      BY <2>4, <2>7, <3>3 DEF OperationSays
    <3> QED
      BY <1>1, <2>1, <2>5, <3>3, <3>4, TurnData
  <2> QED
    BY <2>6, <2>7
<1>14. CASE SaveUnlocked(r)
  <2>1. Arrived(r, "delete", "save") /\ "delete" \in Op /\ Hears(r) /\ UNCHANGED <<control, read, outbox>>
    BY <1>14 DEF SaveUnlocked, Arrived, Hears, Op
  <2>2. PICK m : m = ReplyOf(r)
    OBVIOUS
  <2>3. m.op = "delete" /\ m.by = "save" /\ m.r = r /\ m \in In(ServerOf[r]) /\ ServerOf[r] \in Server
    BY <2>1, <2>2, Finds
  <2>4. Current => r \in data
    BY <2>3 DEF Current, ReplySays
  <2>5. \A x \in Request : x # r => release'[x] = release[x]
    BY <1>2, <1>14 DEF SaveUnlocked
  <2>6. PICK q : q = Request_("path", r, {}, "lock")
    OBVIOUS
  <2>7. Says(r, q)
    BY <2>1 DEF Says
  <2>8. Current => \A x \in Request : release'[x] = "saved" => release[x] = "saved" \/ x \in data
    BY <2>4, <2>5
  <2> QED
    BY <1>1, <2>1, <2>7, <2>8, TurnData
<1> QED
  BY <1>5, <1>6, <1>7, <1>8, <1>9, <1>10, <1>11, <1>12, <1>13, <1>14 DEF RequestNext, ReplyCallback

-----------------------------------------------------------------------------
(* The service and the faults. *)

\* A writer shares the lock with nobody.
LEMMA WriterAlone ==
  ASSUME IndInv, Orderly, NEW w \in Request, NEW r \in Request, IsWriter(w), r # w,
         promise[w] = "acquired", InPlace(w), promise[r] = "acquired", InPlace(r)
  PROVE  FALSE
<1>1. Holds(w) /\ Holds(r) /\ w \in znodes /\ r \in znodes
  BY DEF Orderly, LateGrant, InPlace, Holds
<1>2. Conflicts(w, r) /\ Conflicts(r, w)
  BY DEF Conflicts
<1>3. seq[w] \in Nat /\ seq[r] \in Nat /\ 0 < seq[w] /\ 0 < seq[r]
  BY <1>1 DEF IndInv, TypeOK, ZkTypeOK, NumbersInOrder, Numbered, Orderly
<1>4. seq[w] < seq[r] /\ seq[r] < seq[w]
  BY <1>1, <1>2, <1>3 DEF IndInv, GrantedInOrder
<1> QED
  BY <1>3, <1>4

\* The save q of a request that is about to be served.
LEMMA SaverFacts ==
  ASSUME IndInv, LifeInv, DataInv, NEW s \in Server, NEW q \in Out(s), q.op = "set"
  PROVE  /\ q.r \in Request /\ ServerOf[q.r] = s /\ IsWriter(q.r) /\ promise[q.r] = "acquired"
         /\ InPlace(q.r) /\ q.r \notin control /\ Own(q)
         /\ Orderly => q.arg = data \cup {q.r}
<1>1. q \in All(s) /\ q.op # "event"
  BY DEF All
<1>2. q.r \in Request /\ ServerOf[q.r] = s /\ MessageOK(q)
  BY <1>1, Homes DEF IndInv, LifeInv, MessagesOK
<1>3. IsWriter(q.r) /\ (Orderly => q.arg = data \cup {q.r})
  BY DEF DataInv, SetsByWriters, Current, OperationSays
<1> QED
  BY <1>2, <1>3 DEF MessageOK, Holding, Own

\* What the service keeps.
LEMMA ServeKeeps ==
  ASSUME IndInv, LifeInv, NEW s \in Server, ZkServe(s)
  PROVE  /\ UNCHANGED <<cmd, promise, waitTimer, control, read, release, lost, disconnects>>
         /\ Serve(s)
         /\ Orderly' => Orderly
<1>1. UNCHANGED <<cmd, promise, waitTimer, control, read, release, lost>> /\ Serve(s)
  BY DEF ZkServe, lockVars, mgrVars
<1>2. UNCHANGED disconnects
  BY <1>1 DEF Serve, ServePath, ServeCreate, ServeChildren, ServeExists, ServeGet, ServeSet, ServeDelete,
     storeVars
<1>3. \A x \in Request : seq[x] = 0 => seq'[x] = 0
  <2>1. CASE ServeCreate(s)
    <3>1. PICK q : q = Head(outbox[s])
      OBVIOUS
    <3>2. q.op = "create" /\ seq' = [seq EXCEPT ![q.r] = nextSeq] /\ outbox[s] # << >>
      BY <2>1, <3>1 DEF ServeCreate, Serving
    <3>3. 1 \in 1..Len(outbox[s]) /\ q = outbox[s][1]
      BY <3>1, <3>2, MsgsTyped, TailFacts DEF IndInv
    <3>4. Sendable(s, q)
      BY <3>3 DEF IndInv, AllPipesOK, PipesOK
    <3>5. seq[q.r] = -1
      BY <3>2, <3>4 DEF Sendable, Fresh, Numbered, NoSeq
    <3> QED
      BY <3>2, <3>5 DEF IndInv, TypeOK, ZkTypeOK
  <2>2. CASE ~ServeCreate(s)
    BY <1>1, <2>2 DEF Serve, ServePath, ServeChildren, ServeExists, ServeGet, ServeSet, ServeDelete, storeVars
  <2> QED
    BY <2>1, <2>2
<1>4. Orderly' => Orderly
  BY <1>1, <1>3 DEF Orderly, LateGrant
<1> QED
  BY <1>1, <1>2, <1>4

\* The content changes by the save of the head of the pipe only.
LEMMA DataChange ==
  ASSUME NEW s \in Server, Serve(s), NEW q, q = Head(outbox[s])
  PROVE  \/ UNCHANGED data /\ q.op # "set"
         \/ data' = q.arg /\ q.op = "set" /\ UNCHANGED <<znodes, seq>>
BY DEF Serve, Serving, ServePath, ServeCreate, ServeChildren, ServeExists, ServeGet, ServeSet, ServeDelete,
   storeVars

\* A read is answered with the content.
LEMMA GetSays ==
  ASSUME TypeOK, NEW s \in Server, Serve(s), NEW q, q = Head(outbox[s]), q.op = "get"
  PROVE  \A m \in In(s)' : m \in In(s) \/ (m.op = "get" /\ m.val = data)
<1>1. ServeGet(s)
  BY DEF Serve, Serving, ServePath, ServeCreate, ServeChildren, ServeExists, ServeSet, ServeDelete
<1>2. PICK a : a = Answer(q, "ok", data)
  OBVIOUS
<1>3. inbox' = [inbox EXCEPT ![s] = Append(@, a)] /\ outbox[s] # << >>
  BY <1>1, <1>2 DEF ServeGet, Serving, Respond
<1>4. q \in Operation
  BY <1>3, MsgsTail, MsgsTyped DEF Out
<1>5. a \in Message /\ a.op = "get" /\ a.val = data
  BY <1>2, <1>4, AnswerTypes, AnswerFacts DEF TypeOK, ZkTypeOK
<1>6. inbox'[s] = Append(inbox[s], a) /\ inbox[s] \in Seq(Message)
  BY <1>3 DEF TypeOK, ZkTypeOK, Message
<1>7. In(s)' = In(s) \cup {a}
  BY <1>5, <1>6, MsgsAppend DEF In
<1> QED
  BY <1>5, <1>7

\* So does the service: a set finds nobody else with a reply or an entry.
LEMMA ServeData ==
  ASSUME IndInv, LifeInv, DataInv, NEW s \in Server, ZkServe(s)
  PROVE  DataInv'
<1>1. /\ UNCHANGED <<cmd, promise, waitTimer, control, read, release, lost>> /\ Serve(s)
      /\ (Orderly' => Orderly)
  BY ServeKeeps
<1>2. PICK q : q = Head(outbox[s])
  OBVIOUS
<1>3. PICK a \in Reply : Served(s, q, a)
  BY <1>1, <1>2, ServedSets DEF IndInv, LifeInv
<1>4. /\ q \in Out(s) /\ a.op = q.op /\ a.r = q.r /\ a.by = q.by
      /\ Out(s) = Out(s)' \cup {q}
      /\ \A t \in Server : t # s => Out(t)' = Out(t)
      /\ \A t \in Server : \A m \in In(t)' : m \in In(t) \/ m = a \/ m.op = "event"
      /\ Own(q) => \A m \in All(s)' : Own(m) /\ m.r = q.r => m = a
  BY <1>3 DEF Served
<1>5. \A t \in Server : Out(t)' \subseteq Out(t)
  BY <1>4
<1>6. SetsByWriters'
  BY <1>1, <1>5 DEF DataInv, SetsByWriters, IsWriter
<1>7. ASSUME Orderly' PROVE Orderly /\ Current
  BY <1>1, <1>7 DEF DataInv
<1>8. CASE q.op # "set"
  <2>1. UNCHANGED data
    BY <1>1, <1>2, <1>8, DataChange
  <2>2. \A m : (ReplySays(m) => ReplySays(m)') /\ (OperationSays(m) => OperationSays(m)')
    BY <2>1 DEF ReplySays, OperationSays
  <2>3. ASSUME Current, NEW t \in Server, NEW m \in In(t)', m.op # "event" PROVE ReplySays(m)'
    <3>1. CASE m \in In(t)
      BY <2>2, <2>3, <3>1 DEF Current
    <3>2. CASE m = a /\ m \notin In(t) /\ q.op # "get"
      <4>1. OperationSays(q)
        BY <1>4, <2>3 DEF Current
      <4> QED
        BY <1>4, <1>8, <2>1, <3>2, <4>1 DEF OperationSays, ReplySays
    <3>3. CASE m = a /\ m \notin In(t) /\ q.op = "get"
      <4>1. m \in In(s)'
        BY <1>3, <3>3 DEF Served
      <4>2. m.val = data \/ m \in In(s)
        BY <1>1, <1>2, <3>3, <4>1, GetSays DEF IndInv
      <4>3. ReplySays(m)
        BY <1>4, <2>3, <3>3, <4>2 DEF Current, ReplySays
      <4> QED
        BY <2>2, <4>3
    <3> QED
      BY <1>4, <2>3, <3>1, <3>2, <3>3
  <2>4. Current => Current'
    BY <1>1, <1>5, <2>1, <2>2, <2>3 DEF Current
  <2> QED
    BY <1>6, <1>7, <2>4 DEF DataInv
<1>9. CASE q.op = "set"
  <2>1. /\ q.r \in Request /\ ServerOf[q.r] = s /\ IsWriter(q.r) /\ promise[q.r] = "acquired"
        /\ InPlace(q.r) /\ q.r \notin control /\ Own(q)
        /\ Orderly => q.arg = data \cup {q.r}
    BY <1>4, <1>9, SaverFacts
  <2>2. data' = q.arg
    BY <1>1, <1>2, <1>9, DataChange
  <2>3. ASSUME Orderly, NEW r \in Request, r # q.r, promise[r] = "acquired", InPlace(r) PROVE FALSE
    BY <2>1, <2>3, WriterAlone
  <2>4. ASSUME Orderly, NEW t \in Server, NEW m \in All(t), m \in All(t)', m \in In(t) \/ m \in Out(t)',
               m.op \in {"get", "set"}, m # a
        PROVE  FALSE
    <3>1. m.op # "event" /\ Own(m)
      BY <2>4 DEF Own
    <3>2. m.r \in Request /\ ServerOf[m.r] = t /\ MessageOK(m)
      BY <2>4, <3>1, Homes DEF IndInv, LifeInv, MessagesOK
    <3>3. m.r # q.r
      BY <1>4, <2>1, <2>4, <3>1, <3>2
    <3> QED
      BY <2>3, <2>4, <3>2, <3>3 DEF MessageOK, Holding
  <2>5. ASSUME Orderly, Current, NEW t \in Server, NEW m \in In(t)', m.op # "event" PROVE ReplySays(m)'
    <3>1. CASE m = a
      BY <1>4, <1>9, <2>1, <2>2, <2>5, <3>1 DEF ReplySays
    <3>2. CASE m # a
      <4>1. m \in In(t) /\ m \in All(t) /\ m \in All(t)'
        BY <1>4, <2>5, <3>2 DEF All
      <4>2. m.op \notin {"get", "set"}
        BY <2>4, <2>5, <3>2, <4>1
      <4>3. ReplySays(m)
        BY <2>5, <4>1 DEF Current
      <4> QED
        BY <2>1, <2>2, <2>5, <4>2, <4>3 DEF ReplySays
    <3> QED
      BY <3>1, <3>2
  <2>6. ASSUME Orderly, Current, NEW t \in Server, NEW m \in Out(t)' PROVE OperationSays(m)'
    <3>1. m \in Out(t) /\ m \in All(t) /\ m \in All(t)'
      BY <1>5, <2>6 DEF All
    <3>2. m # a
      BY <3>1, MsgsTyped DEF IndInv, Reply, Operation
    <3>3. m.op \notin {"get", "set"}
      BY <2>4, <2>6, <3>1, <3>2
    <3>4. OperationSays(m)
      BY <2>6, <3>1 DEF Current
    <3> QED
      BY <2>1, <2>2, <2>6, <3>3, <3>4 DEF OperationSays
  <2>7. ASSUME Orderly, NEW r \in control PROVE FALSE
    <3>1. r \in Request /\ promise[r] = "acquired" /\ InPlace(r)
      BY DEF IndInv, TypeOK, LifeInv, RequestsOK, RequestOK
    <3> QED
      BY <2>1, <2>3, <2>7, <3>1
  <2>8. Orderly /\ Current => Current'
    BY <1>1, <2>1, <2>2, <2>5, <2>6, <2>7 DEF Current
  <2> QED
    BY <1>6, <1>7, <2>8 DEF DataInv
<1> QED
  BY <1>8, <1>9

\* So do failures, which drop what they know.
LEMMA FaultData ==
  ASSUME IndInv, IndInv', LifeInv, DataInv, NEW s \in Server,
         ZkDisconnect(s) \/ Crash(s) \/ SessionExpires(s)
  PROVE  DataInv'
<1>1. /\ UNCHANGED <<cmd, data, read, release, seq, promise>> /\ control' \subseteq control
      /\ \A x \in Request : waitTimer[x] = "fired" => waitTimer'[x] = "fired"
  BY DEF ZkDisconnect, Disconnect, Crash, Abandon, SessionExpires, RemoveEphemerals, lockVars, mgrVars
<1>2. Orderly' => Orderly
  BY <1>1 DEF Orderly, LateGrant
<1>3. /\ \A t \in Server : Out(t)' \subseteq Out(t)
      /\ \A t \in Server : \A m \in In(t)' : m.op # "event" => m \in In(t) \/ \E y \in All(t) : Echoes(m, y)
  <2>1. CASE ZkDisconnect(s)
    <3>1. Cut(s)
      BY <2>1, DisconnectSets DEF ZkDisconnect, IndInv, LifeInv
    <3> QED
      BY <3>1 DEF Cut, WatchEvent
  <2>2. CASE Crash(s)
    <3>1. \A t \in Server : /\ inbox'[t] = IF t = s THEN << >> ELSE inbox[t]
                            /\ outbox'[t] = IF t = s THEN << >> ELSE outbox[t]
      BY <2>2 DEF Crash, Abandon, IndInv, TypeOK, ZkTypeOK
    <3> QED
      BY <3>1, MsgsEmpty DEF In, Out
  <2>3. CASE SessionExpires(s)
    <3>1. PICK Z : inbox' = Notified(Z) /\ UNCHANGED outbox
      BY <2>3 DEF SessionExpires, RemoveEphemerals
    <3> QED
      BY <3>1, NotifiedSets DEF In, Out, WatchEvent, IndInv, LifeInv
  <2> QED
    BY <2>1, <2>2, <2>3
<1>4. SetsByWriters'
  BY <1>1, <1>3 DEF DataInv, SetsByWriters, IsWriter
<1>5. \A m : (ReplySays(m) => ReplySays(m)') /\ (OperationSays(m) => OperationSays(m)')
  BY <1>1 DEF ReplySays, OperationSays
<1>6. ASSUME Current, NEW t \in Server, NEW m \in In(t)', m.op # "event" PROVE ReplySays(m)'
  <2>1. CASE m \in In(t)
    BY <1>5, <1>6, <2>1 DEF Current
  <2>2. CASE \E y \in All(t) : Echoes(m, y)
    <3>1. PICK y \in All(t) : Echoes(m, y)
      BY <2>2
    <3>2. /\ m.op = y.op /\ m.r = y.r /\ m.by = y.by
          /\ (m = y /\ m \in Message) \/ m.rc = "fail"
      BY <1>6, <3>1 DEF Echoes
    <3>3. CASE m = y /\ m \in Message
      <4>1. m \notin Operation
        BY <3>3 DEF Message, Reply, Event, Operation, Op
      <4>2. m \in In(t)
        BY <3>1, <3>3, <4>1, MsgsTyped DEF All, IndInv
      <4> QED
        BY <2>1, <4>2
    <3>4. CASE m.rc = "fail"
      <4>1. y.op = "delete" /\ y.by = "save" => y.r \in data
        BY <1>6, <3>1, <3>2 DEF All, Current, ReplySays, OperationSays
      <4>2. ReplySays(m)
        BY <3>2, <3>4, <4>1 DEF ReplySays
      <4> QED
        BY <1>5, <4>2
    <3> QED
      BY <3>2, <3>3, <3>4
  <2> QED
    BY <1>3, <1>6, <2>1, <2>2
<1>7. Current => Current'
  BY <1>1, <1>3, <1>5, <1>6 DEF Current
<1> QED
  BY <1>2, <1>4, <1>7 DEF DataInv

-----------------------------------------------------------------------------
(* The theorems. *)

\* So does every step.
LEMMA DataStep ==
  ASSUME IndInv, IndInv', LifeInv, DataInv, [Next]_vars
  PROVE  DataInv'
<1>1. CASE UNCHANGED vars
  <2>1. UNCHANGED <<cmd, data, read, release, control, seq, promise, waitTimer, inbox, outbox>>
    BY <1>1 DEF vars, zkVars, storeVars, lockVars, mgrVars
  <2>2. \A t \in Server : In(t)' = In(t) /\ Out(t)' = Out(t)
    BY <2>1 DEF In, Out
  <2>3. \A m : (ReplySays(m) => ReplySays(m)') /\ (OperationSays(m) => OperationSays(m)')
    BY <2>1 DEF ReplySays, OperationSays
  <2>4. Orderly' => Orderly
    BY <2>1 DEF Orderly, LateGrant
  <2>5. Current => Current'
    BY <2>1, <2>2, <2>3 DEF Current
  <2>6. SetsByWriters'
    BY <2>1, <2>2 DEF DataInv, SetsByWriters, IsWriter
  <2> QED
    BY <2>4, <2>5, <2>6 DEF DataInv
<1>2. ASSUME NEW r \in Request, RequestNext(r) PROVE DataInv'
  BY <1>2, RequestData
<1>3. ASSUME NEW s \in Server, ServerNext(s) PROVE DataInv'
  BY <1>3, ServeData, FaultData DEF ServerNext
<1> QED
  BY <1>1, <1>2, <1>3 DEF Next

\* It holds in every state of every behaviour.
LEMMA DataAlways == Spec => []DataInv
<1>1. ASSUME Init PROVE DataInv
  <2>1. \A s \in Server : In(s) = {} /\ Out(s) = {}
    BY <1>1, MsgsEmpty DEF Init, ZkInit, In, Out
  <2>2. control = {} /\ \A r \in Request : release[r] # "saved"
    BY <1>1 DEF Init
  <2> QED
    BY <2>1, <2>2 DEF DataInv, SetsByWriters, Current
<1>2. IndInv /\ IndInv' /\ LifeInv /\ DataInv /\ [Next]_vars => DataInv'
  BY DataStep
<1> QED
  BY <1>1, <1>2, Inductive, Lives, PTL DEF Spec

\* As long as a client has an entry, the context is what it was sent, whatever
\* the other clients and context managers, the timers and the failures do.
THEOREM ReadsAreCurrent == Spec => []NoStaleRead
<1>1. IndInv /\ DataInv => NoStaleRead
  BY DEF NoStaleRead, DataInv, Current
<1> QED
  BY <1>1, Inductive, DataAlways, PTL

\* What a client was told is saved is in the context for good.
THEOREM SavesLast == Spec => []NoLostUpdate
<1>1. DataInv => NoLostUpdate
  BY DEF NoLostUpdate, DataInv, Current
<1> QED
  BY <1>1, DataAlways, PTL

\* The step that changes the content is the save of one who holds the lock.
LEMMA SaveStep ==
  ASSUME IndInv, LifeInv, DataInv, [Next]_vars, Orderly', data' # data
  PROVE  /\ UNCHANGED <<znodes, promise>>
         /\ \E r \in Request : Holds(r) /\ IsWriter(r) /\ data' = data \cup {r}
<1>1. PICK s \in Server : ZkServe(s)
  <2>1. ~(UNCHANGED vars)
    BY DEF vars, zkVars, storeVars
  <2>2. ASSUME NEW r \in Request, RequestNext(r) PROVE FALSE
    BY <2>2, RequestKeeps
  <2>3. ASSUME NEW s \in Server, ZkDisconnect(s) \/ Crash(s) \/ SessionExpires(s) PROVE FALSE
    BY <2>3 DEF ZkDisconnect, Disconnect, Crash, Abandon, SessionExpires, RemoveEphemerals
  <2> QED
    BY <2>1, <2>2, <2>3 DEF Next, ServerNext
<1>2. Serve(s) /\ Orderly /\ UNCHANGED promise
  BY <1>1, ServeKeeps
<1>3. PICK q : q = Head(outbox[s])
  OBVIOUS
<1>4. data' = q.arg /\ q.op = "set" /\ UNCHANGED znodes
  BY <1>2, <1>3, DataChange
<1>5. q \in Out(s)
  BY <1>2, <1>3, ServeShape DEF IndInv
<1>6. /\ q.r \in Request /\ IsWriter(q.r) /\ promise[q.r] = "acquired" /\ InPlace(q.r)
      /\ q.arg = data \cup {q.r}
  BY <1>2, <1>4, <1>5, SaverFacts
<1>7. Holds(q.r)
  BY <1>2, <1>6 DEF Orderly, LateGrant, InPlace, Holds
<1> QED
  BY <1>2, <1>4, <1>6, <1>7

\* Only a client that still has the write lock changes the context, and it
\* adds its save to what was there.
THEOREM OnlyHoldersSave == Spec => SavesUnderLock
<1>1. IndInv /\ LifeInv /\ DataInv /\ [Next]_vars =>
        [Orderly' /\ data' # data =>
           \E r \in Request : /\ Holds(r) /\ IsWriter(r)
                              /\ data' = data \cup {r}]_vars
  BY SaveStep
<1> QED
  BY <1>1, Inductive, Lives, DataAlways, PTL DEF Spec, SavesUnderLock

-----------------------------------------------------------------------------
(* Nobody is orphaned *)

\* Somebody is left to give r back: as NoOrphanLock, but by the operations
\* that lead to the deletion.
Covered(r) ==
  \/ waitTimer[r] = "armed"
  \/ r \in control
  \/ \E m \in In(ServerOf[r]) : m.op \in {"create", "get", "set"} /\ m.r = r
  \/ \E m \in Out(ServerOf[r]) : m.op \in {"get", "set", "delete"} /\ m.r = r

\* Only the znode that is watched or deleted may be missing; nothing fails.
NothingFails ==
  \A s \in Server : \A m \in In(s) : m.rc # "fail" /\ Plain(m, m.rc)

\* The wait timer is cleared when the lock is given.
ArmedWaits == \A r \in Request : waitTimer[r] = "armed" => promise[r] = "pending"

\* Every znode of a process that lives is covered.
AllCovered == \A r \in znodes : r \notin lost => Covered(r)

\* The inductive invariant of the second part.
CoverInv == disconnects = 0 => NothingFails /\ ArmedWaits /\ AllCovered

-----------------------------------------------------------------------------
(* The pipes after the turn of a request, from below. *)

\* Hearing drops the head of the inbox and keeps the rest.
LEMMA HeardKeeps ==
  ASSUME TypeOK, NEW r \in Request, Hears(r)
  PROVE  /\ \A t \in Server : \A m \in In(t)' : \E y \in In(t) : y.op = m.op /\ y.rc = m.rc
         /\ \A t \in Server : \A m \in In(t) :
              m.op = "event" \/ m \in In(t)' \/ (m = ReplyOf(r) /\ inbox' # inbox)
<1> DEFINE s == ServerOf[r]
<1>1. s \in Server /\ inbox \in [Server -> Seq(Message)] /\ inbox[s] \in Seq(Message)
  BY ServerOfAssumption DEF TypeOK, ZkTypeOK, Message
<1>2. CASE UNCHANGED inbox
  BY <1>2 DEF In
<1>3. CASE inbox[s] # << >> /\ Consume(r)
  <2>1. \A t \in Server : inbox'[t] = IF t = s THEN Tail(inbox[s]) ELSE inbox[t]
    BY <1>1, <1>3 DEF Consume
  <2>2. Msgs(inbox[s]) = Msgs(Tail(inbox[s])) \cup {Head(inbox[s])}
    BY <1>1, <1>3, MsgsTail
  <2>3. \A t \in Server : In(t)' \subseteq In(t)
    BY <2>1, <2>2 DEF In
  <2>4. \A t \in Server : \A m \in In(t) : m \in In(t)' \/ m = Head(inbox[s])
    BY <2>1, <2>2 DEF In
  <2>5. UNCHANGED inbox => \A t \in Server : In(t)' = In(t)
    BY DEF In
  <2> QED
    BY <2>3, <2>4, <2>5 DEF ReplyOf
<1>4. CASE EventArrived(r) /\ ConsumeEvent(r)
  <2>1. inbox[s] # << >>
    BY <1>4 DEF EventArrived
  <2>2. PICK h : h = Head(inbox[s])
    OBVIOUS
  <2>3. PICK e : e = WatchEvent(h.rc, h.val \ {r})
    OBVIOUS
  <2>4. \A t \in Server : inbox'[t] =
          IF t # s THEN inbox[t]
          ELSE IF h.val = {r} THEN Tail(inbox[s]) ELSE <<e>> \o Tail(inbox[s])
    BY <1>1, <1>4, <2>2, <2>3 DEF ConsumeEvent
  <2>5. h \in Message /\ h.op = "event" /\ h \in Msgs(inbox[s])
    BY <1>1, <1>4, <2>1, <2>2, MsgsTail, MsgsTyped DEF EventArrived, In
  <2>6. e \in Message /\ e.op = "event" /\ e.rc = h.rc
    BY <2>3, <2>5 DEF WatchEvent, Message, Reply, Event, Op
  <2>7. /\ Msgs(inbox[s]) = Msgs(Tail(inbox[s])) \cup {h}
        /\ Msgs(<<e>> \o Tail(inbox[s])) = Msgs(Tail(inbox[s])) \cup {e}
    BY <1>1, <2>1, <2>2, <2>6, MsgsTail, MsgsReplaceHead
  <2>8. \A t \in Server : \A m \in In(t)' : m \in In(t) \/ (m = e /\ t = s)
    BY <2>4, <2>7 DEF In
  <2>9. \A t \in Server : \A m \in In(t) : m \in In(t)' \/ m = h
    BY <2>4, <2>7 DEF In
  <2>10. h \in In(s)
    BY <2>5 DEF In
  <2> QED
    BY <2>5, <2>6, <2>8, <2>9, <2>10
<1> QED
  BY <1>2, <1>3, <1>4 DEF Hears

\* Saying keeps the operations under way.
LEMMA SaidKeeps ==
  ASSUME TypeOK, NEW r \in Request, NEW q, Says(r, q)
  PROVE  /\ \A t \in Server : Out(t) \subseteq Out(t)'
         /\ UNCHANGED outbox \/ q \in Out(ServerOf[r])'
<1> DEFINE s == ServerOf[r]
<1>1. s \in Server /\ outbox \in [Server -> Seq(Operation)] /\ outbox[s] \in Seq(Operation)
  BY ServerOfAssumption DEF TypeOK, ZkTypeOK
<1>2. CASE UNCHANGED outbox
  BY <1>2 DEF Out
<1>3. CASE q \in Operation /\ Send(s, q)
  <2>1. \A t \in Server : outbox'[t] = IF t = s THEN Append(outbox[s], q) ELSE outbox[t]
    BY <1>1, <1>3 DEF Send
  <2>2. Msgs(Append(outbox[s], q)) = Msgs(outbox[s]) \cup {q}
    BY <1>1, <1>3, MsgsAppend
  <2> QED
    BY <1>1, <2>1, <2>2 DEF Out
<1> QED
  BY <1>2, <1>3 DEF Says

\* What the turn of a request has to show of that request alone.
LEMMA TurnCover ==
  ASSUME IndInv, LifeInv, NothingFails, ArmedWaits, AllCovered, NEW r \in Request, Hears(r), NEW q, Says(r, q),
         UNCHANGED <<znodes, lost>>, inbox' # inbox => ReplyOf(r).op = "event" \/ ReplyOf(r).r = r,
         \A x \in Request : x # r => /\ waitTimer'[x] = waitTimer[x] /\ promise'[x] = promise[x]
                                     /\ x \in control' <=> x \in control,
         waitTimer'[r] = "armed" => promise'[r] = "pending",
         r \in znodes /\ r \notin lost => Covered(r)'
  PROVE  CoverInv'
<1>1. NothingFails'
  BY HeardKeeps DEF NothingFails, Plain, IndInv
<1>2. ArmedWaits'
  BY DEF ArmedWaits
<1>3. ASSUME NEW x \in znodes', x \notin lost', x # r PROVE Covered(x)'
  <2>1. x \in Request /\ Covered(x) /\ ServerOf[x] \in Server
    BY <1>3, ServerOfAssumption DEF AllCovered, IndInv, TypeOK, ZkTypeOK
  <2>2. CASE waitTimer[x] = "armed" \/ x \in control
    BY <1>3, <2>1, <2>2 DEF Covered
  <2>3. CASE \E m \in In(ServerOf[x]) : m.op \in {"create", "get", "set"} /\ m.r = x
    <3>1. PICK m \in In(ServerOf[x]) : m.op \in {"create", "get", "set"} /\ m.r = x
      BY <2>3
    <3>2. m \in In(ServerOf[x])'
      BY <1>3, <2>1, <3>1, HeardKeeps DEF IndInv
    <3> QED
      BY <3>1, <3>2 DEF Covered
  <2>4. CASE \E m \in Out(ServerOf[x]) : m.op \in {"get", "set", "delete"} /\ m.r = x
    BY <2>1, <2>4, SaidKeeps DEF Covered, IndInv
  <2> QED
    BY <2>1, <2>2, <2>3, <2>4 DEF Covered
<1>4. AllCovered'
  BY <1>3 DEF AllCovered
<1> QED
  BY <1>1, <1>2, <1>4 DEF CoverInv

\* A turn that takes nothing away from who covers r.
LEMMA CoverKept ==
  ASSUME IndInv, NEW r \in Request, Hears(r), NEW q, Says(r, q), Covered(r),
         waitTimer[r] = "armed" => waitTimer'[r] = "armed", control \subseteq control',
         inbox' # inbox => ReplyOf(r).op \notin {"create", "get", "set"}
  PROVE  Covered(r)'
<1>1. ServerOf[r] \in Server
  BY ServerOfAssumption
<1>2. CASE waitTimer[r] = "armed" \/ r \in control
  BY <1>2 DEF Covered
<1>3. CASE \E m \in In(ServerOf[r]) : m.op \in {"create", "get", "set"} /\ m.r = r
  <2>1. PICK m \in In(ServerOf[r]) : m.op \in {"create", "get", "set"} /\ m.r = r
    BY <1>3
  <2>2. m \in In(ServerOf[r])'
    BY <1>1, <2>1, HeardKeeps DEF IndInv
  <2> QED
    BY <2>1, <2>2 DEF Covered
<1>4. CASE \E m \in Out(ServerOf[r]) : m.op \in {"get", "set", "delete"} /\ m.r = r
  BY <1>1, <1>4, SaidKeeps DEF Covered, IndInv
<1> QED
  BY <1>2, <1>3, <1>4 DEF Covered

\* A turn that sends an operation that leads to the deletion.
LEMMA CoverSent ==
  ASSUME IndInv, NEW r \in Request, NEW op \in {"get", "set", "delete"}, NEW arg \in SUBSET Request,
         NEW by \in Caller, SendFor(r, op, arg, by)
  PROVE  Covered(r)' /\ Says(r, Request_(op, r, arg, by))
<1>1. op \in Op /\ ServerOf[r] \in Server
  BY ServerOfAssumption DEF Op
<1>2. PICK q : q = Request_(op, r, arg, by)
  OBVIOUS
<1>3. q \in Operation /\ q.op = op /\ q.r = r /\ Send(ServerOf[r], q)
  BY <1>1, <1>2 DEF SendFor, Request_, Operation
<1>4. outbox \in [Server -> Seq(Operation)] /\ outbox[ServerOf[r]] \in Seq(Operation)
  BY <1>1 DEF IndInv, TypeOK, ZkTypeOK
<1>5. outbox'[ServerOf[r]] = Append(outbox[ServerOf[r]], q)
  BY <1>1, <1>3, <1>4 DEF Send
<1>6. q \in Out(ServerOf[r])'
  BY <1>3, <1>4, <1>5, MsgsAppend DEF Out
<1> QED
  BY <1>2, <1>3, <1>6 DEF Covered, Says

-----------------------------------------------------------------------------
(* The turns of a request. *)

\* What a turn of r leaves to the others.
Mine(r) ==
  /\ UNCHANGED <<znodes, lost>>
  /\ \A x \in Request : x # r => /\ waitTimer'[x] = waitTimer[x] /\ promise'[x] = promise[x]
                                 /\ x \in control' <=> x \in control

\* A turn that only takes an unimportant message, and may ask for something.
LEMMA QuietCover ==
  ASSUME IndInv, LifeInv, NothingFails, ArmedWaits, AllCovered, NEW r \in Request, Hears(r), NEW q, Says(r, q),
         Mine(r), waitTimer'[r] = waitTimer[r], control' = control,
         waitTimer[r] = "armed" => promise'[r] = promise[r],
         inbox' # inbox => ReplyOf(r).op = "event" \/ ReplyOf(r).r = r,
         inbox' # inbox => ReplyOf(r).op \notin {"create", "get", "set"}
  PROVE  CoverInv'
<1>1. waitTimer'[r] = "armed" => promise'[r] = "pending"
  BY DEF ArmedWaits
<1>2. r \in znodes /\ r \notin lost => Covered(r)'
  BY CoverKept DEF AllCovered
<1> QED
  BY <1>1, <1>2, TurnCover DEF Mine

\* A turn that gives r back, or goes on to.
LEMMA SendCover ==
  ASSUME IndInv, LifeInv, NothingFails, ArmedWaits, AllCovered, NEW r \in Request, Hears(r), Mine(r),
         NEW op \in {"get", "set", "delete"}, NEW arg \in SUBSET Request, NEW by \in Caller,
         SendFor(r, op, arg, by), inbox' # inbox => ReplyOf(r).r = r,
         waitTimer'[r] = "armed" => promise'[r] = "pending"
  PROVE  CoverInv'
<1>1. PICK q : Covered(r)' /\ Says(r, q)
  BY CoverSent
<1> QED
  BY <1>1, TurnCover DEF Mine

\* What the reply to an operation says when nothing fails.
LEMMA FindsOk ==
  ASSUME IndInv, LifeInv, NothingFails, NEW r \in Request, NEW op \in Op, NEW by, Arrived(r, op, by), Consume(r)
  PROVE  /\ Hears(r) /\ ReplyOf(r).op = op /\ ReplyOf(r).r = r /\ MessageOK(ReplyOf(r))
         /\ ReplyOf(r).rc # "fail" /\ (op \notin {"exists", "delete"} => ReplyOf(r).rc = "ok")
<1>1. /\ ReplyOf(r).op = op /\ ReplyOf(r).r = r /\ MessageOK(ReplyOf(r))
      /\ ReplyOf(r) \in In(ServerOf[r]) /\ ServerOf[r] \in Server /\ ReplyOf(r) \in Reply
  BY Finds
<1>2. ReplyOf(r).rc # "fail" /\ Plain(ReplyOf(r), ReplyOf(r).rc)
  BY <1>1 DEF NothingFails
<1>3. ReplyOf(r).rc \in {"ok", "nonode", "fail"}
  BY <1>1 DEF Reply
<1> QED
  BY <1>1, <1>2, <1>3 DEF Hears, Arrived, Plain

\* A callback of the lock.
LEMMA LockCover ==
  ASSUME IndInv, LifeInv, NothingFails, ArmedWaits, AllCovered, NEW r \in Request, LockCallback(r)
  PROVE  CoverInv'
<1> DEFINE m == ReplyOf(r)
<1>1. /\ UNCHANGED <<znodes, lost, control>> /\ Hears(r)
      /\ \A x \in Request : x # r => waitTimer'[x] = waitTimer[x] /\ promise'[x] = promise[x]
  <2>1. UNCHANGED <<znodes, lost, control>>
    BY DEF LockCallback, PathEnsured, Created, Listed, ExistsReplied, WatchFired, WaitUnlocked, storeVars
  <2>2. \A x \in Request : x # r => waitTimer'[x] = waitTimer[x] /\ promise'[x] = promise[x]
    BY DEF LockCallback, PathEnsured, Created, Listed, ExistsReplied, WatchFired, WaitUnlocked, Reject,
       lockVars, IndInv, TypeOK, LockTypeOK
  <2> QED
    BY <2>1, <2>2, LockSays
<1>2. Mine(r)
  BY <1>1 DEF Mine
<1>3. PICK q : Says(r, q)
  BY LockSays
<1>4. \A op \in {"path", "create", "children", "exists", "delete", "get"} : op \in Op
  BY DEF Op
<1>5. "lock" \in Caller /\ {} \in SUBSET Request
  BY DEF Caller
<1>6. waitTimer \in [Request -> {"off", "armed", "fired"}]
  BY DEF IndInv, TypeOK, LockTypeOK
<1>7. CASE PathEnsured(r)
  <2>1. Arrived(r, "path", "lock") /\ Consume(r)
    BY <1>7 DEF PathEnsured
  <2>2. m.op = "path" /\ m.r = r /\ m.rc = "ok"
    BY <1>4, <2>1, FindsOk
  <2>3. UNCHANGED <<promise, waitTimer>>
    BY <1>7, <2>2 DEF PathEnsured
  <2> QED
    BY <1>1, <1>2, <1>3, <2>2, <2>3, QuietCover
<1>8. CASE Created(r)
  <2>1. Arrived(r, "create", "lock") /\ Consume(r)
    BY <1>8 DEF Created
  <2>2. m.op = "create" /\ m.r = r /\ m.rc = "ok" /\ MessageOK(m)
    BY <1>4, <2>1, FindsOk
  <2>3. UNCHANGED promise /\ waitTimer'[r] = "armed" /\ promise[r] = "pending"
    BY <1>6, <1>8, <2>2 DEF Created, MessageOK
  <2>4. Covered(r)'
    BY <2>3 DEF Covered
  <2> QED
    BY <1>1, <1>2, <1>3, <2>2, <2>3, <2>4, TurnCover DEF Mine
<1>9. CASE Listed(r, Request_("get", r, {}, "lock"))
  <2>1. Arrived(r, "children", "lock") /\ Consume(r)
    BY <1>9 DEF Listed
  <2>2. m.op = "children" /\ m.r = r /\ m.rc = "ok"
    BY <1>4, <2>1, FindsOk
  <2>3. CASE UNCHANGED <<promise, waitTimer>>
    BY <1>1, <1>2, <1>3, <2>2, <2>3, QuietCover
  <2>4. CASE ~(UNCHANGED <<promise, waitTimer>>)
    <3>1. /\ waitTimer' = [waitTimer EXCEPT ![r] = IF @ = "armed" THEN "off" ELSE @]
          /\ \/ SendFor(r, "get", {}, "lock")
             \/ promise[r] # "pending" /\ UNCHANGED promise
      BY <1>9, <2>2, <2>4 DEF Listed, lockVars, SendFor
    <3>2. waitTimer'[r] # "armed"
      BY <1>6, <3>1
    <3>3. CASE SendFor(r, "get", {}, "lock")
      BY <1>1, <1>2, <1>5, <2>2, <3>2, <3>3, SendCover
    <3>4. CASE promise[r] # "pending" /\ UNCHANGED promise
      <4>1. waitTimer[r] # "armed"
        BY <3>4 DEF ArmedWaits
      <4>2. waitTimer'[r] = waitTimer[r]
        BY <1>6, <3>1, <4>1
      <4> QED
        BY <1>1, <1>2, <1>3, <2>2, <3>4, <4>2, QuietCover
    <3> QED
      BY <3>1, <3>3, <3>4
  <2> QED
    BY <2>3, <2>4
<1>10. CASE ExistsReplied(r)
  <2>1. Arrived(r, "exists", "lock") /\ Consume(r)
    BY <1>10 DEF ExistsReplied
  <2>2. m.op = "exists" /\ m.r = r /\ m.rc # "fail"
    BY <1>4, <2>1, FindsOk
  <2>3. UNCHANGED <<promise, waitTimer>>
    BY <1>10, <2>2 DEF ExistsReplied
  <2> QED
    BY <1>1, <1>2, <1>3, <2>2, <2>3, QuietCover
<1>11. CASE WatchFired(r)
  <2>1. EventArrived(r) /\ ConsumeEvent(r) /\ ServerOf[r] \in Server
    BY <1>11, ServerOfAssumption DEF WatchFired
  <2>2. m \in In(ServerOf[r]) /\ m.op = "event" /\ m \in Message
    BY <2>1, MsgsTail, MsgsTyped DEF EventArrived, ReplyOf, In, IndInv
  <2>3. m.rc = "ok"
    BY <2>1, <2>2 DEF NothingFails, Message, Reply, Event, Op
  <2>4. UNCHANGED <<promise, waitTimer>>
    BY <1>11, <2>3 DEF WatchFired
  <2> QED
    BY <1>1, <1>2, <1>3, <2>2, <2>4, QuietCover
<1>12. CASE WaitUnlocked(r)
  <2>1. Arrived(r, "delete", "wait") /\ Consume(r)
    BY <1>12 DEF WaitUnlocked
  <2>2. m.op = "delete" /\ m.r = r /\ MessageOK(m)
    BY <1>4, <2>1, FindsOk
  <2>3. m.by = "wait"
    BY <2>1 DEF Arrived, ReplyOf
  <2>4. waitTimer[r] = "fired" /\ UNCHANGED waitTimer
    BY <1>12, <2>2, <2>3 DEF WaitUnlocked, MessageOK
  <2> QED
    BY <1>1, <1>2, <1>3, <2>2, <2>4, QuietCover
<1> QED
  BY <1>7, <1>8, <1>9, <1>10, <1>11, <1>12 DEF LockCallback

\* A turn of a request hands the care for its znode on.
LEMMA RequestCover ==
  ASSUME IndInv, LifeInv, NothingFails, ArmedWaits, AllCovered, NEW r \in Request, RequestNext(r)
  PROVE  CoverInv'
<1> DEFINE m == ReplyOf(r)
<1>1. /\ "path" \in Op /\ "get" \in Op /\ "set" \in Op /\ "delete" \in Op
      /\ \A by \in {"lock", "wait", "save", "unlock", "hold"} : by \in Caller
      /\ {} \in SUBSET Request /\ read[r] \cup {r} \in SUBSET Request
  BY DEF Op, Caller, IndInv, TypeOK
<1>2. waitTimer[r] = "armed" => promise[r] = "pending"
  BY DEF ArmedWaits
<1>3. PICK q : q = Request_("path", r, {}, "lock")
  OBVIOUS
<1>4. ASSUME UNCHANGED <<znodes, lost, waitTimer, promise>>, control' = control \/ control' = control \ {r}
                                                              \/ control' = control \cup {r}
      PROVE  Mine(r)
  BY <1>4 DEF Mine
<1>5. ASSUME Hears(r), UNCHANGED outbox, UNCHANGED <<znodes, lost, waitTimer, promise, control>>,
             inbox' # inbox => m.r = r /\ m.op \notin {"create", "get", "set"}
      PROVE  CoverInv'
  <2>1. Says(r, q) /\ Mine(r)
    BY <1>4, <1>5 DEF Says
  <2> QED
    BY <1>5, <2>1, QuietCover
<1>6. CASE \E c \in Commands : RecvLock(r, c)
  <2>1. /\ UNCHANGED <<znodes, lost, waitTimer, control, inbox>> /\ cmd[r] = "none"
        /\ \A x \in Request : x # r => promise'[x] = promise[x]
        /\ SendFor(r, "path", {}, "lock") /\ promise'[r] = "pending"
    BY <1>6 DEF RecvLock, Lock, storeVars, mgrVars, IndInv, TypeOK, LockTypeOK
  <2>2. r \notin znodes
    BY <2>1 DEF IndInv, NumbersInOrder
  <2>3. Says(r, q) /\ Hears(r)
    BY <1>1, <1>3, <2>1, SilentRequests DEF Hears
  <2> QED
    BY <2>1, <2>2, <2>3, TurnCover
<1>7. CASE LockCallback(r)
  BY <1>7, LockCover
<1>8. CASE WaitTimeout(r)
  <2>1. /\ UNCHANGED <<znodes, lost, control, inbox, promise>> /\ waitTimer'[r] = "fired"
        /\ \A x \in Request : x # r => waitTimer'[x] = waitTimer[x]
        /\ SendFor(r, "delete", {}, "wait")
    BY <1>8 DEF WaitTimeout, LockWaitTimeout, storeVars, mgrVars, IndInv, TypeOK, LockTypeOK
  <2>2. Hears(r) /\ Mine(r)
    BY <2>1 DEF Hears, Mine
  <2> QED
    BY <1>1, <2>1, <2>2, SendCover
<1>9. CASE HoldTimeout(r)
  <2>1. /\ UNCHANGED <<znodes, lost, inbox, promise, waitTimer>> /\ control' = control \ {r}
        /\ SendFor(r, "delete", {}, "hold")
    BY <1>9 DEF HoldTimeout, storeVars, lockVars
  <2>2. Hears(r) /\ Mine(r)
    BY <1>4, <2>1 DEF Hears
  <2> QED
    BY <1>1, <1>2, <2>1, <2>2, SendCover
<1>10. CASE RecvUnlock(r)
  <2>1. UNCHANGED <<znodes, lost, inbox, promise, waitTimer>>
    BY <1>10 DEF RecvUnlock, storeVars, lockVars
  <2>2. Hears(r)
    BY <2>1 DEF Hears
  <2>3. CASE r \notin control
    <3>1. UNCHANGED <<outbox, control>>
      BY <1>10, <2>3 DEF RecvUnlock
    <3> QED
      BY <1>5, <2>1, <2>2, <3>1
  <2>4. CASE r \in control
    <3>1. control' = control \ {r} /\ SendFor(r, "delete", {}, "unlock")
      BY <1>10, <2>4 DEF RecvUnlock
    <3>2. Mine(r)
      BY <1>4, <2>1, <3>1
    <3> QED
      BY <1>1, <1>2, <2>1, <2>2, <3>1, <3>2, SendCover
  <2> QED
    BY <2>3, <2>4
<1>11. CASE RecvSave(r)
  <2>1. UNCHANGED <<znodes, lost, inbox, promise, waitTimer>>
    BY <1>11 DEF RecvSave, storeVars, lockVars
  <2>2. Hears(r)
    BY <2>1 DEF Hears
  <2>3. CASE SaveRefused(r)
    <3>1. UNCHANGED <<outbox, control>>
      BY <1>11, <2>3 DEF RecvSave
    <3> QED
      BY <1>5, <2>1, <2>2, <3>1
  <2>4. CASE ~SaveRefused(r)
    <3>1. control' = control \ {r}
      BY <1>11, <2>4 DEF RecvSave
    <3>2. PICK arg \in SUBSET Request : arg = read[r] \cup {r}
      BY <1>1
    <3>3. SendFor(r, "set", arg, "save")
      BY <1>11, <2>4, <3>2 DEF RecvSave
    <3>4. Mine(r)
      BY <1>4, <2>1, <3>1
    <3>5. waitTimer'[r] = "armed" => promise'[r] = "pending"
      BY <1>2, <2>1
    <3> QED
      BY <1>1, <2>1, <2>2, <3>3, <3>4, <3>5, SendCover
  <2> QED
    BY <2>3, <2>4
<1>12. CASE GetReplied(r)
  <2>1. Arrived(r, "get", "lock") /\ Consume(r) /\ UNCHANGED <<znodes, lost, promise, waitTimer>>
    BY <1>12 DEF GetReplied, storeVars, lockVars
  <2>2. Hears(r) /\ m.r = r /\ m.rc = "ok"
    BY <1>1, <2>1, FindsOk
  <2>3. CASE control' = control \cup {r} /\ UNCHANGED outbox
    <3>1. Covered(r)'
      BY <2>3 DEF Covered
    <3>2. Mine(r) /\ Says(r, q)
      BY <1>4, <2>1, <2>3 DEF Says
    <3> QED
      BY <1>2, <2>1, <2>2, <3>1, <3>2, TurnCover DEF Mine
  <2>4. CASE control' = control /\ SendFor(r, "delete", {}, "unlock")
    <3>1. Mine(r)
      BY <1>4, <2>1, <2>4
    <3> QED
      BY <1>1, <1>2, <2>1, <2>2, <2>4, <3>1, SendCover
  <2> QED
    BY <1>12, <2>2, <2>3, <2>4 DEF GetReplied
<1>13. CASE SetReplied(r)
  <2>1. Arrived(r, "set", "save") /\ Consume(r) /\ UNCHANGED <<znodes, lost, promise, waitTimer, control>>
    BY <1>13 DEF SetReplied, storeVars, lockVars
  <2>2. Hears(r) /\ m.r = r /\ m.rc = "ok"
    BY <1>1, <2>1, FindsOk
  <2>3. SendFor(r, "delete", {}, "save")
    BY <1>13, <2>2 DEF SetReplied
  <2>4. Mine(r)
    BY <1>4, <2>1
  <2> QED
    BY <1>1, <1>2, <2>1, <2>2, <2>3, <2>4, SendCover
<1>14. CASE SaveUnlocked(r) \/ Unlocked(r) \/ HoldUnlocked(r)
  <2>1. PICK by \in Caller : Arrived(r, "delete", by)
    BY <1>1, <1>14 DEF SaveUnlocked, Unlocked, HoldUnlocked
  <2>2. Consume(r) /\ UNCHANGED <<outbox, znodes, lost, promise, waitTimer, control>>
    BY <1>14 DEF SaveUnlocked, Unlocked, HoldUnlocked, storeVars, lockVars, mgrVars
  <2>3. Hears(r) /\ m.r = r /\ m.op = "delete"
    BY <1>1, <2>1, <2>2, FindsOk
  <2> QED
    BY <1>5, <2>2, <2>3
<1> QED
  BY <1>6, <1>7, <1>8, <1>9, <1>10, <1>11, <1>12, <1>13, <1>14 DEF RequestNext, ReplyCallback

-----------------------------------------------------------------------------
(* The service, the crashes and the end of sessions. *)

\* An operation carried out leaves its reply, or the znode is gone.
LEMMA ServeCover ==
  ASSUME IndInv, LifeInv, NothingFails, ArmedWaits, AllCovered, NEW s \in Server, ZkServe(s)
  PROVE  CoverInv'
<1>1. UNCHANGED <<promise, waitTimer, control, lost>> /\ Serve(s)
  BY ServeKeeps
<1>2. PICK q : q = Head(outbox[s])
  OBVIOUS
<1>3. PICK a \in Reply : Served(s, q, a)
  BY <1>1, <1>2, ServedSets DEF IndInv, LifeInv
<1>4. /\ q \in Out(s) /\ a \in In(s)' /\ a.op = q.op /\ a.r = q.r
      /\ a.rc # "fail" /\ Plain(a, a.rc)
      /\ Out(s) = Out(s)' \cup {q}
      /\ \A t \in Server : t # s => Out(t)' = Out(t)
      /\ \A t \in Server : In(t) \subseteq In(t)'
      /\ \A t \in Server : \A m \in In(t)' : m \in In(t) \/ m = a \/ m.op = "event"
      /\ \A t \in Server : \A m \in In(t)' : m.op = "event" =>
           m \in In(t) \/ m = WatchEvent("ok", Watchers(t, {q.r}))
  BY <1>3 DEF Served
<1>5. q.r \in Request /\ ServerOf[q.r] = s
  <2>1. q \in All(s) /\ q.op # "event"
    BY <1>4, MsgsTyped DEF All, IndInv, Operation, Op
  <2> QED
    BY <2>1, Homes DEF IndInv
<1>6. NothingFails'
  BY <1>4 DEF NothingFails, Plain, WatchEvent
<1>7. ArmedWaits'
  BY <1>1 DEF ArmedWaits
<1>8. /\ q.op = "delete" => q.r \notin znodes'
      /\ \A x \in znodes' : x \in znodes \/ (x = q.r /\ q.op = "create")
  BY <1>1, <1>2 DEF Serve, Serving, ServePath, ServeCreate, ServeChildren, ServeExists, ServeGet, ServeSet,
     ServeDelete, storeVars
<1>9. ASSUME NEW x \in znodes', x \notin lost' PROVE Covered(x)'
  <2>1. CASE x = q.r /\ q.op = "create"
    BY <1>4, <1>5, <2>1 DEF Covered
  <2>2. CASE x \in znodes
    <3>1. Covered(x) /\ ServerOf[x] \in Server
      BY <1>1, <1>9, <2>2, ServerOfAssumption DEF AllCovered, IndInv, TypeOK, ZkTypeOK
    <3>2. CASE \E m \in Out(ServerOf[x]) : m.op \in {"get", "set", "delete"} /\ m.r = x
      <4>1. PICK m \in Out(ServerOf[x]) : m.op \in {"get", "set", "delete"} /\ m.r = x
        BY <3>2
      <4>2. CASE m = q
        <5>1. q.op \in {"get", "set"}
          BY <1>8, <1>9, <4>1, <4>2
        <5> QED
          BY <1>4, <1>5, <4>1, <4>2, <5>1 DEF Covered
      <4>3. CASE m # q
        <5>1. m \in Out(ServerOf[x])'
          BY <1>4, <3>1, <4>1, <4>3
        <5> QED
          BY <4>1, <5>1 DEF Covered
      <4> QED
        BY <4>2, <4>3
    <3>3. CASE \E m \in In(ServerOf[x]) : m.op \in {"create", "get", "set"} /\ m.r = x
      BY <1>4, <3>1, <3>3 DEF Covered
    <3>4. CASE waitTimer[x] = "armed" \/ x \in control
      BY <1>1, <3>4 DEF Covered
    <3> QED
      BY <3>1, <3>2, <3>3, <3>4 DEF Covered
  <2> QED
    BY <1>8, <2>1, <2>2
<1>10. AllCovered'
  BY <1>9 DEF AllCovered
<1> QED
  BY <1>6, <1>7, <1>10 DEF CoverInv

\* A crash loses the requests with their entries.
LEMMA CrashCover ==
  ASSUME IndInv, LifeInv, NothingFails, ArmedWaits, AllCovered, NEW s \in Server, Crash(s)
  PROVE  CoverInv'
<1>1. /\ UNCHANGED <<promise, znodes>>
      /\ lost' = lost \cup {r \in Request : ServerOf[r] = s /\ cmd[r] # "none"}
      /\ control' = {r \in control : ServerOf[r] # s}
      /\ \A r \in Request : waitTimer'[r] =
           IF ServerOf[r] = s /\ waitTimer[r] = "armed" THEN "off" ELSE waitTimer[r]
      /\ \A t \in Server : /\ inbox'[t] = IF t = s THEN << >> ELSE inbox[t]
                           /\ outbox'[t] = IF t = s THEN << >> ELSE outbox[t]
  BY DEF Crash, Abandon, IndInv, TypeOK, ZkTypeOK
<1>2. /\ In(s)' = {} /\ Out(s)' = {}
      /\ \A t \in Server : t # s => In(t)' = In(t) /\ Out(t)' = Out(t)
  BY <1>1, MsgsEmpty DEF In, Out
<1>3. NothingFails'
  BY <1>2 DEF NothingFails
<1>4. ArmedWaits'
  BY <1>1 DEF ArmedWaits
<1>5. ASSUME NEW x \in znodes', x \notin lost' PROVE Covered(x)'
  <2>1. x \in Request /\ x \in znodes /\ cmd[x] # "none" /\ ServerOf[x] \in Server
    BY <1>1, ServerOfAssumption DEF IndInv, TypeOK, ZkTypeOK, NumbersInOrder
  <2>2. ServerOf[x] # s /\ x \notin lost
    BY <1>1, <1>5, <2>1
  <2>3. Covered(x)
    BY <2>1, <2>2 DEF AllCovered
  <2> QED
    BY <1>1, <1>2, <2>1, <2>2, <2>3 DEF Covered
<1>6. AllCovered'
  BY <1>5 DEF AllCovered
<1> QED
  BY <1>3, <1>4, <1>6 DEF CoverInv

\* A session that expires takes its znodes with it.
LEMMA SessionExpiresCover ==
  ASSUME IndInv, LifeInv, NothingFails, ArmedWaits, AllCovered, NEW s \in Server, SessionExpires(s)
  PROVE  CoverInv'
<1>1. PICK Z : Z = {z \in znodes \cap lost : ServerOf[z] = s}
  OBVIOUS
<1>2. /\ znodes' = znodes \ Z /\ inbox' = Notified(Z)
      /\ UNCHANGED <<outbox, waitTimer, promise, control, lost>>
  BY <1>1 DEF SessionExpires, RemoveEphemerals, lockVars, mgrVars
<1>3. \A t \in Server :
        /\ Out(t)' = Out(t) /\ In(t) \subseteq In(t)'
        /\ \A m \in In(t)' : m \in In(t) \/ m = WatchEvent("ok", Watchers(t, Z))
  BY <1>2, NotifiedSets DEF In, Out, IndInv, LifeInv
<1>4. NothingFails'
  BY <1>3 DEF NothingFails, Plain, WatchEvent
<1>5. ArmedWaits'
  BY <1>2 DEF ArmedWaits
<1>6. ASSUME NEW x \in znodes', x \notin lost' PROVE Covered(x)'
  <2>1. Covered(x) /\ ServerOf[x] \in Server
    BY <1>2, <1>6, ServerOfAssumption DEF AllCovered, IndInv, TypeOK, ZkTypeOK
  <2> QED
    BY <1>2, <1>3, <2>1 DEF Covered
<1>7. AllCovered'
  BY <1>6 DEF AllCovered
<1> QED
  BY <1>4, <1>5, <1>7 DEF CoverInv

\* Every step keeps every znode covered.
LEMMA CoverStep ==
  ASSUME IndInv, LifeInv, CoverInv, [Next]_vars
  PROVE  CoverInv'
<1>1. CASE UNCHANGED vars
  <2>1. UNCHANGED <<znodes, lost, disconnects, waitTimer, promise, control, inbox, outbox>>
    BY <1>1 DEF vars, zkVars, storeVars, lockVars, mgrVars
  <2>2. \A t \in Server : In(t)' = In(t) /\ Out(t)' = Out(t)
    BY <2>1 DEF In, Out
  <2>3. \A x \in Request : Covered(x) => Covered(x)'
    <3>1. \A x \in Request : ServerOf[x] \in Server
      BY ServerOfAssumption
    <3> QED
      BY <2>1, <2>2, <3>1 DEF Covered
  <2>4. znodes \subseteq Request
    BY DEF IndInv, TypeOK, ZkTypeOK
  <2> QED
    BY <2>1, <2>2, <2>3, <2>4 DEF CoverInv, NothingFails, ArmedWaits, AllCovered
<1>2. ASSUME NEW r \in Request, RequestNext(r) PROVE CoverInv'
  BY <1>2, RequestKeeps, RequestCover DEF CoverInv
<1>3. ASSUME NEW s \in Server, ServerNext(s) PROVE CoverInv'
  <2>1. CASE ZkServe(s)
    BY <2>1, ServeKeeps, ServeCover DEF CoverInv
  <2>2. CASE ZkDisconnect(s)
    <3>1. disconnects' # 0
      BY <2>2 DEF ZkDisconnect, Disconnect, IndInv, TypeOK, ZkTypeOK
    <3> QED
      BY <3>1 DEF CoverInv
  <2>3. CASE Crash(s)
    BY <2>3, CrashCover DEF Crash, Abandon, CoverInv
  <2>4. CASE SessionExpires(s)
    BY <2>4, SessionExpiresCover DEF SessionExpires, RemoveEphemerals, CoverInv
  <2> QED
    BY <1>3, <2>1, <2>2, <2>3, <2>4 DEF ServerNext
<1> QED
  BY <1>1, <1>2, <1>3 DEF Next

\* Until a connection is lost, every lock znode has somebody left to give it
\* back: its wait timer, its entry, an operation under way, or the end of the
\* session of a process that crashed.
THEOREM NoLockIsOrphaned == Spec => []NoOrphanLock
<1>1. ASSUME Init PROVE CoverInv
  <2>1. \A s \in Server : In(s) = {}
    BY <1>1, MsgsEmpty DEF Init, ZkInit, In
  <2> QED
    BY <1>1, <2>1 DEF Init, ZkInit, LockInit, CoverInv, NothingFails, ArmedWaits, AllCovered
<1>2. IndInv /\ LifeInv /\ CoverInv /\ [Next]_vars => CoverInv'
  BY CoverStep
<1>3. IndInv /\ CoverInv => NoOrphanLock
  <2> SUFFICES ASSUME IndInv, CoverInv, disconnects = 0, NEW r \in znodes, r \notin lost,
                      waitTimer[r] # "armed", r \notin control
               PROVE  UnderWay(r)
    BY DEF NoOrphanLock
  <2>1. Covered(r)
    BY DEF CoverInv, AllCovered
  <2>2. CASE \E m \in In(ServerOf[r]) : m.op \in {"create", "get", "set"} /\ m.r = r
    BY <2>2 DEF UnderWay, In, Msgs
  <2>3. CASE \E m \in Out(ServerOf[r]) : m.op \in {"get", "set", "delete"} /\ m.r = r
    BY <2>3 DEF UnderWay, Out, Msgs
  <2> QED
    BY <2>1, <2>2, <2>3 DEF Covered
<1> QED
  BY <1>1, <1>2, <1>3, Inductive, Lives, PTL DEF Spec

-----------------------------------------------------------------------------
(* The refinement. *)

\* Nobody ran out of patience and nobody has znode number 0.
Patient ==
  /\ nextSeq > 0
  /\ \A r \in Request : waitTimer[r] # "fired" /\ seq[r] # 0

\* Without impatient requests no wait timer fires before its time.
LEMMA PatientStep ==
  ASSUME TypeOK, Patient, Impatient = {}, [Next]_vars
  PROVE  Patient'
<1> USE DEF TypeOK, ZkTypeOK, LockTypeOK
<1>1. CASE UNCHANGED vars
  BY <1>1 DEF vars, zkVars, storeVars, lockVars, Patient
<1>2. ASSUME NEW r \in Request, RequestNext(r) PROVE Patient'
  <2>1. UNCHANGED <<nextSeq, seq>>
    BY <1>2 DEF RequestNext, ReplyCallback, RecvLock, Lock, LockCallback, PathEnsured, Created, Listed,
       ExistsReplied, WatchFired, WaitUnlocked, WaitTimeout, LockWaitTimeout, RecvSave, RecvUnlock, GetReplied,
       SetReplied, SaveUnlocked, Unlocked, HoldUnlocked, HoldTimeout, storeVars
  <2>2. ~WaitTimeout(r)
    BY DEF WaitTimeout
  <2>3. \A x \in Request : waitTimer'[x] # "fired"
    BY <1>2, <2>2 DEF RequestNext, ReplyCallback, RecvLock, Lock, LockCallback, PathEnsured, Created, Listed,
       ExistsReplied, WatchFired, WaitUnlocked, RecvSave, RecvUnlock, GetReplied, SetReplied, SaveUnlocked,
       Unlocked, HoldUnlocked, HoldTimeout, lockVars, Patient
  <2> QED
    BY <2>1, <2>3 DEF Patient
<1>3. ASSUME NEW s \in Server, ServerNext(s) PROVE Patient'
  <2>1. \A x \in Request : waitTimer'[x] # "fired"
    BY <1>3 DEF ServerNext, ZkServe, ZkDisconnect, Crash, SessionExpires, lockVars, Patient
  <2>2. CASE ZkServe(s) /\ ServeCreate(s)
    <3>1. nextSeq' = nextSeq + 1 /\ \A x \in Request : seq'[x] \in {seq[x], nextSeq}
      BY <2>2 DEF ServeCreate
    <3> QED
      BY <2>1, <3>1 DEF Patient
  <2>3. CASE ~(ZkServe(s) /\ ServeCreate(s))
    <3>1. UNCHANGED <<nextSeq, seq>>
      BY <1>3, <2>3 DEF ServerNext, ZkServe, ZkDisconnect, Crash, SessionExpires, Serve, ServePath, ServeChildren,
         ServeExists, ServeGet, ServeSet, ServeDelete, Disconnect, Abandon, RemoveEphemerals, storeVars
    <3> QED
      BY <2>1, <3>1 DEF Patient
  <2> QED
    BY <2>2, <2>3
<1> QED
  BY <1>1, <1>2, <1>3 DEF Next

\* The requests that hold the lock.
Holders == {r \in Request : Holds(r)}

\* A step gives the lock to one request at most, or takes it from some.
LEMMA HoldersStep ==
  ASSUME IndInv, LifeInv, [Next]_vars
  PROVE  /\ \A x \in Holders : cmd'[x] = cmd[x]
         /\ \/ Holders' \subseteq Holders
            \/ \E r \in Request : r \notin Holders /\ Holders' = Holders \cup {r}
<1>1. CASE UNCHANGED vars
  BY <1>1 DEF vars, zkVars, storeVars, lockVars, Holders, Holds
<1>2. ASSUME NEW r \in Request, RequestNext(r)
      PROVE  /\ \A x \in Holders : cmd'[x] = cmd[x]
             /\ \/ Holders' \subseteq Holders
                \/ r \notin Holders /\ Holders' = Holders \cup {r}
  <2>1. \A x \in Holders : cmd[x] # "none"
    BY DEF Holders, Holds, IndInv, NumbersInOrder
  <2>2. /\ \A x \in Request : cmd[x] # "none" => cmd'[x] = cmd[x]
        /\ \A x \in Request : promise[x] = "acquired" => promise'[x] = "acquired"
    BY <1>2, RequestKeeps
  <2>3. UNCHANGED znodes /\ \A x \in Request : x # r => promise'[x] = promise[x]
    BY <1>2 DEF RequestNext, ReplyCallback, RecvLock, Lock, LockCallback, PathEnsured, Created, Listed,
       ExistsReplied, WatchFired, WaitUnlocked, WaitTimeout, LockWaitTimeout, RecvSave, RecvUnlock, GetReplied,
       SetReplied, SaveUnlocked, Unlocked, HoldUnlocked, HoldTimeout, Reject, storeVars, lockVars, mgrVars,
       IndInv, TypeOK, LockTypeOK
  <2> QED
    BY <2>1, <2>2, <2>3 DEF Holders, Holds
<1>3. ASSUME NEW s \in Server, ServerNext(s)
      PROVE  UNCHANGED cmd /\ Holders' \subseteq Holders
  <2>1. UNCHANGED <<cmd, promise>>
    BY <1>3 DEF ServerNext, ZkServe, ZkDisconnect, Crash, SessionExpires, lockVars
  <2>2. ASSUME NEW x \in znodes', x \notin znodes PROVE promise[x] = "pending"
    <3>1. ZkServe(s) /\ ServeCreate(s)
      BY <1>3, <2>2 DEF ServerNext, ZkServe, ZkDisconnect, Crash, SessionExpires, Serve, ServePath, ServeChildren,
         ServeExists, ServeGet, ServeSet, ServeDelete, Disconnect, Abandon, RemoveEphemerals, storeVars
    <3>2. PICK q : q = Head(outbox[s])
      OBVIOUS
    <3>3. x = q.r /\ q.op = "create" /\ outbox[s] # << >>
      BY <2>2, <3>1, <3>2 DEF ServeCreate, Serving
    <3>4. q \in All(s)
      BY <3>2, <3>3, MsgsTail, MsgsTyped DEF IndInv, All, Out
    <3>5. MessageOK(q)
      BY <3>3, <3>4 DEF LifeInv, MessagesOK
    <3> QED
      BY <3>3, <3>5 DEF MessageOK
  <2> QED
    BY <2>1, <2>2 DEF Holders, Holds
<1> QED
  BY <1>1, <1>2, <1>3 DEF Next

\* Without races with the wait timer and without znode number 0, the context
\* managers implement the read/write lock: a grant is an acquisition, the set
\* of a holder is a save, and what takes a znode away is a release.
THEOREM Implements ==
  ASSUME Impatient = {}, FirstSeq # 0
  PROVE  Spec => ImplementsReadWriteLock
<1>1. Init => RW!RWInit
  BY DEF Init, ZkInit, RW!RWInit, Readers, Writers, Holds
<1>2. Init => Patient
  BY FirstSeqAssumption DEF Init, ZkInit, LockInit, Patient, NoSeq
<1>3. IndInv /\ Patient /\ [Next]_vars => Patient'
  BY PatientStep DEF IndInv
<1>4. IndInv /\ IndInv' /\ LifeInv /\ DataInv /\ Patient /\ Patient' /\ [Next]_vars
        => [RW!RWNext]_RW!rwVars
  <2> SUFFICES ASSUME IndInv, IndInv', LifeInv, DataInv, Patient, Patient', [Next]_vars
               PROVE  RW!RWNext \/ UNCHANGED <<Readers, Writers, data>>
    BY DEF RW!rwVars
  <2>1. Orderly /\ Orderly'
    BY DEF Patient, Orderly, LateGrant
  <2>2. Readers = {x \in Holders : ~IsWriter(x)} /\ Writers = {x \in Holders : IsWriter(x)}
    BY DEF Readers, Writers, Holders
  <2>3. /\ Readers' = {x \in Holders' : cmd'[x] # "wlock_and_get"}
        /\ Writers' = {x \in Holders' : cmd'[x] = "wlock_and_get"}
    BY DEF Readers, Writers, Holders, IsWriter
  <2>4. \A x \in Holders : cmd'[x] = cmd[x]
    BY HoldersStep
  <2>5. Readers \subseteq Request /\ Writers \subseteq Request
    BY DEF Readers, Writers
  <2>6. CASE data' # data
    <3>1. /\ UNCHANGED <<znodes, promise>>
          /\ \E r \in Request : Holds(r) /\ IsWriter(r) /\ data' = data \cup {r}
      BY <2>1, <2>6, SaveStep
    <3>2. Holders' = Holders /\ \E r \in Request : r \in Writers /\ data' = data \cup {r}
      BY <3>1 DEF Holders, Holds, Writers
    <3>3. UNCHANGED <<Readers, Writers>>
      BY <2>2, <2>3, <2>4, <3>2 DEF IsWriter
    <3> QED
      BY <3>3, <3>2 DEF RW!RWNext, RW!Save
  <2>7. CASE data' = data /\ Holders' \subseteq Holders
    <3>1. PICK S \in SUBSET Request : S = Request \ Holders'
      OBVIOUS
    <3>2. Readers' = Readers \ S /\ Writers' = Writers \ S
      BY <2>2, <2>3, <2>4, <2>7, <3>1 DEF IsWriter, Holders
    <3>3. RW!Release(S)
      BY <2>7, <3>2 DEF RW!Release
    <3> QED
      BY <3>3 DEF RW!RWNext
  <2>8. ASSUME data' = data, NEW r \in Request, r \notin Holders, Holders' = Holders \cup {r}
        PROVE  RW!RWNext
    <3>1. \A x \in Holders : ~Conflicts(x, r)'
      <4> SUFFICES ASSUME NEW x \in Holders, Conflicts(x, r)' PROVE FALSE
        OBVIOUS
      <4>1. x \in Request /\ Holds(x)' /\ Holds(r)' /\ Conflicts(r, x)'
        BY <2>8 DEF Holders, Conflicts
      <4>2. x \in znodes' /\ r \in znodes' /\ seq'[x] \in Nat /\ seq'[r] \in Nat /\ 0 < seq'[x] /\ 0 < seq'[r]
        BY <4>1 DEF Holds, IndInv, TypeOK, ZkTypeOK, NumbersInOrder, Numbered, Patient
      <4>3. seq'[x] < seq'[r] /\ seq'[r] < seq'[x]
        BY <4>1, <4>2 DEF IndInv, GrantedInOrder
      <4> QED
        BY <4>2, <4>3
    <3>2. CASE cmd'[r] = "wlock_and_get"
      <4>1. Holders = {}
        BY <2>8, <3>1, <3>2 DEF Conflicts, IsWriter
      <4>2. Readers = {} /\ Writers = {} /\ Readers' = {} /\ Writers' = {r}
        BY <2>2, <2>3, <2>8, <3>2, <4>1
      <4> QED
        BY <2>8, <4>2 DEF RW!RWNext, RW!AcquireWrite
    <3>3. CASE cmd'[r] # "wlock_and_get"
      <4>1. \A x \in Holders : cmd'[x] # "wlock_and_get"
        BY <2>8, <3>1, <3>3 DEF Conflicts, IsWriter
      <4>2. Writers = {} /\ Writers' = {} /\ Readers' = Readers \cup {r} /\ r \notin Readers
        BY <2>2, <2>3, <2>4, <2>8, <3>3, <4>1 DEF IsWriter
      <4> QED
        BY <2>8, <4>2 DEF RW!RWNext, RW!AcquireRead
    <3> QED
      BY <3>2, <3>3
  <2> QED
    BY <2>6, <2>7, <2>8, HoldersStep
<1> QED
  BY <1>1, <1>2, <1>3, <1>4, Inductive, Lives, DataAlways, PTL
     DEF Spec, ImplementsReadWriteLock, RW!RWSpec
=============================================================================
