--------------------------- MODULE ZookeeperRWLock ---------------------------
(***************************************************************************)
(* contextManager/ZookeeperRWLock.js: the read/write lock a context        *)
(* manager builds from sequential ephemeral znodes.  A lock request puts a *)
(* znode in the directory of the context, lists the directory, and has the *)
(* lock when no conflicting znode is in front of its own; otherwise it     *)
(* watches the last of those and lists again when that one is deleted.     *)
(*                                                                         *)
(* The operators below are the callbacks of the lock; ContextManager makes *)
(* actions of them, adding what the owner of the promise does in the same  *)
(* turn of the event loop.                                                 *)
(***************************************************************************)
EXTENDS ZooKeeper, FiniteSets

VARIABLES
  cmd,       \* command of the request, "none" before it arrives
  promise,   \* the promise that _lock returned
  waitTimer  \* timer of _lockWaitTimeout

lockVars == <<promise, waitTimer>>

Command == {"rlock_and_get", "wlock_and_get", "lock_get_and_unlock"}

LockTypeOK ==
  /\ cmd \in [Request -> Command \cup {"none"}]
  /\ promise \in [Request -> {"none", "pending", "acquired", "rejected"}]
  /\ waitTimer \in [Request -> {"off", "armed", "fired"}]

LockInit ==
  /\ cmd = [r \in Request |-> "none"]
  /\ promise = [r \in Request |-> "none"]
  /\ waitTimer = [r \in Request |-> "off"]

IsWriter(r) == cmd[r] = "wlock_and_get"
Conflicts(a, b) == a # b /\ (IsWriter(a) \/ IsWriter(b))

-----------------------------------------------------------------------------
SendFor(r, op, arg, by) == Send(ServerOf[r], Request_(op, r, arg, by))

Reject(r) ==
  promise' = [promise EXCEPT ![r] = IF @ = "pending" THEN "rejected" ELSE @]

\* _lock: make sure the directory of the context is there.
Lock(r) ==
  /\ promise' = [promise EXCEPT ![r] = "pending"]
  /\ SendFor(r, "path", {}, "lock")
  /\ UNCHANGED <<waitTimer, inbox, storeVars>>

\* createPathIfNotExists settles: create the lock znode.
PathEnsured(r) ==
  /\ Arrived(r, "path", "lock")
  /\ Consume(r)
  /\ \/ /\ ReplyOf(r).rc = "ok"
        /\ SendFor(r, "create", {}, "lock")
        /\ UNCHANGED promise
     \/ /\ ReplyOf(r).rc # "ok"
        /\ Reject(r)
        /\ UNCHANGED outbox
  /\ UNCHANGED <<waitTimer, storeVars>>

\* The callback of a_create: start the wait timer and try to take the lock.
Created(r) ==
  /\ Arrived(r, "create", "lock")
  /\ Consume(r)
  /\ \/ /\ ReplyOf(r).rc = "ok"
        /\ waitTimer' = [waitTimer EXCEPT ![r] = "armed"]
        /\ SendFor(r, "children", {}, "lock")
        /\ UNCHANGED promise
     \/ /\ ReplyOf(r).rc # "ok"
        /\ Reject(r)
        /\ UNCHANGED <<waitTimer, outbox>>
  /\ UNCHANGED storeVars

\* Mutants of Ahead: a writer that does not wait for readers, a reader that
\* does not wait for writers, and a search that starts one number too high.
AheadIgnoringReaders(r, children) ==
  {z \in children : 0 < seq[z] /\ seq[z] < seq[r] /\ IsWriter(z)}

AheadIgnoringWriters(r, children) ==
  {z \in children : 0 < seq[z] /\ seq[z] < seq[r] /\ IsWriter(r)}

AheadFromOne(r, children) ==
  {z \in children : 1 < seq[z] /\ seq[z] < seq[r] /\ (IsWriter(r) \/ IsWriter(z))}

\* The znodes in front of r that r waits for.  The search starts from the
\* NUMBER 0 and asks for a greater one, so znode number 0 is never found.
Ahead(r, children) ==
  {z \in children : /\ 0 < seq[z]
                    /\ seq[z] < seq[r]
                    /\ IsWriter(r) \/ IsWriter(z)}

\* findNextElemToBeWatchedWriteCase/-ReadCase: the last of them, if any.
NodeToBeWatched(r, children) ==
  {z \in Ahead(r, children) : \A y \in Ahead(r, children) : seq[y] <= seq[z]}

\* The callback of a_get_children.  "then" is the operation the owner of the
\* promise starts when it is resolved; a settled promise is not resolved again.
Listed(r, then) ==
  /\ Arrived(r, "children", "lock")
  /\ Consume(r)
  /\ \/ /\ ReplyOf(r).rc # "ok"
        /\ Reject(r)
        /\ UNCHANGED <<waitTimer, outbox>>
     \/ /\ ReplyOf(r).rc = "ok"
        /\ Ahead(r, ReplyOf(r).val) = {}
        /\ waitTimer' = [waitTimer EXCEPT ![r] = IF @ = "armed" THEN "off" ELSE @]
        /\ \/ /\ promise[r] = "pending"
              /\ promise' = [promise EXCEPT ![r] = "acquired"]
              /\ Send(ServerOf[r], then)
           \/ /\ promise[r] # "pending"
              /\ UNCHANGED <<promise, outbox>>
     \/ /\ ReplyOf(r).rc = "ok"
        /\ \E z \in NodeToBeWatched(r, ReplyOf(r).val) :
             SendFor(r, "exists", {z}, "lock")
        /\ UNCHANGED lockVars
  /\ UNCHANGED storeVars

\* Mutant of ExistsReplied: a znode that is already gone is not tried again.
ExistsRepliedNoRetry(r) ==
  /\ Arrived(r, "exists", "lock")
  /\ Consume(r)
  /\ IF ReplyOf(r).rc = "fail" THEN Reject(r) ELSE UNCHANGED promise
  /\ UNCHANGED <<waitTimer, outbox, storeVars>>

\* The result callback of aw_exists: gone already means try again.
ExistsReplied(r) ==
  /\ Arrived(r, "exists", "lock")
  /\ Consume(r)
  /\ \/ /\ ReplyOf(r).rc = "nonode"
        /\ SendFor(r, "children", {}, "lock")
        /\ UNCHANGED promise
     \/ /\ ReplyOf(r).rc = "ok"
        /\ UNCHANGED <<promise, outbox>>
     \/ /\ ReplyOf(r).rc = "fail"
        /\ Reject(r)
        /\ UNCHANGED outbox
  /\ UNCHANGED <<waitTimer, storeVars>>

\* The watch callback of aw_exists.
WatchFired(r) ==
  /\ EventArrived(r)
  /\ ConsumeEvent(r)
  /\ \/ /\ ReplyOf(r).rc = "ok"
        /\ SendFor(r, "children", {}, "lock")
        /\ UNCHANGED promise
     \/ /\ ReplyOf(r).rc # "ok"
        /\ Reject(r)
        /\ UNCHANGED outbox
  /\ UNCHANGED <<waitTimer, storeVars>>

\* Mutant of LockWaitTimeout: tell the client, but leave the znode in line.
LockWaitTimeoutNoUnlock(r) ==
  /\ waitTimer[r] = "armed"
  /\ waitTimer' = [waitTimer EXCEPT ![r] = "fired"]
  /\ Reject(r)
  /\ UNCHANGED <<outbox, inbox, storeVars>>

\* _lockWaitTimeout: give the znode back; the promise settles with the reply.
LockWaitTimeout(r) ==
  /\ waitTimer[r] = "armed"
  /\ waitTimer' = [waitTimer EXCEPT ![r] = "fired"]
  /\ SendFor(r, "delete", {}, "wait")
  /\ UNCHANGED <<promise, inbox, storeVars>>

\* Mutant of WaitUnlocked: the promise is left pending.
WaitUnlockedNoReject(r) ==
  /\ Arrived(r, "delete", "wait")
  /\ Consume(r)
  /\ UNCHANGED <<lockVars, outbox, storeVars>>

WaitUnlocked(r) ==
  /\ Arrived(r, "delete", "wait")
  /\ Consume(r)
  /\ Reject(r)
  /\ UNCHANGED <<waitTimer, outbox, storeVars>>
=============================================================================
