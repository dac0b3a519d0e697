---------------------------- MODULE ContextManager ----------------------------
(***************************************************************************)
(* contextManager/index.js: the ContextHandler, which serves the lock,     *)
(* save and unlock commands of its ZeroMQ clients on contexts kept in      *)
(* ZooKeeper.  Several context managers may serve the same context.        *)
(*                                                                         *)
(* A request r stands for one identity.request_id key.  Its client reads   *)
(* the context with cmd[r] and then may save it, with r added to what it   *)
(* read, or just unlock.                                                   *)
(***************************************************************************)
EXTENDS ZookeeperRWLock

CONSTANTS
  Commands,    \* lock commands that the clients send
  Impatient,   \* requests whose wait timer may elapse
  MaxCrashes   \* bound on the crashes

ASSUME CommandsAssumption == Commands \subseteq Command
ASSUME ImpatientAssumption == Impatient \subseteq Request
ASSUME MaxCrashesAssumption == MaxCrashes \in Nat

VARIABLES
  control,  \* controlMap: the requests with an entry, their hold timer armed
  read,     \* the content the response to a request carries
  answer,   \* the response to the lock command
  release,  \* what became of the client's save_and_unlock or unlock
  lost,     \* requests a crashed process had received
  crashes   \* crashes so far

mgrVars == <<control, read, answer, release>>
vars == <<zkVars, cmd, lockVars, mgrVars, lost, crashes>>

\* Type invariant.
TypeOK ==
  /\ ZkTypeOK
  /\ LockTypeOK
  /\ control \subseteq Request
  /\ read \in [Request -> SUBSET Request]
  /\ answer \in [Request -> {"none", "ok", "error"}]
  /\ release \in [Request -> {"none", "saving", "saved",
                              "unlocking", "unlocked", "error"}]
  /\ lost \subseteq Request
  /\ crashes \in Nat

Init ==
  /\ ZkInit
  /\ LockInit
  /\ control = {}
  /\ read = [r \in Request |-> {}]
  /\ answer = [r \in Request |-> "none"]
  /\ release = [r \in Request |-> "none"]
  /\ lost = {}
  /\ crashes = 0

-----------------------------------------------------------------------------
(* _lock_and_get *)

\* A lock command c arrives.
RecvLock(r, c) ==
  /\ cmd[r] = "none"
  /\ cmd' = [cmd EXCEPT ![r] = c]
  /\ Lock(r)
  /\ UNCHANGED <<mgrVars, lost, crashes>>

\* A callback of the lock.  If it rejects the promise the client is told so.
LockCallback(r) ==
  /\ \/ PathEnsured(r)
     \/ Created(r)
     \/ Listed(r, Request_("get", r, {}, "lock"))
     \/ ExistsReplied(r)
     \/ WatchFired(r)
     \/ WaitUnlocked(r)
  /\ answer' = [answer EXCEPT ![r] =
       IF promise[r] = "pending" /\ promise'[r] = "rejected" THEN "error" ELSE @]
  /\ UNCHANGED <<cmd, control, read, release, lost, crashes>>

WaitTimeout(r) ==
  /\ r \in Impatient
  /\ LockWaitTimeout(r)
  /\ UNCHANGED <<cmd, mgrVars, lost, crashes>>

\* The callback of a_get.  When it fails, the lock is not given back.
\* lock_get_and_unlock goes on to _unlock in the same turn, which drops the
\* control entry at once.
GetReplied(r) ==
  /\ Arrived(r, "get", "lock")
  /\ Consume(r)
  /\ \/ /\ ReplyOf(r).rc # "ok"
        /\ answer' = [answer EXCEPT ![r] = "error"]
        /\ UNCHANGED <<control, read, outbox>>
     \/ /\ ReplyOf(r).rc = "ok"
        /\ read' = [read EXCEPT ![r] = ReplyOf(r).val]
        /\ \/ /\ cmd[r] # "lock_get_and_unlock"
              /\ control' = control \cup {r}
              /\ answer' = [answer EXCEPT ![r] = "ok"]
              /\ UNCHANGED outbox
           \/ /\ cmd[r] = "lock_get_and_unlock"
              /\ SendFor(r, "delete", {}, "unlock")
              /\ UNCHANGED <<control, answer>>
  /\ UNCHANGED <<storeVars, cmd, lockVars, release, lost, crashes>>

-----------------------------------------------------------------------------
(* _save_and_unlock *)

\* The client of r got the context and has no release under way.
MayRelease(r) ==
  /\ cmd[r] # "lock_get_and_unlock"
  /\ answer[r] = "ok"
  /\ release[r] \in {"none", "error"}

\* Mutant of SaveRefused: the control entry is not looked up.
SaveRefusedNoLookup(r) == ~IsWriter(r)

\* "lock does not exist", or a save under a read lock: an error, no other change.
SaveRefused(r) == r \notin control \/ ~IsWriter(r)

RecvSave(r) ==
  /\ MayRelease(r)
  /\ \/ /\ SaveRefused(r)
        /\ release' = [release EXCEPT ![r] = "error"]
        /\ UNCHANGED <<control, outbox>>
     \/ /\ ~SaveRefused(r)
        /\ control' = control \ {r}
        /\ SendFor(r, "set", read[r] \cup {r}, "save")
        /\ release' = [release EXCEPT ![r] = "saving"]
  /\ UNCHANGED <<storeVars, inbox, cmd, lockVars, read, answer, lost, crashes>>

\* The callback of a_set.  When it fails, the lock is not given back.
SetReplied(r) ==
  /\ Arrived(r, "set", "save")
  /\ Consume(r)
  /\ \/ /\ ReplyOf(r).rc = "ok"
        /\ SendFor(r, "delete", {}, "save")
        /\ UNCHANGED release
     \/ /\ ReplyOf(r).rc # "ok"
        /\ release' = [release EXCEPT ![r] = "error"]
        /\ UNCHANGED outbox
  /\ UNCHANGED <<storeVars, cmd, lockVars, control, read, answer, lost, crashes>>

SaveUnlocked(r) ==
  /\ Arrived(r, "delete", "save")
  /\ Consume(r)
  /\ release' = [release EXCEPT ![r] =
                   IF ReplyOf(r).rc = "ok" THEN "saved" ELSE "error"]
  /\ UNCHANGED <<storeVars, outbox, cmd, lockVars, control, read, answer,
                 lost, crashes>>

-----------------------------------------------------------------------------
(* _unlock and the hold timer *)

RecvUnlock(r) ==
  /\ MayRelease(r)
  /\ \/ /\ r \notin control
        /\ release' = [release EXCEPT ![r] = "error"]
        /\ UNCHANGED <<control, outbox>>
     \/ /\ r \in control
        /\ control' = control \ {r}
        /\ SendFor(r, "delete", {}, "unlock")
        /\ release' = [release EXCEPT ![r] = "unlocking"]
  /\ UNCHANGED <<storeVars, inbox, cmd, lockVars, read, answer, lost, crashes>>

\* The unlock of lock_get_and_unlock answers the lock command itself.
Unlocked(r) ==
  /\ Arrived(r, "delete", "unlock")
  /\ Consume(r)
  /\ \/ /\ cmd[r] = "lock_get_and_unlock"
        /\ answer' = [answer EXCEPT ![r] =
                        IF ReplyOf(r).rc = "ok" THEN "ok" ELSE "error"]
        /\ UNCHANGED release
     \/ /\ cmd[r] # "lock_get_and_unlock"
        /\ release' = [release EXCEPT ![r] =
                         IF ReplyOf(r).rc = "ok" THEN "unlocked" ELSE "error"]
        /\ UNCHANGED answer
  /\ UNCHANGED <<storeVars, outbox, cmd, lockVars, control, read, lost, crashes>>

\* Mutants of HoldTimeout: the control entry is kept, the znode is kept.
HoldTimeoutKeepsEntry(r) ==
  /\ r \in control
  /\ SendFor(r, "delete", {}, "hold")
  /\ UNCHANGED <<storeVars, inbox, cmd, lockVars, mgrVars, lost, crashes>>

HoldTimeoutNoUnlock(r) ==
  /\ r \in control
  /\ control' = control \ {r}
  /\ UNCHANGED <<zkVars, cmd, lockVars, read, answer, release, lost, crashes>>

\* _timeout: the client held the lock for too long.
HoldTimeout(r) ==
  /\ r \in control
  /\ control' = control \ {r}
  /\ SendFor(r, "delete", {}, "hold")
  /\ UNCHANGED <<storeVars, inbox, cmd, lockVars, read, answer, release,
                 lost, crashes>>

\* Its unlock only logs.
HoldUnlocked(r) ==
  /\ Arrived(r, "delete", "hold")
  /\ Consume(r)
  /\ UNCHANGED <<storeVars, outbox, cmd, lockVars, mgrVars, lost, crashes>>

-----------------------------------------------------------------------------
(* The environment: the service, the connections, crashes. *)

ZkServe(s) ==
  /\ Serve(s)
  /\ UNCHANGED <<cmd, lockVars, mgrVars, lost, crashes>>

ZkDisconnect(s) ==
  /\ Disconnect(s)
  /\ UNCHANGED <<cmd, lockVars, mgrVars, lost, crashes>>

\* A context manager crashes and starts again with an empty memory.
Crash(s) ==
  /\ crashes < MaxCrashes
  /\ crashes' = crashes + 1
  /\ Abandon(s)
  /\ lost' = lost \cup {r \in Request : ServerOf[r] = s /\ cmd[r] # "none"}
  /\ control' = {r \in control : ServerOf[r] # s}
  /\ waitTimer' = [r \in Request |->
       IF ServerOf[r] = s /\ waitTimer[r] = "armed" THEN "off" ELSE waitTimer[r]]
  /\ UNCHANGED <<cmd, promise, read, answer, release>>

\* The service ends the session of the crashed process.
SessionExpires(s) ==
  LET Z == {z \in znodes \cap lost : ServerOf[z] = s} IN
  /\ Z # {}
  /\ RemoveEphemerals(Z)
  /\ UNCHANGED <<cmd, lockVars, mgrVars, lost, crashes>>

-----------------------------------------------------------------------------
ReplyCallback(r) ==
  \/ LockCallback(r)
  \/ GetReplied(r)
  \/ SetReplied(r)
  \/ SaveUnlocked(r)
  \/ Unlocked(r)
  \/ HoldUnlocked(r)

RequestNext(r) ==
  \/ \E c \in Commands : RecvLock(r, c)
  \/ RecvSave(r)
  \/ RecvUnlock(r)
  \/ ReplyCallback(r)
  \/ WaitTimeout(r)
  \/ HoldTimeout(r)

ServerNext(s) ==
  \/ ZkServe(s)
  \/ ZkDisconnect(s)
  \/ Crash(s)
  \/ SessionExpires(s)

Next ==
  \/ \E r \in Request : RequestNext(r)
  \/ \E s \in Server : ServerNext(s)

Spec == Init /\ [][Next]_vars

\* The event loop runs the callbacks, the armed timers elapse, the service
\* serves and ends dead sessions.  Clients owe nothing.
Fairness ==
  /\ \A r \in Request : /\ WF_vars(ReplyCallback(r))
                        /\ WF_vars(WaitTimeout(r))
                        /\ WF_vars(HoldTimeout(r))
  /\ \A s \in Server : /\ WF_vars(ZkServe(s))
                       /\ WF_vars(SessionExpires(s))

FairSpec == Spec /\ Fairness
=============================================================================
