--------------------------- MODULE ContextClient ---------------------------
(***************************************************************************)
(* The client of the context manager (lib/ContextManagerClient.js, behind  *)
(* the facade lib/ContextHandler.js): requests with a state, a timer and a *)
(* promise, against answers that come late or never.  One context.         *)
(*                                                                         *)
(* The other end is the context manager as its clients see it: commands    *)
(* that wait, a read/write lock, a hold timer.  Its own protocol is in     *)
(* module ContextManager; both implement ReadWriteLock.                    *)
(***************************************************************************)
EXTENDS Naturals, Sequences

CONSTANTS
  Call,        \* uses of the context, each with a request id of its own
  Modes,       \* the lock modes each may ask for
  MaxCrashes   \* how often the context manager crashes

RLOCK == "rlock"
WLOCK == "wlock"
LOCK_UNLOCK == "lock_unlock"

ASSUME ModesAssumption == Modes \in [Call -> SUBSET {RLOCK, WLOCK, LOCK_UNLOCK}]
ASSUME MaxCrashesAssumption == MaxCrashes \in Nat

VARIABLES
  entry,    \* contextMap: the state of each request, "none" without an entry
  mode,     \* the lock mode each asked for
  timer,    \* the timers armed for each request
  locking,  \* the promise of lockAndGetContext
  unlocking, \* the promise of the last unlockContext
  got,      \* the content the lock promise was resolved with
  request,  \* the command under way to the context manager
  reply,    \* the answer under way to the client
  lock,     \* the request at the context manager
  content,  \* the content of the context
  saves,    \* the saves carried out, in order
  crashes

clientVars == <<entry, mode, timer, locking, unlocking, got>>
serverVars == <<lock, content, saves, crashes>>
ctxVars == <<clientVars, request, reply, serverVars>>

NoMessage == [command |-> "none"]

\* A context nobody has saved has no attributes.
Empty == [attribute \in {} |-> 0]

\* States of contextMap entries.
WaitingLock == "REQ_ST_WAITING_LOCK_RESPONSE"
WaitingUnlock == "REQ_ST_WAITING_UNLOCK_RESPONSE"
WaitingLockUnlock == "REQ_ST_WAITING_LOCK_UNLOCK_RESPONSE"
Processing == "REQ_ST_PROCESSING"

CtxInit ==
  /\ entry = [c \in Call |-> "none"]
  /\ mode = [c \in Call |-> "none"]
  /\ timer = [c \in Call |-> {}]
  /\ locking = [c \in Call |-> "none"]
  /\ unlocking = [c \in Call |-> "none"]
  /\ got = [c \in Call |-> Empty]
  /\ request = [c \in Call |-> NoMessage]
  /\ reply = [c \in Call |-> NoMessage]
  /\ lock = [c \in Call |-> "free"]
  /\ content = Empty
  /\ saves = <<>>
  /\ crashes = 0

-----------------------------------------------------------------------------
(* The client *)

LockAndGetContext(c, lockMode) ==
  /\ locking[c] = "none"
  /\ locking' = [locking EXCEPT ![c] = "pending"]
  /\ timer' = [timer EXCEPT ![c] = @ \cup {"lock"}]
  /\ entry' = [entry EXCEPT ![c] =
       IF lockMode = LOCK_UNLOCK THEN WaitingLockUnlock ELSE WaitingLock]
  /\ mode' = [mode EXCEPT ![c] = lockMode]
  /\ request' = [request EXCEPT ![c] = [command |-> lockMode]]
  /\ UNCHANGED <<unlocking, got, reply, serverVars>>

\* A promise is settled once: later calls of resolve and reject do nothing.
Settle(p, outcome) == IF p = "pending" THEN outcome ELSE p

\* The reject of an entry is that of the last promise made for it.
Reject(c) ==
  IF entry[c] = WaitingUnlock
  THEN /\ unlocking' = [unlocking EXCEPT ![c] = Settle(@, "rejected")]
       /\ UNCHANGED locking
  ELSE /\ locking' = [locking EXCEPT ![c] = Settle(@, "rejected")]
       /\ UNCHANGED unlocking

\* The timer of the entry is the one its state waits with.
TimerOf(c) == IF entry[c] = WaitingUnlock THEN "unlock" ELSE "lock"

\* Mutant of OnMessage: the timer is left armed.
OnMessageKeepsTimer(c) ==
  /\ reply[c] # NoMessage
  /\ reply' = [reply EXCEPT ![c] = NoMessage]
  /\ entry' = [entry EXCEPT ![c] =
       IF @ = WaitingLock /\ reply[c].ok THEN Processing ELSE "none"]
  /\ \/ entry[c] = "none" /\ UNCHANGED <<locking, unlocking, got>>
     \/ entry[c] # "none" /\ ~reply[c].ok /\ Reject(c) /\ UNCHANGED got
     \/ /\ entry[c] \in {WaitingLock, WaitingLockUnlock} /\ reply[c].ok
        /\ locking' = [locking EXCEPT ![c] = "resolved"]
        /\ got' = [got EXCEPT ![c] = reply[c].content]
        /\ UNCHANGED unlocking
     \/ /\ entry[c] = WaitingUnlock /\ reply[c].ok
        /\ unlocking' = [unlocking EXCEPT ![c] = "resolved"]
        /\ UNCHANGED <<locking, got>>
  /\ UNCHANGED <<mode, timer, request, serverVars>>

\* Mutant of OnMessage: a failure leaves the entry in the map.
OnMessageKeepsFailed(c) ==
  /\ reply[c] # NoMessage
  /\ reply' = [reply EXCEPT ![c] = NoMessage]
  /\ IF entry[c] = "none"
     THEN UNCHANGED clientVars
     ELSE /\ UNCHANGED mode
          /\ timer' = [timer EXCEPT ![c] = @ \ {TimerOf(c)}]
          /\ \/ /\ ~reply[c].ok \/ entry[c] = Processing
                /\ Reject(c)
                /\ UNCHANGED <<entry, got>>
             \/ /\ reply[c].ok
                /\ entry[c] \in {WaitingLock, WaitingLockUnlock}
                /\ entry' = [entry EXCEPT ![c] =
                     IF @ = WaitingLock THEN Processing ELSE "none"]
                /\ locking' = [locking EXCEPT ![c] = Settle(@, "resolved")]
                /\ got' = [got EXCEPT ![c] = reply[c].content]
                /\ UNCHANGED unlocking
             \/ /\ reply[c].ok
                /\ entry[c] = WaitingUnlock
                /\ entry' = [entry EXCEPT ![c] = "none"]
                /\ unlocking' = [unlocking EXCEPT ![c] = Settle(@, "resolved")]
                /\ UNCHANGED <<locking, got>>
  /\ UNCHANGED <<request, serverVars>>

\* The answer of a request without an entry is dropped as expired.
OnMessage(c) ==
  /\ reply[c] # NoMessage
  /\ reply' = [reply EXCEPT ![c] = NoMessage]
  /\ IF entry[c] = "none"
     THEN UNCHANGED clientVars
     ELSE /\ UNCHANGED mode
          /\ timer' = [timer EXCEPT ![c] = @ \ {TimerOf(c)}]
          /\ entry' = [entry EXCEPT ![c] =
               IF @ = WaitingLock /\ reply[c].ok THEN Processing ELSE "none"]
          /\ \/ /\ ~reply[c].ok \/ entry[c] = Processing
                /\ Reject(c)
                /\ UNCHANGED got
             \/ /\ reply[c].ok
                /\ entry[c] \in {WaitingLock, WaitingLockUnlock}
                /\ locking' = [locking EXCEPT ![c] = Settle(@, "resolved")]
                /\ got' = [got EXCEPT ![c] = reply[c].content]
                /\ UNCHANGED unlocking
             \/ /\ reply[c].ok
                /\ entry[c] = WaitingUnlock
                /\ unlocking' = [unlocking EXCEPT ![c] = Settle(@, "resolved")]
                /\ UNCHANGED <<locking, got>>
  /\ UNCHANGED <<request, serverVars>>

TimeoutRequest(c) ==
  /\ \E t \in timer[c] : timer' = [timer EXCEPT ![c] = @ \ {t}]
  /\ entry' = [entry EXCEPT ![c] = "none"]
  /\ IF entry[c] = "none" THEN UNCHANGED <<locking, unlocking>> ELSE Reject(c)
  /\ UNCHANGED <<mode, got, request, reply, serverVars>>

\* Refused at once unless the request is being processed, and for a save
\* under a read lock.
UnlockContext(c, save, value) ==
  /\ IF entry[c] # Processing \/ (save /\ mode[c] = RLOCK)
     THEN /\ unlocking' = [unlocking EXCEPT ![c] = "rejected"]
          /\ UNCHANGED <<entry, timer, request>>
     ELSE /\ unlocking' = [unlocking EXCEPT ![c] = "pending"]
          /\ timer' = [timer EXCEPT ![c] = @ \cup {"unlock"}]
          /\ entry' = [entry EXCEPT ![c] = WaitingUnlock]
          /\ request' = [request EXCEPT ![c] =
               IF save THEN [command |-> "save_and_unlock", content |-> value]
                       ELSE [command |-> "unlock"]]
  /\ UNCHANGED <<mode, locking, got, reply, serverVars>>

-----------------------------------------------------------------------------
(* The context manager *)

Holders == {c \in Call : lock[c] # "free"}
Readers == {c \in Holders : mode[c] # WLOCK}
Writers == {c \in Holders : mode[c] = WLOCK}

\* Mutant of Compatible: readers are not looked at.
CompatibleIgnoringReaders(c) == Writers = {}

Compatible(c) == IF mode[c] = WLOCK THEN Holders = {} ELSE Writers = {}

Answer(c, message) ==
  /\ request' = [request EXCEPT ![c] = NoMessage]
  /\ reply' = [reply EXCEPT ![c] = message]

\* The lock is granted: the content is read, and the hold timer armed
\* ("held"), or the lock given back at once (lock_get_and_unlock).
Grant(c) ==
  /\ request[c].command \in {RLOCK, WLOCK, LOCK_UNLOCK}
  /\ lock[c] = "free"
  /\ Compatible(c)
  /\ IF mode[c] = LOCK_UNLOCK
     THEN lock' = [lock EXCEPT ![c] = "unlocking"] /\ UNCHANGED <<request, reply>>
     ELSE /\ lock' = [lock EXCEPT ![c] = "held"]
          /\ Answer(c, [command |-> "lock", ok |-> TRUE, content |-> content])
  /\ UNCHANGED <<clientVars, content, saves, crashes>>

\* The request has waited too long for the lock, or the lock has failed.
Refuse(c) ==
  /\ request[c].command \in {RLOCK, WLOCK, LOCK_UNLOCK}
  /\ lock[c] = "free"
  /\ Answer(c, [command |-> "lock", ok |-> FALSE])
  /\ UNCHANGED <<clientVars, serverVars>>

\* A save replaces the content.
Save(c) ==
  IF request[c].command = "save_and_unlock"
  THEN /\ content' = request[c].content
       /\ saves' = Append(saves, [call |-> c, context |-> request[c].content])
  ELSE UNCHANGED <<content, saves>>

\* Mutant of RecvUnlock: the control entry is not looked up.
RecvUnlockUnchecked(c) ==
  /\ request[c].command \in {"unlock", "save_and_unlock"}
  /\ lock[c] # "unlocking"
  /\ lock' = [lock EXCEPT ![c] = "unlocking"]
  /\ Save(c)
  /\ UNCHANGED <<request, reply, clientVars, crashes>>

RecvUnlock(c) ==
  /\ request[c].command \in {"unlock", "save_and_unlock"}
  /\ lock[c] # "unlocking"
  /\ IF lock[c] = "held"
     THEN /\ lock' = [lock EXCEPT ![c] = "unlocking"]
          /\ Save(c)
          /\ UNCHANGED <<request, reply>>
     ELSE /\ Answer(c, [command |-> "unlock", ok |-> FALSE])
          /\ UNCHANGED <<lock, content, saves>>
  /\ UNCHANGED <<clientVars, crashes>>

HoldTimeout(c) ==
  /\ lock[c] = "held"
  /\ lock' = [lock EXCEPT ![c] = "expired"]
  /\ UNCHANGED <<clientVars, request, reply, content, saves, crashes>>

\* The lock is given back; whoever asked for it is told.
Unlocked(c) ==
  /\ lock[c] \in {"unlocking", "expired"}
  /\ lock' = [lock EXCEPT ![c] = "free"]
  /\ IF lock[c] = "expired" THEN UNCHANGED <<request, reply>>
     ELSE Answer(c, IF mode[c] = LOCK_UNLOCK
                    THEN [command |-> "lock", ok |-> TRUE, content |-> content]
                    ELSE [command |-> "unlock", ok |-> TRUE])
  /\ UNCHANGED <<clientVars, content, saves, crashes>>

\* A crash forgets the commands received and loses answers; the end of its
\* session gives the locks back.
ServerCrash ==
  /\ crashes < MaxCrashes
  /\ crashes' = crashes + 1
  /\ lock' = [c \in Call |-> "free"]
  /\ \E kept \in SUBSET Call :
       /\ request' = [c \in Call |->
            IF c \in kept /\ lock[c] # "unlocking" THEN request[c] ELSE NoMessage]
       /\ reply' = [c \in Call |-> IF c \in kept THEN reply[c] ELSE NoMessage]
  /\ UNCHANGED <<clientVars, content, saves>>

ServerNext ==
  \/ \E c \in Call : Grant(c) \/ Refuse(c) \/ RecvUnlock(c) \/ HoldTimeout(c) \/ Unlocked(c)
  \/ ServerCrash

ClientNext == \E c \in Call : OnMessage(c) \/ TimeoutRequest(c)

CtxFairness ==
  \A c \in Call :
    /\ WF_ctxVars(OnMessage(c)) /\ WF_ctxVars(TimeoutRequest(c))
    /\ WF_ctxVars(Grant(c)) /\ WF_ctxVars(RecvUnlock(c))
    /\ WF_ctxVars(HoldTimeout(c)) /\ WF_ctxVars(Unlocked(c))

-----------------------------------------------------------------------------
(* Any user of the library: it saves what it read and its own mark, or     *)
(* only unlocks, at any time and again after a failure.                    *)

Marked(c, ctx) == [attribute \in DOMAIN ctx \cup {c} |->
                     IF attribute = c THEN TRUE ELSE ctx[attribute]]

Release(c) ==
  /\ locking[c] = "resolved"
  /\ mode[c] # LOCK_UNLOCK
  /\ unlocking[c] \in {"none", "rejected"}
  /\ \E save \in BOOLEAN : UnlockContext(c, save, Marked(c, got[c]))

Next ==
  \/ \E c \in Call : Release(c) \/ \E m \in Modes[c] : LockAndGetContext(c, m)
  \/ ClientNext
  \/ ServerNext

Spec == CtxInit /\ [][Next]_ctxVars

\* Every user that was given a context calls unlockContext, and calls it again
\* without a save if a save was refused.
FairSpec ==
  /\ Spec
  /\ CtxFairness
  /\ \A c \in Call : WF_ctxVars(entry[c] = Processing /\ Release(c))

-----------------------------------------------------------------------------
(* Properties *)

Outcome == {"none", "pending", "resolved", "rejected"}

\* Type invariant.
TypeOK ==
  /\ entry \in [Call -> {"none", WaitingLock, WaitingUnlock, WaitingLockUnlock, Processing}]
  /\ mode \in [Call -> {"none", RLOCK, WLOCK, LOCK_UNLOCK}]
  /\ timer \in [Call -> SUBSET {"lock", "unlock"}]
  /\ locking \in [Call -> Outcome]
  /\ unlocking \in [Call -> Outcome]
  /\ DOMAIN got = Call
  /\ lock \in [Call -> {"free", "held", "unlocking", "expired"}]
  /\ crashes \in 0..MaxCrashes
  /\ DOMAIN request = Call
  /\ DOMAIN reply = Call
  /\ \A c \in Call :
       /\ request[c].command \in
            {"none", RLOCK, WLOCK, LOCK_UNLOCK, "unlock", "save_and_unlock"}
       /\ reply[c].command \in {"none", "lock", "unlock"}

\* A user that holds a context can give it back: from the resolution of its
\* lock to its call of unlockContext its entry is being processed, whatever
\* timers elapse and answers arrive (the timer of the lock was cleared).
ProcessingKeepsEntry ==
  \A c \in Call :
    locking[c] = "resolved" /\ unlocking[c] = "none" /\ mode[c] # LOCK_UNLOCK
      => entry[c] = Processing

\* Who waits for a promise has a timer that will settle it, an entry, and no
\* timer of another phase.
PendingIsTimed ==
  \A c \in Call :
    locking[c] = "pending" \/ unlocking[c] = "pending"
      => /\ entry[c] \in {WaitingLock, WaitingLockUnlock, WaitingUnlock}
         /\ timer[c] = {TimerOf(c)}

\* What a request that holds the lock was sent is the content, however late
\* the answer: nobody else saves before its hold timer elapses.
HolderSeesContent ==
  \A c \in Call :
    /\ lock[c] = "held" /\ reply[c].command = "lock" => reply[c].content = content
    /\ lock[c] = "held" /\ locking[c] = "resolved" => got[c] = content

\* contextMap, its timers and its promises agree with one another and with the
\* context manager, whatever arrives late or never: who waits is timed, who
\* holds a context has its content and can give it back.
ContextMapSound == TypeOK /\ ProcessingKeepsEntry /\ PendingIsTimed /\ HolderSeesContent

\* Nothing saved is lost: who saves has the lock and was given the content its
\* save replaces.  And an unlockContext that is resolved was carried out: the
\* answers of two phases are not taken for each other.  (A rejected one may
\* have been carried out too: its answer came late.)
ToldIsDoneStep ==
  /\ content' # content =>
       \E c \in Call : lock[c] = "held" /\ mode[c] = WLOCK /\ got[c] = content
  /\ \A c \in Call :
       unlocking[c] = "pending" /\ unlocking'[c] = "resolved"
         => lock[c] # "held" /\ reply[c].command = "unlock"

\* No save is made of a stale content, and no step tells of a release that was
\* not made (ToldIsDoneStep).
ToldIsDone == [][ToldIsDoneStep]_ctxVars

\* Every promise is settled.
Settled ==
  \A c \in Call :
    /\ locking[c] = "pending" ~> locking[c] # "pending"
    /\ unlocking[c] = "pending" ~> unlocking[c] # "pending"

\* A lock granted to a request that had expired at the client comes back, and
\* contextMap empties when every user gives its context back.
NothingLeftBehind ==
  \A c \in Call :
    /\ lock[c] = "held" ~> lock[c] = "free"
    /\ entry[c] # "none" ~> entry[c] = "none"

RW == INSTANCE ReadWriteLock WITH
        Request <- Call, readers <- Readers, writers <- Writers,
        content <- {saves[i].call : i \in DOMAIN saves}

\* The context manager these clients see is the abstract read/write lock.
ServerIsReadWriteLock == RW!RWSpec
=============================================================================
