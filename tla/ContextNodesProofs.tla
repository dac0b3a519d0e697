------------------------- MODULE ContextNodesProofs -------------------------
(***************************************************************************)
(* Proofs about ContextClient and ContextNodes, for any number of calls,   *)
(* lock modes, crashes and workloads.  A first invariant relates the state *)
(* of a request at the client, what is under way, and the lock at the      *)
(* context manager; a second one, of the nodes, what was saved.            *)
(***************************************************************************)
EXTENDS ContextNodes, SequenceTheorems, WellFoundedInduction, TLAPS

LockModes == {RLOCK, WLOCK, LOCK_UNLOCK}
UnlockCommands == {"unlock", "save_and_unlock"}

\* The entry of a request says which promise waits and which timer runs.
PhaseOK(c) ==
  /\ entry[c] = "none" =>
       timer[c] = {} /\ locking[c] # "pending" /\ unlocking[c] # "pending"
  /\ entry[c] \in {WaitingLock, WaitingLockUnlock} =>
       /\ locking[c] = "pending" /\ timer[c] = {"lock"}
       /\ (entry[c] = WaitingLockUnlock) = (mode[c] = LOCK_UNLOCK)
  /\ entry[c] = Processing =>
       /\ locking[c] = "resolved" /\ timer[c] = {} /\ mode[c] # LOCK_UNLOCK
       /\ unlocking[c] \in {"none", "rejected"}
  /\ entry[c] = WaitingUnlock =>
       /\ locking[c] = "resolved" /\ timer[c] = {"unlock"} /\ mode[c] # LOCK_UNLOCK
       /\ unlocking[c] = "pending"
  /\ locking[c] = "resolved" /\ unlocking[c] = "none" /\ mode[c] # LOCK_UNLOCK =>
       entry[c] = Processing
  /\ locking[c] = "none" => entry[c] = "none"
  /\ (locking[c] = "none") = (mode[c] = "none")
  /\ locking[c] # "resolved" => unlocking[c] = "none"

\* A request has one message under way, of the phase it is in or was in.
WireOK(c) ==
  /\ reply[c].command = "none" => reply[c] = NoMessage
  /\ request[c].command # "none" => reply[c].command = "none"
  /\ locking[c] = "none" => request[c].command = "none" /\ reply[c].command = "none"
  /\ entry[c] = Processing => request[c].command = "none" /\ reply[c].command = "none"
  /\ request[c].command \in LockModes =>
       request[c].command = mode[c] /\ locking[c] \in {"pending", "rejected"}
  /\ reply[c].command = "lock" => locking[c] \in {"pending", "rejected"}
  /\ request[c].command \in UnlockCommands \/ reply[c].command = "unlock" =>
       /\ locking[c] = "resolved" /\ mode[c] # LOCK_UNLOCK
       /\ entry[c] \in {WaitingUnlock, "none"} /\ unlocking[c] # "none"
  /\ request[c].command = "save_and_unlock" => mode[c] = WLOCK

\* The lock of a request follows its commands.
ServedOK(c) ==
  /\ locking[c] = "none" => lock[c] = "free"
  /\ request[c].command \in LockModes =>
       lock[c] = "free" \/ (mode[c] = LOCK_UNLOCK /\ lock[c] = "unlocking")
  /\ reply[c].command = "unlock" => lock[c] # "held"
  /\ lock[c] = "unlocking" =>
       request[c].command \in UnlockCommands \cup {LOCK_UNLOCK}
  /\ lock[c] = "held" => mode[c] # LOCK_UNLOCK

\* A writer holds the lock alone.
WriterAlone ==
  \A c, d \in Call :
    lock[c] # "free" /\ mode[c] = WLOCK /\ lock[d] # "free" => c = d

\* The inductive invariant of the client and the context manager.
MapInv ==
  /\ TypeOK
  /\ \A c \in Call : PhaseOK(c) /\ WireOK(c) /\ ServedOK(c)
  /\ WriterAlone
  /\ HolderSeesContent

USE DEF RLOCK, WLOCK, LOCK_UNLOCK, WaitingLock, WaitingUnlock, WaitingLockUnlock,
        Processing, LockModes, UnlockCommands

-----------------------------------------------------------------------------
(* The steps of a user. *)

\* A user asks for the context, or gives it back.
AskFor(c) == \E m \in LockModes : LockAndGetContext(c, m)

GiveBack(c) ==
  /\ locking[c] = "resolved" /\ mode[c] # LOCK_UNLOCK
  /\ unlocking[c] \in {"none", "rejected"}
  /\ \E save \in BOOLEAN : \E value : UnlockContext(c, save, value)

UserStep == \E c \in Call : AskFor(c) \/ GiveBack(c)

AnyStep == UserStep \/ ClientNext \/ ServerNext \/ UNCHANGED ctxVars

LEMMA AskForSound ==
  ASSUME MapInv, NEW c \in Call, AskFor(c)
  PROVE  MapInv'
<1>1. PICK m \in LockModes : LockAndGetContext(c, m)
  BY DEF AskFor
<1> USE <1>1 DEF LockAndGetContext, serverVars
<1>2. TypeOK'
  BY DEF MapInv, TypeOK, Outcome
<1>3. ASSUME NEW d \in Call
      PROVE  (PhaseOK(d) /\ WireOK(d) /\ ServedOK(d))'
  <2>1. PhaseOK(d)'
    BY DEF MapInv, TypeOK, PhaseOK
  <2>2. WireOK(d)'
    BY DEF MapInv, TypeOK, PhaseOK, WireOK
  <2>3. ServedOK(d)'
    BY DEF MapInv, TypeOK, PhaseOK, WireOK, ServedOK
  <2> QED
    BY <2>1, <2>2, <2>3
<1>4. WriterAlone'
  BY DEF MapInv, TypeOK, ServedOK, WriterAlone
<1>5. HolderSeesContent'
  BY DEF MapInv, TypeOK, ServedOK, WireOK, HolderSeesContent
<1> QED
  BY <1>2, <1>3, <1>4, <1>5 DEF MapInv

LEMMA GiveBackSound ==
  ASSUME MapInv, NEW c \in Call, GiveBack(c)
  PROVE  MapInv'
<1>1. PICK save \in BOOLEAN : \E value : UnlockContext(c, save, value)
  BY DEF GiveBack
<1>0. PICK value : UnlockContext(c, save, value)
  BY <1>1
<1> USE <1>0 DEF UnlockContext, serverVars, GiveBack
<1>2. TypeOK'
  <2>1. \A d \in Call : request'[d].command \in
          {"none", RLOCK, WLOCK, LOCK_UNLOCK, "unlock", "save_and_unlock"}
    BY DEF MapInv, TypeOK
  <2>2. DOMAIN request' = Call
    BY DEF MapInv, TypeOK
  <2>3. entry' \in [Call -> {"none", WaitingLock, WaitingUnlock, WaitingLockUnlock, Processing}]
    BY DEF MapInv, TypeOK
  <2>4. timer' \in [Call -> SUBSET {"lock", "unlock"}]
    BY DEF MapInv, TypeOK
  <2>5. unlocking' \in [Call -> Outcome]
    BY DEF MapInv, TypeOK, Outcome
  <2> QED
    BY <2>1, <2>2, <2>3, <2>4, <2>5 DEF MapInv, TypeOK
<1>3. ASSUME NEW d \in Call
      PROVE  (PhaseOK(d) /\ WireOK(d) /\ ServedOK(d))'
  <2>1. PhaseOK(d)'
    BY DEF MapInv, TypeOK, PhaseOK
  <2>2. WireOK(d)'
    BY DEF MapInv, TypeOK, PhaseOK, WireOK
  <2>3. ServedOK(d)'
    BY DEF MapInv, TypeOK, PhaseOK, WireOK, ServedOK
  <2> QED
    BY <2>1, <2>2, <2>3
<1>4. WriterAlone' /\ HolderSeesContent'
  BY DEF MapInv, TypeOK, WriterAlone, HolderSeesContent
<1> QED
  BY <1>2, <1>3, <1>4 DEF MapInv

LEMMA OnMessageSound ==
  ASSUME MapInv, NEW c \in Call, OnMessage(c)
  PROVE  MapInv'
<1> USE DEF OnMessage, Reject, Settle, TimerOf, clientVars, serverVars
<1>2. TypeOK'
  <2>1. entry' \in [Call -> {"none", WaitingLock, WaitingUnlock, WaitingLockUnlock, Processing}]
    BY DEF MapInv, TypeOK
  <2>2. timer' \in [Call -> SUBSET {"lock", "unlock"}]
    BY DEF MapInv, TypeOK
  <2>3. locking' \in [Call -> Outcome] /\ unlocking' \in [Call -> Outcome]
    BY DEF MapInv, TypeOK, Outcome
  <2>4. DOMAIN got' = Call
    BY DEF MapInv, TypeOK
  <2>5. DOMAIN reply' = Call
        /\ \A d \in Call : reply'[d].command \in {"none", "lock", "unlock"}
    BY DEF MapInv, TypeOK, NoMessage
  <2> QED
    BY <2>1, <2>2, <2>3, <2>4, <2>5 DEF MapInv, TypeOK
<1>3. ASSUME NEW d \in Call
      PROVE  (PhaseOK(d) /\ WireOK(d) /\ ServedOK(d))'
  <2>1. PhaseOK(d)'
    BY DEF MapInv, TypeOK, PhaseOK, WireOK, Outcome
  <2>2. WireOK(d)'
    BY DEF MapInv, TypeOK, PhaseOK, WireOK, NoMessage
  <2>3. ServedOK(d)'
    BY DEF MapInv, TypeOK, PhaseOK, WireOK, ServedOK, NoMessage
  <2> QED
    BY <2>1, <2>2, <2>3
<1>4. WriterAlone'
  BY DEF MapInv, TypeOK, WriterAlone
<1>5. HolderSeesContent'
  BY DEF MapInv, TypeOK, PhaseOK, WireOK, HolderSeesContent, NoMessage
<1> QED
  BY <1>2, <1>3, <1>4, <1>5 DEF MapInv

LEMMA TimeoutRequestSound ==
  ASSUME MapInv, NEW c \in Call, TimeoutRequest(c)
  PROVE  MapInv'
<1> USE DEF TimeoutRequest, Reject, Settle, serverVars
<1>2. TypeOK'
  BY DEF MapInv, TypeOK, Outcome
<1>3. ASSUME NEW d \in Call
      PROVE  (PhaseOK(d) /\ WireOK(d) /\ ServedOK(d))'
  <2>1. PhaseOK(d)'
    BY DEF MapInv, TypeOK, PhaseOK, Outcome
  <2>2. WireOK(d)'
    BY DEF MapInv, TypeOK, PhaseOK, WireOK
  <2>3. ServedOK(d)'
    BY DEF MapInv, TypeOK, PhaseOK, ServedOK
  <2> QED
    BY <2>1, <2>2, <2>3
<1>4. WriterAlone'
  BY DEF MapInv, TypeOK, WriterAlone
<1>5. HolderSeesContent'
  BY DEF MapInv, TypeOK, PhaseOK, HolderSeesContent
<1> QED
  BY <1>2, <1>3, <1>4, <1>5 DEF MapInv

-----------------------------------------------------------------------------
(* The steps of the context manager. *)

LEMMA GrantSound ==
  ASSUME MapInv, NEW c \in Call, Grant(c)
  PROVE  MapInv'
<1> USE DEF Grant, Answer, clientVars
<1>1. \A d \in Call : lock[d] # "free" => mode[d] # WLOCK /\ mode[c] # WLOCK
  BY DEF Compatible, Holders, Writers
<1>2. TypeOK'
  <2>1. lock' \in [Call -> {"free", "held", "unlocking", "expired"}]
    BY DEF MapInv, TypeOK
  <2>2. DOMAIN request' = Call /\ DOMAIN reply' = Call
    BY DEF MapInv, TypeOK
  <2>3. \A d \in Call : request'[d].command \in
          {"none", RLOCK, WLOCK, LOCK_UNLOCK, "unlock", "save_and_unlock"}
    BY DEF MapInv, TypeOK, NoMessage
  <2>4. \A d \in Call : reply'[d].command \in {"none", "lock", "unlock"}
    BY DEF MapInv, TypeOK, NoMessage
  <2> QED
    BY <2>1, <2>2, <2>3, <2>4 DEF MapInv, TypeOK
<1>3. ASSUME NEW d \in Call
      PROVE  (PhaseOK(d) /\ WireOK(d) /\ ServedOK(d))'
  <2>1. PhaseOK(d)'
    BY DEF MapInv, PhaseOK
  <2>2. WireOK(d)'
    BY DEF MapInv, TypeOK, PhaseOK, WireOK, NoMessage
  <2>3. ServedOK(d)'
    BY DEF MapInv, TypeOK, WireOK, ServedOK, NoMessage
  <2> QED
    BY <2>1, <2>2, <2>3
<1>4. WriterAlone'
  BY <1>1 DEF MapInv, TypeOK, WriterAlone
<1>5. HolderSeesContent'
  BY DEF MapInv, TypeOK, WireOK, HolderSeesContent
<1> QED
  BY <1>2, <1>3, <1>4, <1>5 DEF MapInv

LEMMA RefuseSound ==
  ASSUME MapInv, NEW c \in Call, Refuse(c)
  PROVE  MapInv'
<1> USE DEF Refuse, Answer, clientVars, serverVars
<1>2. TypeOK'
  <2>2. DOMAIN request' = Call /\ DOMAIN reply' = Call
    BY DEF MapInv, TypeOK
  <2>3. \A d \in Call : request'[d].command \in
          {"none", RLOCK, WLOCK, LOCK_UNLOCK, "unlock", "save_and_unlock"}
    BY DEF MapInv, TypeOK, NoMessage
  <2>4. \A d \in Call : reply'[d].command \in {"none", "lock", "unlock"}
    BY DEF MapInv, TypeOK, NoMessage
  <2> QED
    BY <2>2, <2>3, <2>4 DEF MapInv, TypeOK
<1>3. ASSUME NEW d \in Call
      PROVE  (PhaseOK(d) /\ WireOK(d) /\ ServedOK(d))'
  <2>1. PhaseOK(d)'
    BY DEF MapInv, PhaseOK
  <2>2. WireOK(d)'
    BY DEF MapInv, TypeOK, PhaseOK, WireOK, NoMessage
  <2>3. ServedOK(d)'
    BY DEF MapInv, TypeOK, WireOK, ServedOK, NoMessage
  <2> QED
    BY <2>1, <2>2, <2>3
<1>4. WriterAlone' /\ HolderSeesContent'
  BY DEF MapInv, TypeOK, WriterAlone, HolderSeesContent
<1> QED
  BY <1>2, <1>3, <1>4 DEF MapInv

LEMMA RecvUnlockSound ==
  ASSUME MapInv, NEW c \in Call, RecvUnlock(c)
  PROVE  MapInv'
<1> USE DEF RecvUnlock, Answer, Save, clientVars
<1>2. TypeOK'
  <2>1. lock' \in [Call -> {"free", "held", "unlocking", "expired"}]
    BY DEF MapInv, TypeOK
  <2>2. DOMAIN request' = Call /\ DOMAIN reply' = Call
    BY DEF MapInv, TypeOK
  <2>3. \A d \in Call : request'[d].command \in
          {"none", RLOCK, WLOCK, LOCK_UNLOCK, "unlock", "save_and_unlock"}
    BY DEF MapInv, TypeOK, NoMessage
  <2>4. \A d \in Call : reply'[d].command \in {"none", "lock", "unlock"}
    BY DEF MapInv, TypeOK, NoMessage
  <2> QED
    BY <2>1, <2>2, <2>3, <2>4 DEF MapInv, TypeOK
<1>3. ASSUME NEW d \in Call
      PROVE  (PhaseOK(d) /\ WireOK(d) /\ ServedOK(d))'
  <2>1. PhaseOK(d)'
    BY DEF MapInv, PhaseOK
  <2>2. WireOK(d)'
    BY DEF MapInv, TypeOK, PhaseOK, WireOK, NoMessage
  <2>3. ServedOK(d)'
    BY DEF MapInv, TypeOK, WireOK, ServedOK, NoMessage
  <2> QED
    BY <2>1, <2>2, <2>3
<1>4. WriterAlone'
  BY DEF MapInv, TypeOK, WriterAlone
<1>5. HolderSeesContent'
  <2>1. CASE content' = content
    BY <2>1 DEF MapInv, TypeOK, HolderSeesContent, NoMessage
  <2>2. CASE content' # content
    <3>1. lock[c] = "held" /\ mode[c] = WLOCK /\ lock'[c] = "unlocking"
      BY <2>2 DEF MapInv, TypeOK, WireOK
    <3>2. \A d \in Call : lock'[d] # "held"
      BY <3>1 DEF MapInv, TypeOK, WriterAlone
    <3> QED
      BY <3>2 DEF HolderSeesContent
  <2> QED
    BY <2>1, <2>2
<1> QED
  BY <1>2, <1>3, <1>4, <1>5 DEF MapInv

LEMMA HoldTimeoutSound ==
  ASSUME MapInv, NEW c \in Call, HoldTimeout(c)
  PROVE  MapInv'
<1> USE DEF HoldTimeout, clientVars
<1>2. TypeOK'
  BY DEF MapInv, TypeOK
<1>3. ASSUME NEW d \in Call
      PROVE  (PhaseOK(d) /\ WireOK(d) /\ ServedOK(d))'
  BY DEF MapInv, TypeOK, PhaseOK, WireOK, ServedOK
<1>4. WriterAlone' /\ HolderSeesContent'
  BY DEF MapInv, TypeOK, WriterAlone, HolderSeesContent
<1> QED
  BY <1>2, <1>3, <1>4 DEF MapInv

LEMMA UnlockedSound ==
  ASSUME MapInv, NEW c \in Call, Unlocked(c)
  PROVE  MapInv'
<1> USE DEF Unlocked, Answer, clientVars
<1>2. TypeOK'
  <2>1. lock' \in [Call -> {"free", "held", "unlocking", "expired"}]
    BY DEF MapInv, TypeOK
  <2>2. DOMAIN request' = Call /\ DOMAIN reply' = Call
    BY DEF MapInv, TypeOK
  <2>3. \A d \in Call : request'[d].command \in
          {"none", RLOCK, WLOCK, LOCK_UNLOCK, "unlock", "save_and_unlock"}
    BY DEF MapInv, TypeOK, NoMessage
  <2>4. \A d \in Call : reply'[d].command \in {"none", "lock", "unlock"}
    BY DEF MapInv, TypeOK, NoMessage
  <2> QED
    BY <2>1, <2>2, <2>3, <2>4 DEF MapInv, TypeOK
<1>3. ASSUME NEW d \in Call
      PROVE  (PhaseOK(d) /\ WireOK(d) /\ ServedOK(d))'
  <2>1. PhaseOK(d)'
    BY DEF MapInv, PhaseOK
  <2>2. WireOK(d)'
    BY DEF MapInv, TypeOK, PhaseOK, WireOK, ServedOK, NoMessage
  <2>3. ServedOK(d)'
    BY DEF MapInv, TypeOK, WireOK, ServedOK, NoMessage
  <2> QED
    BY <2>1, <2>2, <2>3
<1>4. WriterAlone'
  BY DEF MapInv, TypeOK, WriterAlone
<1>5. HolderSeesContent'
  BY DEF MapInv, TypeOK, HolderSeesContent
<1> QED
  BY <1>2, <1>3, <1>4, <1>5 DEF MapInv

LEMMA ServerCrashSound ==
  ASSUME MapInv, ServerCrash
  PROVE  MapInv'
<1>1. PICK kept \in SUBSET Call :
        /\ request' = [c \in Call |->
             IF c \in kept /\ lock[c] # "unlocking" THEN request[c] ELSE NoMessage]
        /\ reply' = [c \in Call |-> IF c \in kept THEN reply[c] ELSE NoMessage]
  BY DEF ServerCrash
<1> USE <1>1 DEF ServerCrash, clientVars
<1>2. TypeOK'
  <2>1. lock' \in [Call -> {"free", "held", "unlocking", "expired"}]
    BY DEF MapInv, TypeOK
  <2>2. DOMAIN request' = Call /\ DOMAIN reply' = Call
    BY DEF MapInv, TypeOK
  <2>3. \A d \in Call : request'[d].command \in
          {"none", RLOCK, WLOCK, LOCK_UNLOCK, "unlock", "save_and_unlock"}
    BY DEF MapInv, TypeOK, NoMessage
  <2>4. \A d \in Call : reply'[d].command \in {"none", "lock", "unlock"}
    BY DEF MapInv, TypeOK, NoMessage
  <2>5. crashes' \in 0..MaxCrashes
    BY MaxCrashesAssumption DEF MapInv, TypeOK
  <2> QED
    BY <2>1, <2>2, <2>3, <2>4, <2>5 DEF MapInv, TypeOK
<1>3. ASSUME NEW d \in Call
      PROVE  (PhaseOK(d) /\ WireOK(d) /\ ServedOK(d))'
  <2>1. PhaseOK(d)'
    BY DEF MapInv, PhaseOK
  <2>2. WireOK(d)'
    BY DEF MapInv, TypeOK, PhaseOK, WireOK, NoMessage
  <2>3. ServedOK(d)'
    BY DEF MapInv, TypeOK, WireOK, ServedOK, NoMessage
  <2> QED
    BY <2>1, <2>2, <2>3
<1>4. WriterAlone' /\ HolderSeesContent'
  BY DEF WriterAlone, HolderSeesContent
<1> QED
  BY <1>2, <1>3, <1>4 DEF MapInv

-----------------------------------------------------------------------------
(* What any user of the client can rely on. *)

LEMMA MapInvInit == CtxInit => MapInv
<1> SUFFICES ASSUME CtxInit PROVE MapInv
  OBVIOUS
<1> USE DEF CtxInit, NoMessage
<1>1. TypeOK
  BY MaxCrashesAssumption DEF TypeOK, Outcome
<1>2. \A c \in Call : PhaseOK(c) /\ WireOK(c) /\ ServedOK(c)
  BY DEF PhaseOK, WireOK, ServedOK
<1>3. WriterAlone /\ HolderSeesContent
  BY DEF WriterAlone, HolderSeesContent
<1> QED
  BY <1>1, <1>2, <1>3 DEF MapInv

LEMMA MapInvStep == MapInv /\ AnyStep => MapInv'
<1> SUFFICES ASSUME MapInv, AnyStep PROVE MapInv'
  OBVIOUS
<1>1. CASE UserStep
  BY <1>1, AskForSound, GiveBackSound DEF UserStep
<1>2. CASE ClientNext
  BY <1>2, OnMessageSound, TimeoutRequestSound DEF ClientNext
<1>3. CASE ServerNext
  BY <1>3, GrantSound, RefuseSound, RecvUnlockSound, HoldTimeoutSound, UnlockedSound,
     ServerCrashSound DEF ServerNext
<1>4. CASE UNCHANGED ctxVars
  <2> USE <1>4 DEF ctxVars, clientVars, serverVars
  <2>1. TypeOK'
    BY DEF MapInv, TypeOK
  <2>2. \A c \in Call : (PhaseOK(c) /\ WireOK(c) /\ ServedOK(c))'
    BY DEF MapInv, PhaseOK, WireOK, ServedOK
  <2>3. WriterAlone' /\ HolderSeesContent'
    BY DEF MapInv, WriterAlone, HolderSeesContent
  <2> QED
    BY <2>1, <2>2, <2>3 DEF MapInv
<1> QED
  BY <1>1, <1>2, <1>3, <1>4 DEF AnyStep

\* The inductive invariant gives what the run checks.
LEMMA MapInvMeans == MapInv => ContextMapSound
<1> SUFFICES ASSUME MapInv PROVE ContextMapSound
  OBVIOUS
<1>1. TypeOK /\ HolderSeesContent
  BY DEF MapInv
<1>2. ProcessingKeepsEntry
  BY DEF MapInv, PhaseOK, ProcessingKeepsEntry
<1>3. PendingIsTimed
  BY DEF MapInv, TypeOK, PhaseOK, PendingIsTimed, TimerOf
<1> QED
  BY <1>1, <1>2, <1>3 DEF ContextMapSound

LEMMA AnyStepTellsWhatIsDone == MapInv /\ AnyStep => ToldIsDoneStep
<1> SUFFICES ASSUME MapInv, AnyStep PROVE ToldIsDoneStep
  OBVIOUS
<1>1. ASSUME content' # content
      PROVE  \E c \in Call : lock[c] = "held" /\ mode[c] = WLOCK /\ got[c] = content
  <2>1. PICK c \in Call : RecvUnlock(c) /\ content' # content
    BY <1>1 DEF AnyStep, UserStep, AskFor, GiveBack, LockAndGetContext, UnlockContext,
       ClientNext, OnMessage, TimeoutRequest, ServerNext, Grant, Refuse, HoldTimeout,
       Unlocked, ServerCrash, ctxVars, serverVars
  <2>2. lock[c] = "held" /\ request[c].command = "save_and_unlock"
    BY <2>1 DEF RecvUnlock, Save
  <2> QED
    BY <2>2 DEF MapInv, WireOK, HolderSeesContent
<1>2. ASSUME NEW c \in Call, unlocking[c] = "pending", unlocking'[c] = "resolved"
      PROVE  lock[c] # "held" /\ reply[c].command = "unlock"
  <2>1. OnMessage(c)
    BY <1>2 DEF MapInv, TypeOK, AnyStep, UserStep, AskFor, GiveBack, LockAndGetContext,
       UnlockContext, ClientNext, OnMessage, TimeoutRequest, Reject, Settle, ServerNext,
       Grant, Refuse, RecvUnlock, HoldTimeout, Unlocked, ServerCrash, ctxVars, clientVars
  <2>2. entry[c] = WaitingUnlock /\ reply[c].command # "none"
    BY <2>1, <1>2 DEF MapInv, TypeOK, WireOK, PhaseOK, OnMessage, Reject, Settle, clientVars
  <2> QED
    BY <2>2 DEF MapInv, TypeOK, PhaseOK, WireOK, ServedOK
<1> QED
  BY <1>1, <1>2 DEF ToldIsDoneStep

LEMMA NextIsAnyStep == [Next]_ctxVars => AnyStep
<1> SUFFICES ASSUME Next PROVE AnyStep
  BY DEF AnyStep
<1>1. ASSUME NEW c \in Call, Release(c)
      PROVE  GiveBack(c)
  BY <1>1 DEF Release, GiveBack
<1>2. ASSUME NEW c \in Call, NEW m \in Modes[c], LockAndGetContext(c, m)
      PROVE  AskFor(c)
  BY <1>2, ModesAssumption DEF AskFor
<1> QED
  BY <1>1, <1>2 DEF Next, AnyStep, UserStep

\* Whoever uses the client, at any moment, in any mode: contextMap, its timers
\* and its promises agree with each other and with the context manager.
THEOREM ContextMapsAgree == Spec => []ContextMapSound
<1>1. Spec => []MapInv
  BY MapInvInit, MapInvStep, NextIsAnyStep, PTL DEF Spec
<1> QED
  BY <1>1, MapInvMeans, PTL

\* No save is made of a stale content; what a user is told is done was done.
THEOREM ReleasesAreMade == Spec => ToldIsDone
<1>1. Spec => []MapInv
  BY MapInvInit, MapInvStep, NextIsAnyStep, PTL DEF Spec
<1>2. MapInv /\ [Next]_ctxVars => [ToldIsDoneStep]_ctxVars
  BY AnyStepTellsWhatIsDone, NextIsAnyStep
<1> QED
  BY <1>1, <1>2, PTL DEF Spec, ToldIsDone

-----------------------------------------------------------------------------
(* The context manager its clients see is the abstract read/write lock.    *)

SavedCalls == {saves[i].call : i \in DOMAIN saves}

\* A sequence of whatever it contains.
IsSequence(s) == s \in Seq({s[i] : i \in DOMAIN s})

LEMMA Appended ==
  ASSUME NEW s, NEW x, IsSequence(s)
  PROVE  /\ IsSequence(Append(s, x))
         /\ DOMAIN Append(s, x) = 1..Len(s) + 1
         /\ DOMAIN s = 1..Len(s)
         /\ \A i \in DOMAIN s : Append(s, x)[i] = s[i]
         /\ Append(s, x)[Len(s) + 1] = x
         /\ Len(Append(s, x)) = Len(s) + 1
         /\ Len(s) \in Nat
<1> DEFINE S == {s[i] : i \in DOMAIN s} \cup {x}
           t == Append(s, x)
           T == {t[i] : i \in DOMAIN t}
<1>1. s \in Seq(S) /\ x \in S
  BY DEF IsSequence
<1>2. Len(s) \in Nat /\ DOMAIN s = 1..Len(s)
  BY <1>1
<1>3. t \in Seq(S) /\ Len(t) = Len(s) + 1 /\ DOMAIN t = 1..Len(s) + 1
  BY <1>1
<1>4. \A i \in 1..Len(s) : t[i] = s[i]
  BY <1>1
<1>5. t[Len(s) + 1] = x
  BY <1>1
<1>6. IsSequence(t)
  <2> HIDE DEF t, S
  <2>1. t \in [1..Len(t) -> S] /\ Len(t) \in Nat
    BY <1>3, LenProperties
  <2>2. t \in [1..Len(t) -> T]
    BY <2>1
  <2> HIDE DEF T
  <2>3. t \in Seq(T)
    BY <2>1, <2>2, SeqDef
  <2> QED
    BY <2>3 DEF IsSequence, T
<1> QED
  BY <1>2, <1>3, <1>4, <1>5, <1>6

\* saves is a sequence, of the calls that saved.
SavesInv == IsSequence(saves)

LEMMA SavesInvInit == CtxInit => SavesInv
  BY DEF CtxInit, SavesInv, IsSequence

\* A step saves nothing, or it carries out one save, the writer's.
LEMMA StepSaves ==
  ASSUME MapInv, AnyStep
  PROVE  \/ UNCHANGED <<saves, content>>
         \/ \E c \in Call :
              /\ RecvUnlock(c)
              /\ lock[c] = "held" /\ lock' = [lock EXCEPT ![c] = "unlocking"]
              /\ request[c].command = "save_and_unlock" /\ mode[c] = WLOCK
              /\ content' = request[c].content
              /\ saves' = Append(saves, [call |-> c, context |-> request[c].content])
<1>1. CASE UserStep
  BY <1>1 DEF UserStep, AskFor, GiveBack, LockAndGetContext, UnlockContext, serverVars
<1>2. CASE ClientNext
  BY <1>2 DEF ClientNext, OnMessage, TimeoutRequest, serverVars
<1>3. CASE UNCHANGED ctxVars
  BY <1>3 DEF ctxVars, serverVars
<1>4. CASE ServerNext
  <2>1. ASSUME NEW c \in Call, Grant(c) \/ Refuse(c) \/ HoldTimeout(c) \/ Unlocked(c)
        PROVE  UNCHANGED <<saves, content>>
    BY <2>1 DEF Grant, Refuse, HoldTimeout, Unlocked, serverVars
  <2>2. CASE ServerCrash
    BY <2>2 DEF ServerCrash
  <2>3. ASSUME NEW c \in Call, RecvUnlock(c), ~UNCHANGED <<saves, content>>
        PROVE  /\ lock[c] = "held" /\ lock' = [lock EXCEPT ![c] = "unlocking"]
               /\ request[c].command = "save_and_unlock" /\ mode[c] = WLOCK
               /\ content' = request[c].content
               /\ saves' = Append(saves, [call |-> c, context |-> request[c].content])
    BY <2>3 DEF RecvUnlock, Save, MapInv, WireOK
  <2> QED
    BY <1>4, <2>1, <2>2, <2>3 DEF ServerNext
<1> QED
  BY <1>1, <1>2, <1>3, <1>4 DEF AnyStep

LEMMA SavesInvStep == MapInv /\ SavesInv /\ AnyStep => SavesInv'
<1> SUFFICES ASSUME MapInv, SavesInv, AnyStep PROVE SavesInv'
  OBVIOUS
<1>1. CASE UNCHANGED saves
  BY <1>1 DEF SavesInv
<1>2. CASE \E x : saves' = Append(saves, x)
  <2>1. PICK x : saves' = Append(saves, x)
    BY <1>2
  <2>2. IsSequence(Append(saves, x))
    BY Appended DEF SavesInv
  <2> QED
    BY <2>1, <2>2 DEF SavesInv
<1> QED
  BY <1>1, <1>2, StepSaves

LEMMA CallsAfterSave ==
  ASSUME SavesInv, NEW c, NEW v, saves' = Append(saves, [call |-> c, context |-> v])
  PROVE  SavedCalls' = SavedCalls \cup {c}
<1> DEFINE x == [call |-> c, context |-> v]
<1>1. /\ DOMAIN saves' = 1..Len(saves) + 1 /\ DOMAIN saves = 1..Len(saves)
      /\ \A i \in DOMAIN saves : saves'[i] = saves[i]
      /\ saves'[Len(saves) + 1] = x /\ Len(saves) \in Nat
  BY Appended DEF SavesInv
<1>2. \A i \in DOMAIN saves' : i \in DOMAIN saves \/ i = Len(saves) + 1
  BY <1>1
<1>3. x.call = c
  OBVIOUS
<1>4. \A i \in DOMAIN saves : i \in DOMAIN saves'
  BY <1>1
<1>5. Len(saves) + 1 \in DOMAIN saves'
  BY <1>1
<1> HIDE DEF x
<1> QED
  BY <1>1, <1>2, <1>3, <1>4, <1>5 DEF SavedCalls

\* Holders change as the abstract lock allows; the calls saved only grow by the
\* writer.
LEMMA StepIsRWStep ==
  ASSUME MapInv, SavesInv, AnyStep
  PROVE  [RW!RWNext]_(RW!rwVars)
<1> USE DEF RW!rwVars
<1>s. SavedCalls = {saves[i].call : i \in DOMAIN saves}
  BY DEF SavedCalls
<1>1. CASE UNCHANGED <<lock, mode, saves>>
  BY <1>1 DEF Readers, Writers, Holders
<1>2. ASSUME NEW c \in Call, AskFor(c)
      PROVE  UNCHANGED RW!rwVars
  <2>1. PICK m \in LockModes : LockAndGetContext(c, m)
    BY <1>2 DEF AskFor
  <2>2. lock[c] = "free" /\ mode' = [mode EXCEPT ![c] = m] /\ UNCHANGED <<lock, saves>>
    BY <2>1 DEF LockAndGetContext, serverVars, MapInv, ServedOK
  <2>3. Holders' = Holders /\ \A d \in Holders : mode'[d] = mode[d]
    BY <2>2 DEF Holders, MapInv, TypeOK
  <2>4. Readers' = Readers /\ Writers' = Writers
    BY <2>3 DEF Readers, Writers
  <2> QED
    BY <2>2, <2>4
<1>3. ASSUME NEW c \in Call, Grant(c)
      PROVE  RW!RWNext
  <2>1. /\ lock[c] = "free" /\ Compatible(c) /\ UNCHANGED <<mode, saves>>
        /\ lock' = [lock EXCEPT ![c] = "held"] \/ lock' = [lock EXCEPT ![c] = "unlocking"]
    BY <1>3 DEF Grant, clientVars
  <2>2. Holders' = Holders \cup {c} /\ c \notin Holders
    BY <2>1 DEF Holders, MapInv, TypeOK
  <2>3. CASE mode[c] = WLOCK
    <3>1. Holders = {}
      BY <2>1, <2>3 DEF Compatible
    <3>2. Readers \cup Writers = {} /\ Readers' = Readers /\ Writers' = {c}
      BY <3>1, <2>1, <2>2, <2>3 DEF Readers, Writers
    <3>3. RW!AcquireWrite(c)
      BY <3>2, <2>1 DEF RW!AcquireWrite
    <3> QED
      BY <3>3 DEF RW!RWNext
  <2>4. CASE mode[c] # WLOCK
    <3>1. Writers = {}
      BY <2>1, <2>4 DEF Compatible
    <3>2. c \notin Readers /\ Readers' = Readers \cup {c} /\ Writers' = Writers
      BY <3>1, <2>1, <2>2, <2>4 DEF Readers, Writers
    <3>3. RW!AcquireRead(c)
      BY <3>1, <3>2, <2>1 DEF RW!AcquireRead
    <3> QED
      BY <3>3 DEF RW!RWNext
  <2> QED
    BY <2>3, <2>4
<1>4. ASSUME NEW c \in Call, RecvUnlock(c)
      PROVE  [RW!RWNext]_(RW!rwVars)
  <2>1. mode' = mode /\ Holders' = Holders
    BY <1>4 DEF RecvUnlock, clientVars, Holders, MapInv, TypeOK
  <2>2. Readers' = Readers /\ Writers' = Writers
    BY <2>1 DEF Readers, Writers
  <2>3. CASE UNCHANGED saves
    BY <2>2, <2>3
  <2>4. CASE lock[c] = "held" /\ request[c].command = "save_and_unlock"
    <3>1. saves' = Append(saves, [call |-> c, context |-> request[c].content])
      BY <1>4, <2>4 DEF RecvUnlock, Save
    <3>2. SavedCalls' = SavedCalls \cup {c}
      BY <3>1, CallsAfterSave
    <3>3. c \in Writers
      BY <2>4 DEF Writers, Holders, MapInv, WireOK
    <3>4. RW!Save(c)
      BY <2>2, <3>2, <3>3 DEF RW!Save, SavedCalls
    <3> QED
      BY <3>4 DEF RW!RWNext
  <2> QED
    BY <1>4, <2>3, <2>4 DEF RecvUnlock, Save
<1>5. ASSUME NEW c \in Call, HoldTimeout(c)
      PROVE  UNCHANGED RW!rwVars
  <2>1. mode' = mode /\ Holders' = Holders /\ UNCHANGED saves
    BY <1>5 DEF HoldTimeout, clientVars, Holders, MapInv, TypeOK
  <2> QED
    BY <2>1 DEF Readers, Writers
<1>6. ASSUME NEW c \in Call, Unlocked(c)
      PROVE  RW!RWNext
  <2>1. mode' = mode /\ Holders' = Holders \ {c} /\ UNCHANGED saves
    BY <1>6 DEF Unlocked, clientVars, Holders, MapInv, TypeOK
  <2>2. Readers' = Readers \ {c} /\ Writers' = Writers \ {c}
    BY <2>1 DEF Readers, Writers
  <2>3. RW!Release({c})
    BY <2>1, <2>2 DEF RW!Release
  <2> QED
    BY <2>3 DEF RW!RWNext
<1>7. CASE ServerCrash
  <2>1. Holders' = {} /\ UNCHANGED saves
    BY <1>7 DEF ServerCrash, Holders
  <2>2. Readers' = {} /\ Writers' = {}
    BY <2>1 DEF Readers, Writers
  <2>3. Readers \subseteq Call /\ Writers \subseteq Call
    BY DEF Readers, Writers, Holders
  <2>4. RW!Release(Call)
    BY <2>1, <2>2, <2>3 DEF RW!Release
  <2> QED
    BY <2>4 DEF RW!RWNext
<1>8. ASSUME NEW c \in Call, GiveBack(c) \/ OnMessage(c) \/ TimeoutRequest(c) \/ Refuse(c)
      PROVE  UNCHANGED <<lock, mode, saves>>
  BY <1>8 DEF GiveBack, UnlockContext, OnMessage, TimeoutRequest, Refuse, clientVars, serverVars
<1>9. CASE UNCHANGED ctxVars
  BY <1>9, <1>1 DEF ctxVars, clientVars, serverVars
<1> QED
  BY <1>1, <1>2, <1>3, <1>4, <1>5, <1>6, <1>7, <1>8, <1>9
     DEF AnyStep, UserStep, ClientNext, ServerNext

LEMMA StartIsRWStart == CtxInit => RW!RWInit
  BY DEF CtxInit, RW!RWInit, Readers, Writers, Holders

\* Access to the context is exclusive following the read/write lock procedure,
\* and only who holds it for writing saves, with any clients.
THEOREM ServersAreLocks == Spec => ServerIsReadWriteLock
<1>1. Spec => [](MapInv /\ SavesInv)
  BY MapInvInit, SavesInvInit, MapInvStep, SavesInvStep, NextIsAnyStep, PTL DEF Spec
<1>2. MapInv /\ SavesInv /\ [Next]_ctxVars => [RW!RWNext]_(RW!rwVars)
  BY StepIsRWStep, NextIsAnyStep
<1> QED
  BY <1>1, <1>2, StartIsRWStart, PTL DEF Spec, ServerIsReadWriteLock, RW!RWSpec

-----------------------------------------------------------------------------
(* The nodes: what a call asked for, what was saved for it, and how its    *)
(* handler ended.                                                          *)

NodeOK(c) ==
  /\ outcome[c] = "none" => locking[c] = "none"
  /\ locking[c] # "none" => mode[c] = LockMode(task[c].node)
  /\ request[c].command = "save_and_unlock" =>
       ~Refused(task[c], got[c]) /\ request[c].content = Compute(task[c], got[c])
  /\ request[c].command = "unlock" => Refused(task[c], got[c])
  /\ c \in SavedCalls =>
       /\ locking[c] = "resolved" /\ entry[c] # Processing /\ lock[c] # "held"
       /\ request[c].command = "save_and_unlock" => lock[c] = "unlocking"
  /\ lock[c] = "unlocking" /\ request[c].command = "save_and_unlock" => c \in SavedCalls
  /\ reply[c].command = "unlock" /\ reply[c].ok /\ ~Refused(task[c], got[c]) =>
       c \in SavedCalls
  /\ unlocking[c] = "resolved" /\ ~Refused(task[c], got[c]) => c \in SavedCalls
  /\ outcome[c] = "messages" /\ task[c].node # "get context" => c \in SavedCalls
  /\ task[c].node = "arithmetic mean" => outcome[c] # "text"

SavedOnce == \A i, j \in DOMAIN saves : saves[i].call = saves[j].call => i = j

\* The inductive invariant of the nodes.
NodesInv ==
  /\ MapInv
  /\ SavesInv
  /\ DOMAIN outcome = Call
  /\ \A c \in Call : NodeOK(c)
  /\ SavedOnce
  /\ ContextIsFold

LEMMA NodesStepIsAnyStep ==
  ASSUME NodesInv, [NodesNext]_vars
  PROVE  AnyStep /\ UNCHANGED task
<1>1. ASSUME NEW c \in Call, HandleMessage(c)
      PROVE  (AskFor(c) \/ UNCHANGED ctxVars) /\ UNCHANGED task
  BY <1>1 DEF HandleMessage, AskFor, LockMode
<1>2. ASSUME NEW c \in Call, Located(c)
      PROVE  GiveBack(c) /\ UNCHANGED task
  BY <1>2 DEF Located, GiveBack, NodesInv, NodeOK, LockMode, nodeVars
<1>3. ASSUME NEW c \in Call, Finish(c)
      PROVE  UNCHANGED ctxVars /\ UNCHANGED task
  BY <1>3 DEF Finish
<1>4. CASE Serve
  BY <1>4 DEF Serve, AnyStep, nodeVars
<1>5. CASE UNCHANGED vars
  BY <1>5 DEF vars, nodeVars, AnyStep
<1> QED
  BY <1>1, <1>2, <1>3, <1>4, <1>5 DEF NodesNext, AnyStep, UserStep

\* The saves stay a fold of the tasks, each of them saved at most once.
LEMMA NodesFoldStep ==
  ASSUME NodesInv, [NodesNext]_vars
  PROVE  SavedOnce' /\ ContextIsFold'
<1>1. AnyStep /\ UNCHANGED task
  BY NodesStepIsAnyStep
<1>2. CASE UNCHANGED <<saves, content>>
  BY <1>1, <1>2 DEF NodesInv, SavedOnce, ContextIsFold, ContextAfter
<1>3. ASSUME NEW c \in Call,
             lock[c] = "held", request[c].command = "save_and_unlock",
             content' = request[c].content,
             saves' = Append(saves, [call |-> c, context |-> request[c].content])
      PROVE  SavedOnce' /\ ContextIsFold'
  <2> DEFINE n == Len(saves)
             x == [call |-> c, context |-> request[c].content]
  <2>1. /\ DOMAIN saves' = 1..n + 1 /\ DOMAIN saves = 1..n
        /\ \A i \in 1..n : saves'[i] = saves[i]
        /\ saves'[n + 1] = x /\ Len(saves') = n + 1 /\ n \in Nat
    BY <1>3, Appended DEF NodesInv, SavesInv
  <2>2. x.call = c /\ x.context = request[c].content
    OBVIOUS
  <2>3. \A i \in 1..n : saves[i].call # c
    <3> HIDE DEF n, x
    <3>1. NodeOK(c)
      BY DEF NodesInv
    <3>2. c \notin SavedCalls
      BY <3>1, <1>3 DEF NodeOK
    <3> QED
      BY <3>2, <2>1 DEF SavedCalls
  <2>4. request[c].content = Compute(task[c], content)
    BY <1>3 DEF NodesInv, NodeOK, MapInv, WireOK, HolderSeesContent
  <2>5. \A i \in 0..n : ContextAfter(i)' = ContextAfter(i)
    BY <2>1 DEF ContextAfter
  <2>6. ContextAfter(Len(saves))' = content'
    <3> HIDE DEF n, x
    <3>1. Len(saves') # 0 /\ saves'[Len(saves')].context = content'
      BY <2>1, <2>2, <1>3
    <3> QED
      BY <3>1 DEF ContextAfter
  <2> HIDE DEF n, x
  <2>7. SavedOnce'
    BY <2>1, <2>2, <2>3 DEF NodesInv, SavedOnce
  <2>8. content = ContextAfter(n)
    BY DEF NodesInv, ContextIsFold, n
  <2>9. ASSUME NEW i \in DOMAIN saves'
        PROVE  saves'[i].context = Compute(task'[saves'[i].call], ContextAfter(i - 1)')
    <3>1. CASE i \in 1..n
      <4>1. saves[i].context = Compute(task[saves[i].call], ContextAfter(i - 1))
        BY <3>1, <2>1 DEF NodesInv, ContextIsFold
      <4>2. ContextAfter(i - 1)' = ContextAfter(i - 1) /\ saves'[i] = saves[i] /\ task' = task
        BY <3>1, <2>1, <2>5, <1>1
      <4> QED
        BY <4>1, <4>2
    <3>2. CASE i = n + 1
      <4>1. ContextAfter(i - 1)' = content
        BY <3>2, <2>1, <2>5, <2>8
      <4>2. saves'[i].call = c /\ saves'[i].context = Compute(task[c], content) /\ task' = task
        BY <3>2, <2>1, <2>2, <2>4, <1>1
      <4> QED
        BY <4>1, <4>2
    <3> QED
      BY <2>1, <3>1, <3>2
  <2> QED
    BY <2>6, <2>7, <2>9 DEF ContextIsFold
<1> QED
  BY <1>1, <1>2, <1>3, StepSaves DEF NodesInv

-----------------------------------------------------------------------------
(* Each step of the nodes, the timers and the messages keeps NodeOK.       *)

LEMMA HandleMessageOK ==
  ASSUME NodesInv, NEW c \in Call, HandleMessage(c), NEW d \in Call
  PROVE  NodeOK(d)'
<1>0. NodeOK(d) /\ task' = task /\ DOMAIN outcome = Call
  BY DEF NodesInv, HandleMessage
<1>1. outcome[c] = "none" /\ locking[c] = "none" /\ c \notin SavedCalls
  BY DEF NodesInv, HandleMessage, NodeOK
<1>2. CASE ~Valid(task[c])
  <2>1. outcome' = [outcome EXCEPT ![c] = "error"] /\ UNCHANGED ctxVars
    BY <1>2 DEF HandleMessage
  <2>2. SavedCalls' = SavedCalls
    BY <2>1 DEF ctxVars, serverVars, SavedCalls
  <2> QED
    BY <1>0, <1>1, <2>1, <2>2 DEF NodeOK, ctxVars, clientVars, serverVars
<1>3. CASE Valid(task[c])
  <2>1. LockAndGetContext(c, LockMode(task[c].node)) /\ outcome' = [outcome EXCEPT ![c] = "running"]
    BY <1>3 DEF HandleMessage
  <2>2. SavedCalls' = SavedCalls /\ UNCHANGED <<unlocking, got, reply, lock>>
    BY <2>1 DEF LockAndGetContext, serverVars, SavedCalls
  <2>3. CASE d # c
    <3>1. /\ locking'[d] = locking[d] /\ mode'[d] = mode[d] /\ request'[d] = request[d]
          /\ entry'[d] = entry[d] /\ outcome'[d] = outcome[d]
      BY <2>1, <2>3, <1>0 DEF LockAndGetContext, NodesInv, MapInv, TypeOK
    <3> QED
      BY <1>0, <2>2, <3>1 DEF NodeOK
  <2>4. CASE d = c
    <3>1. /\ locking'[c] = "pending" /\ mode'[c] = LockMode(task[c].node)
          /\ request'[c].command \in LockModes /\ outcome'[c] = "running"
      BY <2>1, <1>0 DEF LockAndGetContext, NodesInv, MapInv, TypeOK, LockMode
    <3>2. unlocking[c] # "resolved" /\ reply[c].command # "unlock"
      BY <1>1 DEF NodesInv, MapInv, PhaseOK, WireOK
    <3> QED
      BY <1>0, <1>1, <2>2, <2>4, <3>1, <3>2 DEF NodeOK
  <2> QED
    BY <2>3, <2>4
<1> QED
  BY <1>2, <1>3

LEMMA LocatedOK ==
  ASSUME NodesInv, NEW c \in Call, Located(c), NEW d \in Call
  PROVE  NodeOK(d)'
<1>0. NodeOK(d) /\ NodeOK(c) /\ TypeOK
  BY DEF NodesInv, MapInv
<1>1. /\ task' = task /\ outcome' = outcome /\ locking[c] = "resolved"
      /\ unlocking[c] = "none" /\ task[c].node # "get context" /\ outcome[c] = "running"
  BY DEF Located, nodeVars
<1>2. mode[c] = WLOCK
  BY <1>0, <1>1 DEF NodeOK, LockMode
<1>3. entry[c] = Processing /\ lock[c] # "unlocking" /\ reply[c].command = "none"
  BY <1>1, <1>2 DEF NodesInv, MapInv, PhaseOK, WireOK, ServedOK
<1>4. c \notin SavedCalls
  BY <1>0, <1>3 DEF NodeOK
<1>5. ASSUME NEW save \in BOOLEAN, NEW value, UnlockContext(c, save, value),
             save = ~Refused(task[c], got[c]),
             save => value = Compute(task[c], got[c])
      PROVE  NodeOK(d)'
  <2>1. SavedCalls' = SavedCalls /\ UNCHANGED <<mode, locking, got, reply, lock>>
    BY <1>5 DEF UnlockContext, serverVars, SavedCalls
  <2>2. CASE d # c
    <3>1. /\ unlocking'[d] = unlocking[d] /\ entry'[d] = entry[d]
          /\ request'[d] = request[d]
      BY <1>5, <2>2, <1>0 DEF UnlockContext, TypeOK
    <3> QED
      BY <1>0, <1>1, <2>1, <3>1 DEF NodeOK
  <2>3. CASE d = c
    <3>1. unlocking'[c] = "pending" /\ entry'[c] = WaitingUnlock
      BY <1>0, <1>2, <1>3, <1>5 DEF UnlockContext, TypeOK
    <3>2. request'[c] = IF save THEN [command |-> "save_and_unlock", content |-> value]
                                ELSE [command |-> "unlock"]
      BY <1>0, <1>2, <1>3, <1>5 DEF UnlockContext, TypeOK
    <3>3. /\ request'[c].command = "save_and_unlock" =>
               ~Refused(task[c], got[c]) /\ request'[c].content = Compute(task[c], got[c])
          /\ request'[c].command = "unlock" => Refused(task[c], got[c])
      <4>1. CASE save
        <5>1. request'[c] = [command |-> "save_and_unlock", content |-> value]
          BY <3>2, <4>1
        <5>2. request'[c].command = "save_and_unlock" /\ request'[c].content = value
          BY <5>1
        <5> QED
          BY <5>2, <4>1, <1>5
      <4>2. CASE ~save
        <5>1. request'[c] = [command |-> "unlock"]
          BY <3>2, <4>2
        <5>2. request'[c].command = "unlock"
          BY <5>1
        <5> QED
          BY <5>2, <4>2, <1>5
      <4> QED
        BY <4>1, <4>2
    <3> QED
      BY <1>0, <1>1, <1>3, <1>4, <2>1, <2>3, <3>1, <3>3 DEF NodeOK
  <2> QED
    BY <2>2, <2>3
<1>6. CASE Refused(task[c], got[c])
  <2>1. UnlockContext(c, FALSE, got[c])
    BY <1>6 DEF Located
  <2> QED
    BY <1>5, <1>6, <2>1
<1>7. CASE ~Refused(task[c], got[c])
  <2>1. UnlockContext(c, TRUE, Compute(task[c], got[c]))
    BY <1>7 DEF Located
  <2> QED
    BY <1>5, <1>7, <2>1
<1> QED
  BY <1>6, <1>7

LEMMA FinishOK ==
  ASSUME NodesInv, NEW c \in Call, Finish(c), NEW d \in Call
  PROVE  NodeOK(d)'
<1>1. UNCHANGED ctxVars /\ task' = task /\ SavedCalls' = SavedCalls
  BY DEF Finish, ctxVars, serverVars, SavedCalls
<1>2. /\ outcome' = [outcome EXCEPT ![c] = outcome'[c]]
      /\ outcome'[c] \in {"error", "text", "messages"}
      /\ task[c].node = "arithmetic mean" => outcome'[c] # "text"
      /\ outcome'[c] = "messages" =>
           \/ task[c].node = "get context"
           \/ unlocking[c] = "resolved" /\ ~Refused(task[c], got[c])
  BY DEF Finish, AfterFailedLock, AfterFailedSave, NodesInv
<1>3. outcome[c] # "none" /\ DOMAIN outcome = Call
  BY DEF Finish, NodesInv
<1>4. outcome'[d] = IF d = c THEN outcome'[c] ELSE outcome[d]
  BY <1>2, <1>3
<1> QED
  BY <1>1, <1>2, <1>3, <1>4 DEF NodesInv, NodeOK, ctxVars, clientVars, serverVars

LEMMA ClientOK ==
  ASSUME NodesInv, NEW c \in Call, OnMessage(c) \/ TimeoutRequest(c), UNCHANGED nodeVars,
         NEW d \in Call
  PROVE  NodeOK(d)'
<1>0. NodeOK(d) /\ NodeOK(c) /\ TypeOK /\ PhaseOK(c) /\ PhaseOK(d) /\ WireOK(c)
  BY DEF NodesInv, MapInv
<1>1. SavedCalls' = SavedCalls /\ UNCHANGED <<task, outcome, mode, request, lock>>
  BY DEF OnMessage, TimeoutRequest, clientVars, serverVars, nodeVars, SavedCalls
<1>2. CASE OnMessage(c)
  <2>1. CASE d # c \/ entry[c] = "none"
    <3>1. /\ entry'[d] = entry[d] /\ locking'[d] = locking[d] /\ unlocking'[d] = unlocking[d]
          /\ got'[d] = got[d]
      BY <1>0, <1>2, <2>1 DEF OnMessage, Reject, clientVars, TypeOK
    <3>2. reply'[d] = reply[d] \/ reply'[d] = NoMessage
      BY <1>0, <1>2 DEF OnMessage, TypeOK
    <3>3. reply'[d].command = "unlock" => reply'[d] = reply[d]
      BY <3>2 DEF NoMessage
    <3> QED
      BY <1>0, <1>1, <3>1, <3>3 DEF NodeOK
  <2>2. CASE d = c /\ entry[c] # "none"
    <3>1. locking[c] # "none" /\ outcome[c] # "none"
      BY <1>0, <2>2 DEF PhaseOK, NodeOK
    <3>2. reply'[c] = NoMessage
      BY <1>0, <1>2 DEF OnMessage, TypeOK
    <3>3. request[c].command = "none"
      BY <1>0, <1>2 DEF OnMessage, WireOK
    <3>4. locking[c] = "resolved" => locking'[c] = "resolved"
      BY <1>0, <1>2, <2>2 DEF OnMessage, Reject, Settle, TypeOK
    <3>5. entry[c] # Processing => entry'[c] # Processing \/ locking[c] = "pending"
      BY <1>0, <1>2, <2>2 DEF OnMessage, TypeOK, PhaseOK
    <3>6. ASSUME unlocking'[c] = "resolved"
          PROVE  unlocking[c] = "pending" /\ entry[c] = WaitingUnlock /\ reply[c].ok
                 /\ got'[c] = got[c]
      BY <1>0, <1>2, <2>2, <3>6 DEF OnMessage, Reject, Settle, PhaseOK, TypeOK
    <3>7. entry[c] = WaitingUnlock => reply[c].command = "unlock"
      BY <1>0, <1>2 DEF OnMessage, WireOK, PhaseOK, TypeOK
    <3>8. unlocking'[c] = "resolved" /\ ~Refused(task[c], got'[c]) => c \in SavedCalls
      BY <1>0, <3>6, <3>7 DEF NodeOK
    <3>9. mode[c] = LockMode(task[c].node)
      BY <1>0, <3>1 DEF NodeOK
    <3>10. reply'[c].command = "none"
      BY <3>2 DEF NoMessage
    <3> QED
      BY <1>0, <1>1, <2>2, <3>1, <3>3, <3>4, <3>5, <3>8, <3>9, <3>10 DEF NodeOK
  <2> QED
    BY <2>1, <2>2
<1>3. CASE TimeoutRequest(c)
  <2>1. /\ UNCHANGED <<got, reply>>
        /\ entry'[d] = entry[d] \/ entry'[d] = "none"
        /\ \/ locking'[d] = locking[d]
           \/ locking[d] = "pending" /\ locking'[d] = "rejected"
        /\ unlocking'[d] = unlocking[d] \/ unlocking'[d] = "rejected"
    BY <1>0, <1>3 DEF TimeoutRequest, Reject, Settle, TypeOK
  <2> QED
    BY <1>0, <1>1, <2>1 DEF NodeOK
<1> QED
  BY <1>2, <1>3

LEMMA ServerOK ==
  ASSUME NodesInv, ServerNext, UNCHANGED nodeVars, NEW d \in Call
  PROVE  NodeOK(d)'
<1> USE DEF NodesInv, MapInv, TypeOK, nodeVars
<1>1. UNCHANGED clientVars
  BY DEF ServerNext, Grant, Refuse, RecvUnlock, HoldTimeout, Unlocked, ServerCrash
<1>2. ASSUME NEW c \in Call, Grant(c)
      PROVE  NodeOK(d)'
  <2>1. locking[c] # "resolved" /\ request[c].command \notin UnlockCommands
        /\ reply[c].command = "none" /\ unlocking[c] = "none"
    BY <1>2 DEF Grant, WireOK, PhaseOK
  <2>2. SavedCalls' = SavedCalls
    BY <1>2 DEF Grant, SavedCalls
  <2>3. d # c => lock'[d] = lock[d] /\ request'[d] = request[d] /\ reply'[d] = reply[d]
    BY <1>2 DEF Grant, Answer
  <2>4. request'[c].command \notin UnlockCommands /\ reply'[c].command # "unlock"
    BY <1>2, <2>1 DEF Grant, Answer, NoMessage
  <2> QED
    BY <1>1, <2>1, <2>2, <2>3, <2>4 DEF NodeOK, clientVars
<1>3. ASSUME NEW c \in Call, Refuse(c)
      PROVE  NodeOK(d)'
  <2>1. locking[c] # "resolved"
    BY <1>3 DEF Refuse, WireOK
  <2>2. SavedCalls' = SavedCalls /\ lock' = lock
    BY <1>3 DEF Refuse, serverVars, SavedCalls
  <2>3. d # c => request'[d] = request[d] /\ reply'[d] = reply[d]
    BY <1>3 DEF Refuse, Answer
  <2>4. request'[c].command \notin UnlockCommands /\ reply'[c].command # "unlock"
    BY <1>3 DEF Refuse, Answer, NoMessage
  <2> QED
    BY <1>1, <2>1, <2>2, <2>3, <2>4 DEF NodeOK, clientVars
<1>4. ASSUME NEW c \in Call, RecvUnlock(c)
      PROVE  NodeOK(d)'
  <2>1. CASE lock[c] = "held"
    <3>1. lock' = [lock EXCEPT ![c] = "unlocking"] /\ UNCHANGED <<request, reply>>
          /\ request[c].command \in UnlockCommands
      BY <1>4, <2>1 DEF RecvUnlock
    <3>2. locking[c] = "resolved" /\ entry[c] # Processing /\ unlocking[c] # "none"
          /\ reply[c].command = "none"
      BY <3>1 DEF WireOK
    <3>3. CASE request[c].command = "save_and_unlock"
      <4>1. saves' = Append(saves, [call |-> c, context |-> request[c].content])
        BY <1>4, <2>1, <3>3 DEF RecvUnlock, Save
      <4>2. SavedCalls' = SavedCalls \cup {c}
        BY <4>1, CallsAfterSave
      <4>3. d # c => (d \in SavedCalls') = (d \in SavedCalls)
        BY <4>2
      <4>4. c \in SavedCalls'
        BY <4>2
      <4> QED
        BY <1>1, <3>1, <3>2, <3>3, <4>3, <4>4 DEF NodeOK, clientVars
    <3>4. CASE request[c].command # "save_and_unlock"
      <4>1. SavedCalls' = SavedCalls
        BY <1>4, <2>1, <3>4 DEF RecvUnlock, Save, SavedCalls
      <4> QED
        BY <1>1, <3>1, <3>2, <3>4, <4>1 DEF NodeOK, clientVars
    <3> QED
      BY <3>3, <3>4
  <2>2. CASE lock[c] # "held"
    <3>1. UNCHANGED lock /\ SavedCalls' = SavedCalls
      BY <1>4, <2>2 DEF RecvUnlock, SavedCalls
    <3>2. d # c => request'[d] = request[d] /\ reply'[d] = reply[d]
      BY <1>4, <2>2 DEF RecvUnlock, Answer
    <3>3. request'[c].command = "none" /\ ~reply'[c].ok
      BY <1>4, <2>2 DEF RecvUnlock, Answer, NoMessage
    <3> QED
      BY <1>1, <3>1, <3>2, <3>3 DEF NodeOK, clientVars
  <2> QED
    BY <2>1, <2>2
<1>5. ASSUME NEW c \in Call, HoldTimeout(c)
      PROVE  NodeOK(d)'
  <2>1. SavedCalls' = SavedCalls /\ UNCHANGED <<request, reply>>
    BY <1>5 DEF HoldTimeout, SavedCalls
  <2>2. lock[c] = "held" /\ lock' = [lock EXCEPT ![c] = "expired"]
    BY <1>5 DEF HoldTimeout
  <2> QED
    BY <1>1, <2>1, <2>2 DEF NodeOK, clientVars
<1>6. ASSUME NEW c \in Call, Unlocked(c)
      PROVE  NodeOK(d)'
  <2>1. SavedCalls' = SavedCalls /\ lock' = [lock EXCEPT ![c] = "free"]
        /\ lock[c] \in {"unlocking", "expired"}
    BY <1>6 DEF Unlocked, SavedCalls
  <2>2. d # c => request'[d] = request[d] /\ reply'[d] = reply[d]
    BY <1>6 DEF Unlocked, Answer
  <2>3. CASE lock[c] = "expired"
    <3>1. UNCHANGED <<request, reply>>
      BY <1>6, <2>3 DEF Unlocked
    <3> QED
      BY <1>1, <2>1, <2>3, <3>1 DEF NodeOK, clientVars
  <2>4. CASE lock[c] = "unlocking"
    <3>1. /\ request'[c].command = "none"
          /\ reply'[c].command = "unlock" => mode[c] # LOCK_UNLOCK
      BY <1>6, <2>4 DEF Unlocked, Answer, NoMessage
    <3>2. mode[c] # LOCK_UNLOCK => request[c].command \in UnlockCommands
      BY <2>4 DEF ServedOK, WireOK
    <3>3. reply'[c].command = "unlock" /\ ~Refused(task[c], got[c]) => c \in SavedCalls
      BY <3>1, <3>2, <2>4 DEF NodeOK
    <3> QED
      BY <1>1, <2>1, <2>2, <3>1, <3>3 DEF NodeOK, clientVars
  <2> QED
    BY <2>1, <2>3, <2>4
<1>7. CASE ServerCrash
  <2>1. SavedCalls' = SavedCalls /\ lock'[d] = "free"
    BY <1>7 DEF ServerCrash, SavedCalls
  <2>2. /\ request'[d] = NoMessage \/ (request'[d] = request[d] /\ lock[d] # "unlocking")
        /\ reply'[d] = reply[d] \/ reply'[d] = NoMessage
    BY <1>7 DEF ServerCrash
  <2>3. /\ request'[d].command # "none" => request'[d] = request[d] /\ lock[d] # "unlocking"
        /\ reply'[d].command = "unlock" => reply'[d] = reply[d]
    BY <2>2 DEF NoMessage
  <2>4. NodeOK(d)
    OBVIOUS
  <2>5. d \in SavedCalls => request'[d].command # "save_and_unlock"
    BY <2>3, <2>4 DEF NodeOK
  <2> QED
    BY <1>1, <2>1, <2>3, <2>4, <2>5 DEF NodeOK, clientVars
<1> QED
  BY <1>2, <1>3, <1>4, <1>5, <1>6, <1>7 DEF ServerNext

-----------------------------------------------------------------------------
(* The results on the nodes. *)

LEMMA NodesInvInit == NodesInit => NodesInv
<1> SUFFICES ASSUME NodesInit PROVE NodesInv
  OBVIOUS
<1>1. MapInv /\ SavesInv
  BY MapInvInit, SavesInvInit DEF NodesInit
<1>2. SavedCalls = {} /\ DOMAIN saves = {} /\ Len(saves) = 0
  BY DEF NodesInit, CtxInit, SavedCalls
<1>3. \A c \in Call : NodeOK(c)
  BY <1>2 DEF NodesInit, CtxInit, NodeOK, NoMessage
<1>4. SavedOnce /\ ContextIsFold
  BY <1>2 DEF NodesInit, CtxInit, SavedOnce, ContextIsFold, ContextAfter
<1> QED
  BY <1>1, <1>3, <1>4 DEF NodesInv, NodesInit

LEMMA NodesInvStep == NodesInv /\ [NodesNext]_vars => NodesInv'
<1> SUFFICES ASSUME NodesInv, [NodesNext]_vars PROVE NodesInv'
  OBVIOUS
<1>1. MapInv' /\ SavesInv'
  BY NodesStepIsAnyStep, MapInvStep, SavesInvStep DEF NodesInv
<1>2. SavedOnce' /\ ContextIsFold'
  BY NodesFoldStep
<1>3. DOMAIN outcome' = Call
  BY DEF NodesInv, NodesNext, HandleMessage, Located, Finish, Serve, vars, nodeVars
<1>4. ASSUME NEW d \in Call
      PROVE  NodeOK(d)'
  <2>1. CASE UNCHANGED vars
    BY <2>1 DEF NodesInv, NodeOK, SavedCalls, vars, nodeVars, ctxVars, clientVars, serverVars
  <2>2. CASE Serve
    BY <2>2, ClientOK, ServerOK DEF Serve, ClientNext
  <2> QED
    BY <2>1, <2>2, HandleMessageOK, LocatedOK, FinishOK DEF NodesNext
<1> QED
  BY <1>1, <1>2, <1>3, <1>4 DEF NodesInv

LEMMA NodesInvHolds == NodesSpec => []NodesInv
  BY NodesInvInit, NodesInvStep, PTL DEF NodesSpec

\* The context is the fold of the events whose saves were carried out, for any
\* nodes and events: no update is lost or made of a stale content.
THEOREM ContextsAreFolds == NodesSpec => []ContextIsFold
<1>1. NodesInv => ContextIsFold
  BY DEF NodesInv
<1> QED
  BY <1>1, NodesInvHolds, PTL

\* A handler sends messages on only for an event that entered the context, once.
THEOREM OutputsAreSaved == NodesSpec => []OutputIsSaved
<1>1. ASSUME NodesInv
      PROVE  OutputIsSaved
  <2>1. ASSUME NEW c \in Call, outcome[c] = "messages", task[c].node # "get context"
        PROVE  \E i \in DOMAIN saves : {j \in DOMAIN saves : saves[j].call = c} = {i}
    <3>1. PICK i \in DOMAIN saves : saves[i].call = c
      BY <1>1, <2>1 DEF NodesInv, NodeOK, SavedCalls
    <3>2. \A j \in DOMAIN saves : saves[j].call = c => j = i
      BY <1>1, <3>1 DEF NodesInv, SavedOnce
    <3> QED
      BY <3>1, <3>2
  <2>2. \A c \in Call : task[c].node = "arithmetic mean" => outcome[c] # "text"
    BY <1>1 DEF NodesInv, NodeOK
  <2> QED
    BY <2>1, <2>2 DEF OutputIsSaved
<1> QED
  BY <1>1, NodesInvHolds, PTL

\* The nodes use the client as any user may: its properties hold for them.
THEOREM NodesAreUsers ==
  NodesSpec => []ContextMapSound /\ ToldIsDone /\ ServerIsReadWriteLock
<1>1. NodesInv => ContextMapSound
  BY MapInvMeans DEF NodesInv
<1>2. NodesInv /\ [NodesNext]_vars => [ToldIsDoneStep]_ctxVars /\ [RW!RWNext]_(RW!rwVars)
  BY NodesStepIsAnyStep, AnyStepTellsWhatIsDone, StepIsRWStep DEF NodesInv
<1>3. NodesInit => RW!RWInit
  BY StartIsRWStart DEF NodesInit
<1> QED
  BY <1>1, <1>2, <1>3, NodesInvHolds, PTL
     DEF NodesSpec, ToldIsDone, ServerIsReadWriteLock, RW!RWSpec

-----------------------------------------------------------------------------
(* Least elements, and what adds up. *)

\* A set of naturals that has 0 and, with a number, its successor, has them all.
LEMMA SetInduction ==
  ASSUME NEW S, 0 \in S, \A n \in Nat : n \in S => n + 1 \in S
  PROVE  Nat \subseteq S
<1> SUFFICES ASSUME Nat \ S # {}
             PROVE  FALSE
  OBVIOUS
<1> DEFINE R == OpToRel(<, Nat)
<1>1. IsWellFoundedOn(R, Nat)
  BY ONLY NatLessThanWellFounded
<1>2. R = {ss \in Nat \X Nat : ss[1] < ss[2]}
  BY ONLY DEF OpToRel, R
<1> HIDE DEF R
<1>3. PICK x \in Nat \ S : \A y \in Nat \ S : ~(<<y, x>> \in R)
  BY <1>1, WFMin
<1>4. x # 0 /\ x - 1 \in Nat /\ x - 1 < x /\ x - 1 + 1 = x
  BY <1>3
<1>5. x - 1 \in S
  BY <1>2, <1>3, <1>4
<1> QED
  BY <1>3, <1>4, <1>5

\* A set of naturals that is not empty has a least element.
LEMMA MinSound ==
  ASSUME NEW S, S \subseteq Nat, S # {}
  PROVE  Min(S) \in S /\ \A y \in S : Min(S) <= y
<1> DEFINE R == OpToRel(<, Nat)
<1>1. IsWellFoundedOn(R, Nat)
  BY ONLY NatLessThanWellFounded
<1>2. R = {ss \in Nat \X Nat : ss[1] < ss[2]}
  BY ONLY DEF OpToRel, R
<1> HIDE DEF R
<1>3. PICK x \in S : \A y \in S : ~(<<y, x>> \in R)
  BY <1>1, WFMin
<1>4. ASSUME NEW y \in S
      PROVE  x <= y
  <2>1. x \in Nat /\ y \in Nat
    BY <1>3
  <2>2. ~(y < x)
    BY <1>2, <1>3, <2>1
  <2> QED
    BY <2>1, <2>2
<1> QED
  BY <1>4 DEF Min

\* What adds up as the entries do is their sum.
LEMMA SumIs ==
  ASSUME NEW s, Len(s) \in Nat, NEW g, g[0] = 0,
         \A k \in 1..Len(s) : g[k] = g[k - 1] + s[k].value
  PROVE  SumOf(s) = g[Len(s)]
<1> DEFINE L == Len(s)
           IsTotal(f) == f = [n \in 0..L |-> IF n = 0 THEN 0 ELSE f[n - 1] + s[n].value]
           total == CHOOSE f : IsTotal(f)
<1>1. \E f : IsTotal(f)
  <2> DEFINE f == [n \in 0..L |-> g[n]]
  <2>1. \A n \in 0..L : f[n] = IF n = 0 THEN 0 ELSE f[n - 1] + s[n].value
    <3> SUFFICES ASSUME NEW n \in 0..L, n # 0
                 PROVE  f[n] = f[n - 1] + s[n].value
      OBVIOUS
    <3>1. n \in 1..L /\ n - 1 \in 0..L
      OBVIOUS
    <3> QED
      BY <3>1
  <2>2. f = [n \in 0..L |-> f[n]]
    OBVIOUS
  <2> HIDE DEF f
  <2>3. IsTotal(f)
    BY <2>1, <2>2
  <2> QED
    BY <2>3
<1>2. IsTotal(total)
  BY <1>1
<1>3. SumOf(s) = total[L]
  BY DEF SumOf
<1>4. \A n \in 0..L : total[n] = IF n = 0 THEN 0 ELSE total[n - 1] + s[n].value
  BY <1>2
<1> HIDE DEF total, IsTotal
<1> DEFINE S == {n \in Nat : n \in 0..L => total[n] = g[n]}
<1>5. 0 \in S
  BY <1>4
<1>6. ASSUME NEW n \in Nat, n \in S
      PROVE  n + 1 \in S
  <2> SUFFICES ASSUME n + 1 \in 0..L
               PROVE  total[n + 1] = g[n + 1]
    OBVIOUS
  <2>1. n \in 0..L /\ n + 1 # 0 /\ n + 1 - 1 = n /\ n + 1 \in 1..L
    OBVIOUS
  <2> QED
    BY <1>4, <1>6, <2>1
<1>7. L \in S
  <2> HIDE DEF S
  <2> QED
    BY <1>5, <1>6, SetInduction
<1> QED
  BY <1>3, <1>7

\* The sums of the first events.
LEMMA PrefixSums ==
  ASSUME NEW E, NEW n \in Nat, \A i \in 1..n : E[i].value \in Int
  PROVE  \E s \in [0..n -> Int] : s[0] = 0 /\ \A k \in 1..n : s[k] = s[k - 1] + E[k].value
<1> DEFINE Sums(m, s) ==
             s \in [0..m -> Int] /\ s[0] = 0 /\ \A k \in 1..m : s[k] = s[k - 1] + E[k].value
           S == {m \in Nat : m \in 0..n => \E s : Sums(m, s)}
<1>1. 0 \in S
  <2>1. Sums(0, [k \in 0..0 |-> 0])
    OBVIOUS
  <2> QED
    BY <2>1
<1>2. ASSUME NEW m \in Nat, m \in S
      PROVE  m + 1 \in S
  <2> HIDE DEF Sums
  <2> SUFFICES ASSUME m + 1 \in 0..n
               PROVE  \E s : Sums(m + 1, s)
    OBVIOUS
  <2>0. m \in 0..n
    BY ONLY m \in Nat, n \in Nat, m + 1 \in 0..n
  <2>1. PICK s : Sums(m, s)
    BY <1>2, <2>0
  <2> USE DEF Sums
  <2> DEFINE r == [k \in 0..(m + 1) |-> IF k = m + 1 THEN s[m] + E[m + 1].value ELSE s[k]]
  <2>2. s[m] \in Int /\ E[m + 1].value \in Int
    BY <2>1
  <2>3. r \in [0..(m + 1) -> Int]
    <3>1. \A k \in 0..(m + 1) : r[k] \in Int
      BY <2>1, <2>2
    <3> QED
      BY <3>1
  <2>4. r[0] = 0
    BY <2>1
  <2>5. ASSUME NEW k \in 1..(m + 1)
        PROVE  r[k] = r[k - 1] + E[k].value
    <3>1. CASE k = m + 1
      BY <3>1
    <3>2. CASE k # m + 1
      <4>1. k \in 1..m /\ k - 1 \in 0..m /\ k \in 0..m /\ k - 1 # m + 1
        BY <3>2
      <4> QED
        BY <2>1, <3>2, <4>1
    <3> QED
      BY <3>1, <3>2
  <2> QED
    BY <2>3, <2>4, <2>5
<1>3. n \in S
  <2> HIDE DEF S
  <2> QED
    BY <1>1, <1>2, SetInduction
<1> QED
  BY <1>3

-----------------------------------------------------------------------------
(* The window of a cumulative sum slides. *)

\* The first f entries, before the window, leave; the event comes.
Slide(ctx, q, e, f, old, new) ==
  /\ CumulativeSum(ctx, e) =
       [sum |-> Started(ctx).sum - SumOf(old) + e.value, entries |-> new]
  /\ \A k \in 1..Len(q) : k > f <=> q[k].timestamp >= e.timestamp - Period
  /\ Len(old) = f /\ \A k \in 1..f : old[k] = q[k]
  /\ Len(new) = Len(q) - f + 1 /\ new[Len(q) - f + 1] = e
  /\ \A k \in 1..(Len(q) - f) : new[k] = q[f + k]

LEMMA Slides ==
  ASSUME NEW S, \A x \in S : x.timestamp \in Int, NEW ctx, NEW q \in Seq(S), NEW e \in S,
         Started(ctx).entries = q,
         \A j, k \in 1..Len(q) : j <= k => q[j].timestamp <= q[k].timestamp
  PROVE  \E f \in 0..Len(q), old \in Seq(S), new \in Seq(S) : Slide(ctx, q, e, f, old, new)
<1> DEFINE L == Len(q)
           T(k) == q[k].timestamp >= e.timestamp - Period
           I == {k \in 1..L : T(k)}
           from == IF I # {} THEN Min(I) ELSE 0
           kept == IF from = 0 THEN <<>> ELSE SubSeq(q, from, L)
           old == IF from = 0 THEN q ELSE SubSeq(q, 1, from - 1)
           f == IF from = 0 THEN L ELSE from - 1
<1>0. L \in Nat
  OBVIOUS
<1>1. CumulativeSum(ctx, e) =
        [sum |-> Started(ctx).sum - SumOf(old) + e.value, entries |-> Append(kept, e)]
  BY DEF CumulativeSum, SelectInSeq
<1>2. \A k \in 1..L : q[k] \in S /\ q[k].timestamp \in Int
  OBVIOUS
<1>3. e.timestamp \in Int /\ Period \in Int
  <2>1. e.timestamp \in Int
    OBVIOUS
  <2> QED
    BY <2>1, PeriodAssumption
<1>4. I = {} \/ (from \in I /\ \A k \in I : from <= k)
  <2>1. I \subseteq Nat
    OBVIOUS
  <2> HIDE DEF I
  <2> QED
    BY <2>1, MinSound
<1>5. /\ from \in 0..L /\ (from = 0 => \A k \in 1..L : ~T(k))
      /\ from # 0 => T(from) /\ \A k \in 1..L : T(k) => from <= k
  <2> HIDE DEF T
  <2>1. CASE I = {}
    BY <1>0, <2>1
  <2>2. CASE I # {}
    <3>1. from \in I /\ (\A k \in I : from <= k)
      BY <1>4, <2>2
    <3> HIDE DEF from
    <3> QED
      BY <3>1
  <2> QED
    BY <2>1, <2>2
<1> HIDE DEF from, T, I
<1>6. \A j, k \in 1..L : j <= k /\ T(j) => T(k)
  BY <1>2, <1>3 DEF T
<1>7. f \in 0..L /\ \A k \in 1..L : k > f <=> T(k)
  BY <1>0, <1>5, <1>6
<1>8. old \in Seq(S) /\ Len(old) = f /\ \A k \in 1..f : old[k] = q[k]
  <2>1. CASE from = 0
    BY <2>1
  <2>2. CASE from # 0
    <3>1. old = SubSeq(q, 1, f) /\ 1 \in 1..(L + 1) /\ f \in 0..L
      BY <1>0, <1>5, <2>2
    <3> HIDE DEF f, old
    <3> QED
      BY <3>1, SubSeqProperties
  <2> QED
    BY <2>1, <2>2
<1>9. kept \in Seq(S) /\ Len(kept) = L - f /\ \A k \in 1..(L - f) : kept[k] = q[f + k]
  <2>1. CASE from = 0
    BY <1>0, <2>1
  <2>2. CASE from # 0
    <3>1. kept = SubSeq(q, f + 1, L) /\ f + 1 \in 1..(L + 1) /\ f \in 0..L
      BY <1>0, <1>5, <2>2
    <3> HIDE DEF f, kept
    <3> QED
      BY <3>1, SubSeqProperties
  <2> QED
    BY <2>1, <2>2
<1> HIDE DEF kept, old, f
<1>10. /\ Append(kept, e) \in Seq(S) /\ Len(Append(kept, e)) = L - f + 1
       /\ Append(kept, e)[L - f + 1] = e
       /\ \A k \in 1..(L - f) : Append(kept, e)[k] = q[f + k]
  BY <1>0, <1>7, <1>9
<1> QED
  BY <1>1, <1>7, <1>8, <1>10 DEF T, Slide

\* Context i keeps the events from a on, which are those of its window.
Keeps(S, E, s, C, i, a) ==
  /\ C[i] = [sum |-> s[i] - s[a - 1], entries |-> C[i].entries]
  /\ C[i].entries \in Seq(S) /\ Len(C[i].entries) = i - a + 1
  /\ \A k \in 1..(i - a + 1) : C[i].entries[k] = E[a - 1 + k]
  /\ \A j, k \in 1..i : j <= k => E[j].timestamp <= E[k].timestamp
  /\ \A j \in 1..i : j >= a <=> E[j].timestamp >= E[i].timestamp - Period

\* s has the sums of the first events.
Adds(E, s, n) == \A k \in 1..n : s[k] = s[k - 1] + E[k].value

LEMMA KeepsFirst ==
  ASSUME NEW S, NEW E, E[1] \in S, \A x \in S : x.timestamp \in Int /\ x.value \in Int,
         NEW s, s[0] = 0, s[1] = s[0] + E[1].value,
         NEW C, C[1] = CumulativeSum(Empty, E[1])
  PROVE  Keeps(S, E, s, C, 1, 1)
<1> DEFINE e == E[1]
<1>1. Started(Empty) = NoSum /\ NoSum.sum = 0 /\ NoSum.entries = <<>>
  BY DEF Started, Empty, NoSum
<1>2. <<>> \in Seq(S) /\ Len(<<>>) = 0
  OBVIOUS
<1>3. e.timestamp \in Int /\ e.value \in Int /\ Period \in Nat
  BY PeriodAssumption
<1>4. PICK f \in 0..Len(<<>>), old \in Seq(S), new \in Seq(S) : Slide(Empty, <<>>, e, f, old, new)
  <2>1. \A j, k \in 1..Len(<<>>) : j <= k => <<>>[j].timestamp <= <<>>[k].timestamp
    BY <1>2
  <2> QED
    BY <1>1, <1>2, <2>1, Slides
<1>5. SumOf(old) = 0
  <2> DEFINE g == [k \in {0} |-> 0]
  <2>1. Len(old) = 0 /\ g[0] = 0
    BY <1>2, <1>4 DEF Slide
  <2> QED
    BY <2>1, SumIs
<1>6. C[1] = [sum |-> s[1] - s[0], entries |-> new] /\ new[1] = e /\ Len(new) = 1
  <2>1. 0 - 0 + e.value = s[1] - s[0]
    BY <1>3
  <2> QED
    BY <1>1, <1>2, <1>4, <1>5, <2>1 DEF Slide
<1>7. e.timestamp >= e.timestamp - Period /\ e.timestamp <= e.timestamp
  BY <1>3
<1> QED
  BY <1>6, <1>7 DEF Keeps

LEMMA KeepsNext ==
  ASSUME NEW S, NEW E, NEW s, NEW C, NEW i \in Nat \ {0}, NEW a \in 1..i, Keeps(S, E, s, C, i, a),
         \A x \in S : x.timestamp \in Int /\ x.value \in Int, \A j \in 1..(i + 1) : E[j] \in S,
         \A j \in 0..(i + 1) : s[j] \in Int,
         Adds(E, s, i + 1),
         C[i].sum # 0, ~Messy(C[i], E[i + 1]), C[i + 1] = CumulativeSum(C[i], E[i + 1])
  PROVE  \E b \in 1..(i + 1) : Keeps(S, E, s, C, i + 1, b)
<1> DEFINE e == E[i + 1]
           q == C[i].entries
           L == i - a + 1
<1>1. /\ C[i] = [sum |-> s[i] - s[a - 1], entries |-> q]
      /\ q \in Seq(S) /\ Len(q) = L /\ L \in Nat
      /\ \A k \in 1..L : q[k] = E[a - 1 + k] /\ a - 1 + k \in 1..i
  BY DEF Keeps
<1>2. \A j \in 1..(i + 1) : E[j].timestamp \in Int /\ E[j].value \in Int
  OBVIOUS
<1>3. Period \in Nat
  BY PeriodAssumption
<1>4. Started(C[i]) = C[i]
  BY <1>1 DEF Started
<1>5. E[i].timestamp <= e.timestamp
  <2>1. q # <<>> /\ Last(q) = E[i]
    BY <1>1 DEF Last
  <2>2. ~(E[i].timestamp > e.timestamp)
    BY <1>4, <2>1 DEF Messy
  <2>3. i \in 1..(i + 1) /\ i + 1 \in 1..(i + 1)
    OBVIOUS
  <2> QED
    BY <1>2, <2>2, <2>3
<1>6. \A j, k \in 1..i : j <= k => E[j].timestamp <= E[k].timestamp
  BY DEF Keeps
<1>7. \A j, k \in 1..(i + 1) : j <= k => E[j].timestamp <= E[k].timestamp
  <2> SUFFICES ASSUME NEW j \in 1..(i + 1), NEW k \in 1..(i + 1), j <= k
               PROVE  E[j].timestamp <= E[k].timestamp
    OBVIOUS
  <2>1. E[j].timestamp \in Int /\ E[k].timestamp \in Int /\ E[i].timestamp \in Int
    BY <1>2
  <2>2. CASE k \in 1..i
    BY <1>6, <2>2
  <2>3. CASE k = i + 1 /\ j \in 1..i
    <3>1. E[j].timestamp <= E[i].timestamp
      BY <1>6, <2>3
    <3> QED
      BY <1>5, <2>1, <2>3, <3>1
  <2>4. CASE k = i + 1 /\ j = i + 1
    BY <2>1, <2>4
  <2> QED
    BY <2>2, <2>3, <2>4
<1>8. PICK f \in 0..L, old \in Seq(S), new \in Seq(S) :
        /\ C[i + 1] = [sum |-> s[i] - s[a - 1] - SumOf(old) + e.value, entries |-> new]
        /\ \A k \in 1..L : k > f <=> q[k].timestamp >= e.timestamp - Period
        /\ Len(old) = f /\ \A k \in 1..f : old[k] = q[k]
        /\ Len(new) = L - f + 1 /\ new[L - f + 1] = e
        /\ \A k \in 1..(L - f) : new[k] = q[f + k]
  <2>1. \A x \in S : x.timestamp \in Int
    OBVIOUS
  <2>2. \A j, k \in 1..Len(q) : j <= k => q[j].timestamp <= q[k].timestamp
    <3> SUFFICES ASSUME NEW j \in 1..L, NEW k \in 1..L, j <= k
                 PROVE  q[j].timestamp <= q[k].timestamp
      BY <1>1
    <3>1. a - 1 + j \in 1..i /\ a - 1 + k \in 1..i /\ a - 1 + j <= a - 1 + k
      BY <1>1
    <3> QED
      BY <1>1, <1>6, <3>1
  <2>3. Started(C[i]).entries = q /\ Started(C[i]).sum = s[i] - s[a - 1] /\ e \in S /\ Len(q) = L
    BY <1>1, <1>4
  <2>4. C[i + 1] = CumulativeSum(C[i], e) /\ q \in Seq(S)
    BY <1>1
  <2> HIDE DEF q, e, L
  <2>5. \E f \in 0..Len(q), old \in Seq(S), new \in Seq(S) : Slide(C[i], q, e, f, old, new)
    BY <2>1, <2>2, <2>3, <2>4, Slides
  <2>6. PICK f \in 0..Len(q), old \in Seq(S), new \in Seq(S) : Slide(C[i], q, e, f, old, new)
    BY <2>5
  <2>7. /\ f \in 0..L
        /\ C[i + 1] = [sum |-> s[i] - s[a - 1] - SumOf(old) + e.value, entries |-> new]
        /\ \A k \in 1..L : k > f <=> q[k].timestamp >= e.timestamp - Period
        /\ Len(old) = f /\ \A k \in 1..f : old[k] = q[k]
        /\ Len(new) = L - f + 1 /\ new[L - f + 1] = e
        /\ \A k \in 1..(L - f) : new[k] = q[f + k]
    BY <2>3, <2>4, <2>6 DEF Slide
  <2> QED
    BY <2>7
<1> DEFINE b == a + f
<1>a. f \in Int /\ 0 <= f /\ f <= i - a + 1 /\ a \in Int /\ i \in Int /\ 1 <= a /\ a <= i
  BY ONLY <1>8, i \in Nat \ {0}, a \in 1..i DEF L
<1>9. /\ b \in 1..(i + 1) /\ b - 1 \in 0..(i + 1) /\ a - 1 \in 0..(i + 1) /\ i \in 0..(i + 1)
      /\ f \in Nat /\ (i + 1) - b + 1 = L - f + 1 /\ L \in Nat
  BY ONLY <1>a DEF b, L
<1>10. SumOf(old) = s[b - 1] - s[a - 1]
  <2> DEFINE g == [k \in 0..f |-> s[a - 1 + k] - s[a - 1]]
  <2>1. \A k \in 0..f : a - 1 + k \in 0..(i + 1) /\ s[a - 1 + k] \in Int
    <3>1. \A k \in 0..f : a - 1 + k \in 0..(i + 1)
      BY ONLY <1>a
    <3> QED
      BY <3>1
  <2>2. g[0] = 0
    <3>1. 0 \in 0..f /\ a - 1 + 0 = a - 1 /\ s[a - 1] \in Int
      BY <1>9
    <3> QED
      BY <3>1
  <2>3. ASSUME NEW k \in 1..f
        PROVE  g[k] = g[k - 1] + old[k].value
    <3>1. /\ k \in 0..f /\ k - 1 \in 0..f /\ k \in 1..L /\ a - 1 + k \in 1..(i + 1)
          /\ a - 1 + (k - 1) = a - 1 + k - 1
      BY ONLY <1>a, k \in 1..f DEF L
    <3>2. old[k] = E[a - 1 + k]
      BY <1>1, <1>8, <3>1
    <3>3. s[a - 1 + k] = s[a - 1 + k - 1] + E[a - 1 + k].value
      <4> DEFINE p == a - 1 + k
      <4>1. p \in 1..(i + 1)
        BY ONLY <3>1
      <4> HIDE DEF p
      <4>2. s[p] = s[p - 1] + E[p].value
        BY ONLY <4>1, Adds(E, s, i + 1) DEF Adds
      <4> QED
        BY ONLY <4>2 DEF p
    <3>4. s[a - 1 + k - 1] \in Int /\ s[a - 1] \in Int /\ E[a - 1 + k].value \in Int
      BY <1>2, <1>9, <2>1, <3>1
    <3>5. g[k] = s[a - 1 + k] - s[a - 1] /\ g[k - 1] = s[a - 1 + k - 1] - s[a - 1]
      BY ONLY <3>1
    <3> DEFINE t == s[a - 1 + k - 1]
    <3>6. t \in Int /\ s[a - 1] \in Int /\ old[k].value \in Int
          /\ g[k] = t + old[k].value - s[a - 1] /\ g[k - 1] = t - s[a - 1]
      <4> HIDE DEF g
      <4> QED
        BY ONLY <3>2, <3>3, <3>4, <3>5
    <3> HIDE DEF g, t
    <3> QED
      BY ONLY <3>6
  <2>4. Len(old) = f /\ Len(old) \in Nat /\ g[f] = s[b - 1] - s[a - 1]
    <3>1. a - 1 + f = b - 1 /\ f \in 0..f
      BY ONLY <1>a DEF b
    <3>2. g[f] = s[a - 1 + f] - s[a - 1]
      BY ONLY <3>1
    <3> HIDE DEF g, b
    <3>3. g[f] = s[b - 1] - s[a - 1]
      BY ONLY <3>1, <3>2
    <3> QED
      BY ONLY <1>8, <1>9, <3>3
  <2> HIDE DEF g
  <2>5. \A k \in 1..Len(old) : g[k] = g[k - 1] + old[k].value
    BY <2>3, <2>4
  <2> QED
    BY <2>2, <2>4, <2>5, SumIs
<1>11. C[i + 1] = [sum |-> s[i + 1] - s[b - 1], entries |-> new]
  <2>1. s[i + 1] = s[i] + e.value
    <3>1. i + 1 \in 1..(i + 1) /\ i + 1 - 1 = i
      OBVIOUS
    <3> QED
      BY <3>1 DEF Adds
  <2>2. s[i] \in Int /\ s[a - 1] \in Int /\ s[b - 1] \in Int /\ e.value \in Int
    <3> HIDE DEF b, L
    <3>1. e.value \in Int
      BY <1>2
    <3> QED
      BY <1>9, <3>1
  <2>3. s[i] - s[a - 1] - (s[b - 1] - s[a - 1]) + e.value = s[i + 1] - s[b - 1]
    <3> HIDE DEF b, e
    <3> QED
      BY ONLY <2>1, <2>2
  <2> QED
    BY <1>8, <1>10, <2>3
<1>12. \A k \in 1..((i + 1) - b + 1) : new[k] = E[b - 1 + k]
  <2> SUFFICES ASSUME NEW k \in 1..(L - f + 1)
               PROVE  new[k] = E[b - 1 + k]
    BY <1>9
  <2>1. CASE k = L - f + 1
    <3>1. b - 1 + k = i + 1
      BY ONLY <1>a, <2>1 DEF b, L
    <3> QED
      BY <1>8, <2>1, <3>1
  <2>2. CASE k # L - f + 1
    <3>1. k \in 1..(L - f) /\ f + k \in 1..L /\ a - 1 + (f + k) = b - 1 + k
      BY ONLY <1>a, <2>2, k \in 1..(L - f + 1) DEF b, L
    <3> QED
      BY <1>1, <1>8, <3>1
  <2> QED
    BY <2>1, <2>2
<1>13. ASSUME NEW j \in 1..(i + 1)
       PROVE  j >= b <=> E[j].timestamp >= e.timestamp - Period
  <2>0. E[j].timestamp \in Int /\ e.timestamp \in Int /\ E[i].timestamp \in Int
    <3>1. i \in 1..(i + 1) /\ i + 1 \in 1..(i + 1)
      OBVIOUS
    <3> QED
      BY <1>2, <3>1
  <2>1. CASE j = i + 1
    <3>1. j >= b
      BY ONLY <1>a, <2>1 DEF b
    <3>2. e.timestamp >= e.timestamp - Period
      <4> HIDE DEF e
      <4> QED
        BY ONLY <1>3, <2>0
    <3> QED
      BY <2>1, <3>1, <3>2
  <2>2. CASE j \in 1..i /\ j >= a
    <3>1. j - a + 1 \in 1..L /\ a - 1 + (j - a + 1) = j /\ (j - a + 1 > f <=> j >= b)
      BY ONLY <1>a, <2>2 DEF b, L
    <3>2. q[j - a + 1] = E[j]
      BY <1>1, <3>1
    <3> QED
      BY <1>8, <3>1, <3>2
  <2>3. CASE j \in 1..i /\ ~(j >= a)
    <3>1. ~(E[j].timestamp >= E[i].timestamp - Period)
      BY <2>3 DEF Keeps
    <3>2. ~(E[j].timestamp >= e.timestamp - Period)
      <4> HIDE DEF e
      <4> QED
        BY ONLY <1>3, <1>5, <2>0, <3>1
    <3>3. ~(j >= b)
      BY ONLY <1>a, <2>3 DEF b
    <3> QED
      BY <3>2, <3>3
  <2>4. j = i + 1 \/ (j \in 1..i /\ j >= a) \/ (j \in 1..i /\ ~(j >= a))
    BY ONLY <1>a, j \in 1..(i + 1)
  <2> HIDE DEF b, e
  <2> QED
    BY ONLY <2>1, <2>2, <2>3, <2>4
<1> HIDE DEF b, L
<1>14. Keeps(S, E, s, C, i + 1, b)
  <2>1. C[i + 1].entries = new /\ Len(new) = (i + 1) - b + 1
    BY <1>8, <1>9, <1>11
  <2> QED
    BY <1>7, <1>11, <1>12, <1>13, <2>1 DEF Keeps
<1> QED
  BY <1>9, <1>14

-----------------------------------------------------------------------------
(* The sum of the window.  Only cumulative sums save in their context, and *)
(* only events that are not older than the last one.                       *)

SumsInv ==
  /\ task \in Workloads
  /\ \A c \in Call : locking[c] # "none" => task[c].node # "none"
  /\ \A i \in DOMAIN saves :
       /\ saves[i].call \in Call /\ task[saves[i].call].node \notin {"none", "get context"}
       /\ ~Refused(task[saves[i].call], ContextAfter(i - 1))

LEMMA SumsInvInit == NodesInit => SumsInv
  BY DEF NodesInit, CtxInit, SumsInv

LEMMA AskedForNodes ==
  ASSUME NodesInv, SumsInv, [NodesNext]_vars, NEW d \in Call, locking'[d] # "none"
  PROVE  task'[d].node # "none"
<1>1. task' = task
  BY NodesStepIsAnyStep
<1>2. CASE locking[d] # "none"
  BY <1>1, <1>2 DEF SumsInv
<1>3. CASE locking[d] = "none"
  <2>1. PhaseOK(d) /\ TypeOK
    BY DEF NodesInv, MapInv
  <2>2. entry[d] = "none"
    BY <1>3, <2>1 DEF PhaseOK
  <2>3. ASSUME NEW c \in Call, HandleMessage(c)
        PROVE  task'[d].node # "none"
    BY <1>1, <1>3, <2>1, <2>3 DEF HandleMessage, LockAndGetContext, TypeOK, ctxVars, clientVars
  <2>4. ASSUME NEW c \in Call, Located(c) \/ Finish(c)
        PROVE  locking' = locking
    BY <2>4 DEF Located, Finish, UnlockContext, ctxVars, clientVars
  <2>5. ASSUME NEW c \in Call, OnMessage(c) \/ TimeoutRequest(c)
        PROVE  locking'[d] = locking[d]
    <3>1. CASE c = d
      BY <2>1, <2>2, <2>5, <3>1 DEF OnMessage, TimeoutRequest, Reject, Settle, TypeOK, clientVars
    <3>2. CASE c # d
      BY <2>1, <2>5, <3>2 DEF OnMessage, TimeoutRequest, Reject, Settle, TypeOK, clientVars
    <3> QED
      BY <3>1, <3>2
  <2>6. ASSUME ServerNext
        PROVE  locking' = locking
    <3>1. UNCHANGED clientVars
      BY <2>6 DEF ServerNext, Grant, Refuse, RecvUnlock, HoldTimeout, Unlocked, ServerCrash
    <3> QED
      BY <3>1 DEF clientVars
  <2>7. CASE UNCHANGED vars
    BY <1>3, <2>7 DEF vars, ctxVars, clientVars
  <2> QED
    BY <1>3, <2>3, <2>4, <2>5, <2>6, <2>7 DEF NodesNext, Serve, ClientNext
<1> QED
  BY <1>2, <1>3

LEMMA SumsInvStep ==
  ASSUME NodesInv, SumsInv, [NodesNext]_vars
  PROVE  SumsInv'
<1>1. AnyStep /\ UNCHANGED task
  BY NodesStepIsAnyStep
<1>2. task' \in Workloads /\ \A c \in Call : locking'[c] # "none" => task'[c].node # "none"
  BY <1>1, AskedForNodes DEF SumsInv
<1>3. CASE UNCHANGED saves
  BY <1>1, <1>2, <1>3 DEF SumsInv, ContextAfter, Refused
<1>4. ASSUME NEW c \in Call,
             lock[c] = "held", request[c].command = "save_and_unlock",
             saves' = Append(saves, [call |-> c, context |-> request[c].content])
      PROVE  SumsInv'
  <2> DEFINE n == Len(saves)
             x == [call |-> c, context |-> request[c].content]
  <2>1. /\ DOMAIN saves' = 1..n + 1 /\ DOMAIN saves = 1..n
        /\ \A i \in 1..n : saves'[i] = saves[i]
        /\ saves'[n + 1] = x /\ n \in Nat
    BY <1>4, Appended DEF NodesInv, SavesInv
  <2>2. x.call = c
    OBVIOUS
  <2>3. \A i \in 0..n : ContextAfter(i)' = ContextAfter(i)
    BY <2>1 DEF ContextAfter
  <2> HIDE DEF n, x
  <2>4. NodeOK(c) /\ PhaseOK(c) /\ WireOK(c)
    BY DEF NodesInv, MapInv
  <2>5. locking[c] = "resolved" /\ mode[c] = WLOCK
    <3>1. request[c].command \in UnlockCommands
      BY <1>4
    <3> QED
      BY <1>4, <2>4, <3>1 DEF WireOK
  <2>6. task[c].node \notin {"none", "get context"}
    <3>1. mode[c] = LockMode(task[c].node) /\ task[c].node # "none"
      BY <2>4, <2>5 DEF NodeOK, SumsInv
    <3> QED
      BY <2>5, <3>1 DEF LockMode
  <2>7. ~Refused(task[c], ContextAfter(n))
    <3>1. got[c] = content /\ content = ContextAfter(n)
      BY <1>4, <2>5 DEF NodesInv, MapInv, WireOK, HolderSeesContent, ContextIsFold, n
    <3> QED
      BY <1>4, <2>4, <3>1 DEF NodeOK
  <2>8. ASSUME NEW i \in DOMAIN saves'
        PROVE  /\ saves'[i].call \in Call
               /\ task[saves'[i].call].node \notin {"none", "get context"}
               /\ ~Refused(task[saves'[i].call], ContextAfter(i - 1)')
    <3>1. CASE i \in 1..n
      <4>1. i - 1 \in 0..n /\ saves'[i] = saves[i]
        BY <2>1, <3>1
      <4> QED
        BY <2>1, <2>3, <3>1, <4>1 DEF SumsInv
    <3>2. CASE i = n + 1
      <4>1. ContextAfter(i - 1)' = ContextAfter(n) /\ saves'[i].call = c
        BY <2>1, <2>2, <2>3, <3>2
      <4> QED
        BY <2>6, <2>7, <4>1
    <3>3. i \in 1..n \/ i = n + 1
      BY ONLY <2>1, i \in DOMAIN saves'
    <3> QED
      BY ONLY <3>1, <3>2, <3>3
  <2> QED
    BY <1>1, <1>2, <2>8 DEF SumsInv, Refused
<1> QED
  BY <1>1, <1>3, <1>4, StepSaves DEF NodesInv

LEMMA WindowsMean ==
  ASSUME NodesInv, SumsInv
  PROVE  WindowSum
<1> SUFFICES ASSUME saves # <<>>, task[Last(saves).call].node = "cumulative sum", NoSumForgotten
             PROVE  content.sum = SumOf([i \in DOMAIN saves |-> InWindow(SavedEvents[i])])
  BY DEF WindowSum
<1> DEFINE n == Len(saves)
           E == SavedEvents
           C == [i \in 0..n |-> ContextAfter(i)]
           S == {E[i] : i \in 1..n}
           W == [i \in DOMAIN saves |-> InWindow(E[i])]
<1>0. n \in Int /\ 1 <= n /\ saves \in Seq({saves[i] : i \in DOMAIN saves})
  <2>1. saves \in Seq({saves[i] : i \in DOMAIN saves}) /\ saves # <<>>
    BY DEF NodesInv, SavesInv, IsSequence
  <2> QED
    BY ONLY <2>1
<1>1. DOMAIN saves = 1..n /\ Last(saves) = saves[n]
  BY ONLY <1>0 DEF Last
<1>2. \A i \in 1..n : E[i] = task[saves[i].call].event /\ E[i] \in S
  BY <1>1 DEF SavedEvents
<1>3. DOMAIN E = 1..n /\ Last(E) = E[n]
  <2>1. DOMAIN E = 1..n
    BY <1>1 DEF SavedEvents
  <2>2. E \in Seq(S)
    <3>1. E \in [1..n -> S]
      BY <1>1, <1>2, <2>1 DEF SavedEvents
    <3> HIDE DEF E, S, n
    <3> QED
      BY ONLY <1>0, <3>1
  <2>3. Len(E) = n
    <3> HIDE DEF E, S, n
    <3> QED
      BY ONLY <1>0, <2>1, <2>2
  <2> QED
    BY <2>1, <2>3 DEF Last
<1> HIDE DEF E, n
<1>4. ASSUME NEW i \in 1..n
      PROVE  /\ task[saves[i].call].node = "cumulative sum"
             /\ E[i].timestamp \in Int /\ E[i].value \in Int
  <2>1. n \in DOMAIN saves /\ i \in DOMAIN saves
    BY ONLY <1>0, <1>1, i \in 1..n
  <2>2. task \in Workloads /\ saves[n].call \in Call /\ task[saves[n].call].node = "cumulative sum"
    BY <1>1, <2>1 DEF SumsInv
  <2>3. saves[i].call \in Call /\ task[saves[i].call].node \notin {"none", "get context"}
    BY <2>1 DEF SumsInv
  <2>4. task[saves[i].call].node = "cumulative sum"
    BY <2>2, <2>3, SumsAssumption
  <2> QED
    BY <1>2, <2>2, <2>3, <2>4, SumsAssumption
<1>5. \A x \in S : x.timestamp \in Int /\ x.value \in Int
  BY <1>4
<1>6. \A i \in 0..n : C[i] = ContextAfter(i)
  OBVIOUS
<1>7. C[0] = Empty /\ C[n] = content
  <2>1. 0 \in 0..n /\ n \in 0..n
    BY ONLY <1>0
  <2> HIDE DEF C
  <2> QED
    BY <1>6, <2>1 DEF ContextAfter, NodesInv, ContextIsFold, n
<1> HIDE DEF C
<1>8. ASSUME NEW i \in 1..n
      PROVE  C[i] = CumulativeSum(C[i - 1], E[i]) /\ ~Messy(C[i - 1], E[i])
  <2>1. i \in DOMAIN saves /\ i - 1 \in 0..n /\ i \in 0..n /\ i # 0
    BY ONLY <1>0, <1>1, i \in 1..n
  <2>2. C[i] = saves[i].context /\ C[i - 1] = ContextAfter(i - 1)
    BY <1>6, <2>1 DEF ContextAfter
  <2>3. saves[i].context = Compute(task[saves[i].call], C[i - 1])
    BY <2>1, <2>2 DEF NodesInv, ContextIsFold
  <2>4. ~Refused(task[saves[i].call], C[i - 1])
    BY <2>1, <2>2 DEF SumsInv
  <2> QED
    BY <1>2, <1>4, <2>2, <2>3, <2>4 DEF Compute, Refused
<1>9. \A i \in 1..(n - 1) : C[i].sum # 0
  <2> SUFFICES ASSUME NEW i \in 1..(n - 1)
               PROVE  C[i].sum # 0
    OBVIOUS
  <2>1. i \in 0..n /\ i # 0
    BY ONLY <1>0, i \in 1..(n - 1)
  <2>2. C[i] = saves[i].context
    BY <1>6, <2>1 DEF ContextAfter
  <2>3. saves[i].context.sum # 0
    BY DEF NoSumForgotten, n
  <2> QED
    BY ONLY <2>2, <2>3
<1>10. PICK s \in [0..n -> Int] : s[0] = 0 /\ \A k \in 1..n : s[k] = s[k - 1] + E[k].value
  <2>1. n \in Nat /\ \A k \in 1..n : E[k].value \in Int
    <3>1. n \in Nat
      BY ONLY <1>0
    <3> QED
      BY <1>4, <3>1
  <2> QED
    BY ONLY <2>1, PrefixSums
<1>11. Adds(E, s, n) /\ \A k \in 0..n : s[k] \in Int
  BY <1>10 DEF Adds
<1>12. \E a \in 1..n : Keeps(S, E, s, C, n, a)
  <2> DEFINE T == {i \in Nat : i + 1 \in 1..n => \E a \in 1..(i + 1) : Keeps(S, E, s, C, i + 1, a)}
  <2>1. 0 \in T
    <3>1. 1 \in 1..n /\ 1 - 1 = 0
      BY ONLY <1>0
    <3>2. C[1] = CumulativeSum(Empty, E[1]) /\ E[1] \in S /\ s[1] = s[0] + E[1].value /\ s[0] = 0
      BY <1>2, <1>7, <1>8, <1>10, <3>1
    <3> HIDE DEF S
    <3>3. Keeps(S, E, s, C, 1, 1)
      BY ONLY <1>5, <3>2, KeepsFirst
    <3>4. 0 \in Nat /\ 0 + 1 = 1 /\ 1 \in 1..1
      BY ONLY <3>1
    <3> QED
      BY ONLY <3>3, <3>4 DEF T
  <2>2. ASSUME NEW j \in Nat, j \in T
        PROVE  j + 1 \in T
    <3> DEFINE i == j + 1
    <3> HIDE DEF S
    <3>0. i \in Nat /\ i \in Nat \ {0}
      BY ONLY j \in Nat
    <3> SUFFICES ASSUME i + 1 \in 1..n
                 PROVE  \E a \in 1..(i + 1) : Keeps(S, E, s, C, i + 1, a)
      BY <3>0
    <3>1. /\ i \in Nat \ {0} /\ i \in 1..n /\ i \in 1..(n - 1) /\ i + 1 - 1 = i
          /\ i + 1 \in 1..n
      <4> HIDE DEF i
      <4> QED
        BY ONLY <1>0, <3>0, i + 1 \in 1..n
    <3>2. PICK a \in 1..i : Keeps(S, E, s, C, i, a)
      BY <2>2, <3>1
    <3> HIDE DEF i
    <3>3. C[i].sum # 0
      BY ONLY <1>9, <3>1
    <3>4. ~Messy(C[i], E[i + 1]) /\ C[i + 1] = CumulativeSum(C[i], E[i + 1])
      BY ONLY <1>8, <3>1
    <3>5. \A k \in 1..(i + 1) : E[k] \in S
      BY ONLY <1>0, <1>2, <3>1
    <3>6. \A k \in 0..(i + 1) : s[k] \in Int
      BY ONLY <1>0, <1>11, <3>1
    <3>7. Adds(E, s, i + 1)
      <4>1. \A k \in 1..(i + 1) : k \in 1..n
        BY ONLY <1>0, <3>1
      <4> QED
        BY ONLY <1>11, <4>1 DEF Adds
    <3> HIDE DEF T
    <3> QED
      BY ONLY <1>5, <3>1, <3>2, <3>3, <3>4, <3>5, <3>6, <3>7, KeepsNext
  <2>3. n - 1 \in T
    <3>1. n - 1 \in Nat
      BY ONLY <1>0
    <3> HIDE DEF T
    <3>2. \A j \in Nat : j \in T => j + 1 \in T
      BY ONLY <2>2
    <3> QED
      BY ONLY <2>1, <3>1, <3>2, SetInduction
  <2>4. n - 1 + 1 = n /\ n \in 1..n
    BY ONLY <1>0
  <2> QED
    BY <2>3, <2>4
<1>13. PICK a \in 1..n : Keeps(S, E, s, C, n, a)
  BY <1>12
<1>14. content.sum = s[n] - s[a - 1]
  <2> HIDE DEF S
  <2>1. content = [sum |-> s[n] - s[a - 1], entries |-> C[n].entries]
    BY ONLY <1>7, <1>13 DEF Keeps
  <2> QED
    BY ONLY <2>1
<1>15. \A k \in 1..n : W[k].value = IF k >= a THEN E[k].value ELSE 0
  <2> SUFFICES ASSUME NEW k \in 1..n
               PROVE  InWindow(E[k]).value = IF k >= a THEN E[k].value ELSE 0
    BY <1>1
  <2>1. k >= a <=> E[k].timestamp >= E[n].timestamp - Period
    BY <1>13 DEF Keeps
  <2> QED
    BY <1>3, <2>1 DEF InWindow, E
<1>16. Len(W) = n
  <2> DEFINE V == {W[i] : i \in 1..n}
  <2>1. W \in [1..n -> V]
    BY <1>1
  <2> HIDE DEF V, W
  <2>2. W \in Seq(V) /\ DOMAIN W = 1..n
    BY ONLY <1>0, <2>1
  <2> QED
    BY ONLY <1>0, <2>2
<1>17. SumOf(W) = s[n] - s[a - 1]
  <2> DEFINE g == [k \in 0..n |-> IF k >= a THEN s[k] - s[a - 1] ELSE 0]
  <2>1. a \in Int /\ 1 <= a /\ a <= n /\ n \in Nat
    BY ONLY <1>0, a \in 1..n
  <2>2. g[0] = 0 /\ g[n] = s[n] - s[a - 1]
    <3>1. 0 \in 0..n /\ n \in 0..n /\ ~(0 >= a) /\ n >= a
      BY ONLY <2>1
    <3> QED
      BY ONLY <3>1
  <2> HIDE DEF W
  <2>3. ASSUME NEW k \in 1..n
        PROVE  g[k] = g[k - 1] + W[k].value
    <3>0. k \in Int /\ 1 <= k /\ k <= n
      BY ONLY <2>1, k \in 1..n
    <3>1. k \in 0..n /\ k - 1 \in 0..n /\ a - 1 \in 0..n
      BY ONLY <2>1, <3>0
    <3>2. s[k] = s[k - 1] + E[k].value
      BY <1>10
    <3>3. s[k - 1] \in Int /\ s[a - 1] \in Int /\ E[k].value \in Int
      BY <1>4, <1>11, <3>1
    <3>4. CASE k < a
      <4>1. ~(k >= a) /\ ~(k - 1 >= a)
        BY ONLY <2>1, <3>4, <3>0
      <4>2. g[k] = 0 /\ g[k - 1] = 0 /\ W[k].value = 0
        BY <1>15, <3>1, <4>1
      <4> QED
        BY ONLY <4>2
    <3>5. CASE k = a
      <4>1. k >= a /\ ~(k - 1 >= a)
        BY ONLY <2>1, <3>5, <3>0
      <4>2. s[k] - s[a - 1] = 0 + E[k].value
        BY ONLY <3>2, <3>3, <3>5
      <4>3. g[k] = s[k] - s[a - 1] /\ g[k - 1] = 0 /\ W[k].value = E[k].value
        BY <1>15, <3>1, <4>1
      <4> QED
        BY ONLY <4>2, <4>3
    <3>6. CASE k > a
      <4>1. k >= a /\ k - 1 >= a
        BY ONLY <2>1, <3>6, <3>0
      <4>2. s[k] - s[a - 1] = s[k - 1] - s[a - 1] + E[k].value
        BY ONLY <3>2, <3>3
      <4>3. g[k] = s[k] - s[a - 1] /\ g[k - 1] = s[k - 1] - s[a - 1] /\ W[k].value = E[k].value
        BY <1>15, <3>1, <4>1
      <4> QED
        BY ONLY <4>2, <4>3
    <3>7. k < a \/ k = a \/ k > a
      BY ONLY <2>1, <3>0
    <3> QED
      BY <3>4, <3>5, <3>6, <3>7
  <2> HIDE DEF g
  <2> QED
    BY <1>16, <2>1, <2>2, <2>3, SumIs
<1> QED
  BY <1>14, <1>17 DEF E

\* A cumulative sum is the sum of the saved events of its window, for any events,
\* window and interleaving, as long as no sum was 0 before.
THEOREM WindowsAreSummed == NodesSpec => []WindowSum
<1>1. NodesSpec => []SumsInv
  BY SumsInvInit, SumsInvStep, NodesInvHolds, PTL DEF NodesSpec
<1> QED
  BY <1>1, NodesInvHolds, WindowsMean, PTL
=============================================================================
