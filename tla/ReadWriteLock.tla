---------------------------- MODULE ReadWriteLock ----------------------------
(***************************************************************************)
(* What the context manager promises (contextManager/index.js, the comment *)
(* on ContextHandler): access to the context is exclusive following the    *)
(* read/write lock procedure, and a save loses nothing saved before it.    *)
(***************************************************************************)
CONSTANT Request

VARIABLES
  readers,  \* requests that hold the lock for reading
  writers,  \* requests that hold the lock for writing
  content   \* the requests whose save the context contains

rwVars == <<readers, writers, content>>

RWInit == readers = {} /\ writers = {} /\ content = {}

AcquireRead(r) ==
  /\ r \notin readers
  /\ writers = {}
  /\ readers' = readers \cup {r}
  /\ UNCHANGED <<writers, content>>

AcquireWrite(r) ==
  /\ readers \cup writers = {}
  /\ writers' = {r}
  /\ UNCHANGED <<readers, content>>

\* Only the holder of the write lock saves.
Save(r) ==
  /\ r \in writers
  /\ content' = content \cup {r}
  /\ UNCHANGED <<readers, writers>>

\* A client, a timer or the end of a session gives locks back.
Release(S) ==
  /\ readers' = readers \ S
  /\ writers' = writers \ S
  /\ UNCHANGED content

RWNext ==
  \/ \E r \in Request : AcquireRead(r) \/ AcquireWrite(r) \/ Save(r)
  \/ \E S \in SUBSET Request : Release(S)

RWSpec == RWInit /\ [][RWNext]_rwVars
=============================================================================
