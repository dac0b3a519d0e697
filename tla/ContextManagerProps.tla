------------------------- MODULE ContextManagerProps -------------------------
(***************************************************************************)
(* What the context managers guarantee together, stated over the state of  *)
(* ContextManager.                                                         *)
(***************************************************************************)
EXTENDS ContextManager

\* The lock promise of r was resolved and its znode still stands.
Holds(r) == promise[r] = "acquired" /\ r \in znodes

\* Two requests that both hold the lock do not conflict, whatever the
\* interleaving of listings, watches, timers, disconnects and crashes, unless
\* one of the two has znode number 0, which findNextElemToBeWatched* overlooks.
LockExclusion ==
  \A a, b \in Request :
    Holds(a) /\ Holds(b) /\ Conflicts(a, b) => seq[a] = 0 \/ seq[b] = 0

\* The requests that conflict with r never jump the queue: nobody holds the
\* lock while a conflicting znode in front of it (other than number 0) stands.
GrantedInOrder ==
  \A a, b \in Request :
    Holds(b) /\ a \in znodes /\ Conflicts(a, b) /\ 0 < seq[a] => seq[b] < seq[a]

\* r was given the lock although its wait timer had elapsed, and its znode is
\* gone or going: get_children had answered before the timer ran.
LateGrant(r) == promise[r] = "acquired" /\ waitTimer[r] = "fired"

\* A control entry (what save_and_unlock trusts) still stands for a znode: the
\* hold timer, the client's release and the session of the process never
\* remove the znode first.
EntryHasZnode ==
  \A r \in control : r \in znodes \/ LateGrant(r)

\* Nobody wins the race between get_children and the wait timer, and nobody
\* has znode number 0.
Orderly == \A r \in Request : ~LateGrant(r) /\ seq[r] # 0

\* While a client has an entry for the context, what it was sent is what the
\* context contains: no other client saves under its lock, and the set of an
\* earlier holder is never applied late.
NoStaleRead == Orderly => \A r \in control : read[r] = data

\* What a client was told is saved stays saved.
NoLostUpdate == Orderly => \A r \in Request : release[r] = "saved" => r \in data

-----------------------------------------------------------------------------
(* The inductive invariant behind LockExclusion. *)

Numbered(r) == seq[r] # NoSeq

\* Numbers are given in order, once, and only to requests that arrived.
NumbersInOrder ==
  /\ \A r \in Request : Numbered(r) => seq[r] < nextSeq /\ cmd[r] # "none"
  /\ \A a, b \in Request : Numbered(a) /\ seq[a] = seq[b] => a = b
  /\ \A z \in znodes : Numbered(z)

\* The operations that lead to a number: a request has at most one in flight.
Fresh(m) == m.op \in {"path", "create"}

\* What the outbox of s may contain.
Sendable(s, m) ==
  /\ ServerOf[m.r] = s
  /\ cmd[m.r] # "none"
  /\ Fresh(m) <=> ~Numbered(m.r)

\* The listing in m has every znode in front of the one it was made for.
ListsAllAhead(m) == \A z \in znodes : seq[z] < seq[m.r] => z \in m.val

\* What the inbox of s may contain.
Receivable(s, m) ==
  \/ /\ m.op = "event"
     /\ \A r \in m.val : Numbered(r)
  \/ /\ m.op # "event"
     /\ ServerOf[m.r] = s
     /\ cmd[m.r] # "none"
     /\ m.op = "path" => ~Numbered(m.r)
     /\ ~Fresh(m) \/ (m.op = "create" /\ m.rc = "ok") => Numbered(m.r)
     /\ m.op = "children" /\ m.rc = "ok" => ListsAllAhead(m)

\* What holds of the two pipes of s.
PipesOK(s, in, out) ==
  /\ \A i \in 1..Len(out) : Sendable(s, out[i])
  /\ \A i \in 1..Len(in) : Receivable(s, in[i])
  /\ \A i, j \in 1..Len(out) :
       Fresh(out[i]) /\ Fresh(out[j]) /\ out[i].r = out[j].r => i = j
  /\ \A i \in 1..Len(in), j \in 1..Len(out) :
       in[i].op = "path" /\ Fresh(out[j]) => in[i].r # out[j].r
  /\ \A i, j \in 1..Len(in) :
       in[i].op = "path" /\ in[j].op = "path" /\ in[i].r = in[j].r => i = j

AllPipesOK == \A s \in Server : PipesOK(s, inbox[s], outbox[s])

\* Only numbered requests watch, time out, hold.
RolesNumbered ==
  \A r \in Request :
    watch[r] # {} \/ waitTimer[r] # "off" \/ promise[r] = "acquired" \/ r \in control
      => Numbered(r)

\* The inductive invariant: types, unique numbers, and what pipes and listings say.
IndInv ==
  /\ TypeOK
  /\ NumbersInOrder
  /\ AllPipesOK
  /\ RolesNumbered
  /\ GrantedInOrder

-----------------------------------------------------------------------------
\* An operation still under way for r, or one the session will be told of.
UnderWay(r) ==
  LET s == ServerOf[r] IN
  \/ \E i \in 1..Len(outbox[s]) : outbox[s][i].r = r
  \/ \E i \in 1..Len(inbox[s]) :
       inbox[s][i].op # "event" /\ inbox[s][i].r = r

\* As long as no connection is lost, somebody is always left to give a lock
\* znode back: its wait timer, its control entry, an operation under way or
\* the end of a dead session.
NoOrphanLock ==
  disconnects = 0 =>
    \A r \in znodes :
      waitTimer[r] = "armed" \/ r \in control \/ UnderWay(r) \/ r \in lost

\* Every lock command is answered, unless the process that got it crashes:
\* the lock callbacks and timers settle every promise, lost connections included.
Answered ==
  <>[](\A r \in Request : cmd[r] # "none" => answer[r] # "none" \/ r \in lost)

\* Every lock znode is deleted in the end.
LocksReleased == \A r \in Request : r \in znodes ~> r \notin znodes

\* Only a lost connection leaves a lock behind: without one every lock znode is
\* deleted in the end, whatever timers elapse and processes crash.
ReleasedUnlessCut == <>[](disconnects = 0 => znodes = {})

\* Every request gets the lock: no wakeup is lost between listing the
\* directory and watching a znode, and nobody overtakes a waiting writer forever.
Granted ==
  <>[](\A r \in Request : cmd[r] # "none" => promise[r] = "acquired" \/ r \in lost)

\* The content only changes by the save of a client that still holds a write
\* lock, and the change adds that save to what was there.
SavesUnderLock ==
  [][Orderly' /\ data' # data =>
       \E r \in Request : /\ Holds(r) /\ IsWriter(r)
                          /\ data' = data \cup {r}]_vars

Readers == {r \in Request : Holds(r) /\ ~IsWriter(r)}
Writers == {r \in Request : Holds(r) /\ IsWriter(r)}

RW == INSTANCE ReadWriteLock WITH
        readers <- Readers, writers <- Writers, content <- data

\* The context managers implement the read/write lock.
ImplementsReadWriteLock == RW!RWSpec

\* The two clients that have an entry for the context do not conflict.
ExclusiveAccess == \A a, b \in control : ~Conflicts(a, b)
=============================================================================
