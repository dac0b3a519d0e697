----------------------------- MODULE AmqpProofs -----------------------------
(***************************************************************************)
(* The fields of a producer or a consumer agree with its connections, for  *)
(* every number of losses and failures.                                    *)
(***************************************************************************)
EXTENDS AmqpClient, FiniteSetTheorems, TLAPS

\* The connections that are counted.
Taken == {k \in Conn : link[k] # "free"}

States == {"free", "connecting", "opening", "idle", "asserting", "ready"}

Typed ==
  /\ link \in [Conn -> States]
  /\ connection \in Conn \cup {NoConn} /\ channel \in Conn \cup {NoConn}
  /\ retries \in Nat /\ drops \in 0..MaxDrops /\ failures \in 0..MaxFailures

\* The inductive invariant: an attempt is counted once, as a delay that runs or
\* as a connection, and each loss and each failure pays for what it starts.  (The
\* bound on the delays alone does not follow from that on both.)
IndInv ==
  /\ Typed /\ FieldsAreUp /\ NoChannelMeansTrying
  /\ Cardinality(Taken) + retries <= 1 + 2 * drops + failures
  /\ retries <= 2 * drops + failures

-----------------------------------------------------------------------------

\* null is no connection.
LEMMA NoConnIsNone == NoConn \notin Conn
BY DEF NoConn, Conn

\* The identities are finitely many, and so are those taken.
LEMMA Finite ==
  /\ IsFiniteSet(Conn) /\ Cardinality(Conn) = 1 + 2 * MaxDrops + MaxFailures
  /\ IsFiniteSet(Taken) /\ Cardinality(Taken) \in Nat
<1>1. 1 + 2 * MaxDrops + MaxFailures \in Nat /\ 1 + 2 * MaxDrops + MaxFailures >= 1
  BY AmqpAssumption
<1>2. IsFiniteSet(Conn) /\ Cardinality(Conn) = 1 + 2 * MaxDrops + MaxFailures
  BY <1>1, FS_Interval DEF Conn
<1>3. IsFiniteSet(Taken)
  BY <1>2, FS_Subset DEF Taken
<1> QED
  BY <1>2, <1>3, FS_CardinalityType

\* While fewer are taken than there are, an identity is free.
LEMMA NewConnIsFree ==
  ASSUME Cardinality(Taken) < 1 + 2 * MaxDrops + MaxFailures
  PROVE  NewConn \in Conn /\ link[NewConn] = "free"
<1>1. Taken # Conn
  BY AmqpAssumption, Finite
<1>2. \E k \in Conn : link[k] = "free"
  BY <1>1 DEF Taken
<1> QED
  BY <1>2 DEF NewConn

\* A change of one connection that is taken keeps the number, or lowers it.
LEMMA MoveTaken ==
  ASSUME Typed, NEW k \in Conn, link[k] # "free", NEW s \in States,
         link' = [link EXCEPT ![k] = s]
  PROVE  /\ link' \in [Conn -> States] /\ Cardinality(Taken') \in Nat
         /\ Cardinality(Taken') <= Cardinality(Taken)
         /\ s = "free" => Cardinality(Taken') = Cardinality(Taken) - 1
<1>1. link' \in [Conn -> States] /\ link'[k] = s /\ \A j \in Conn : j # k => link'[j] = link[j]
  BY DEF Typed
<1>2. Taken' \in SUBSET Taken
  BY <1>1 DEF Taken
<1>3. IsFiniteSet(Taken) /\ IsFiniteSet(Taken')
  BY <1>2, Finite, FS_Subset
<1>4. ASSUME s = "free" PROVE Cardinality(Taken') = Cardinality(Taken) - 1
  <2>1. Taken' = Taken \ {k} /\ k \in Taken
    BY <1>1, <1>4 DEF Taken
  <2> QED
    BY <2>1, <1>3, FS_RemoveElement
<1> QED
  BY <1>1, <1>2, <1>3, <1>4, FS_Subset, FS_CardinalityType

\* A connection made on a free identity is one more.
LEMMA AddTaken ==
  ASSUME Typed, Cardinality(Taken) < 1 + 2 * MaxDrops + MaxFailures,
         link' = [link EXCEPT ![NewConn] = "connecting"]
  PROVE  /\ link' \in [Conn -> States] /\ link'[NewConn] = "connecting"
         /\ \A j \in Conn : link[j] # "free" => link'[j] = link[j]
         /\ Cardinality(Taken') = Cardinality(Taken) + 1
<1>0. NewConn \in Conn /\ link[NewConn] = "free"
  BY NewConnIsFree
<1>1. /\ link' \in [Conn -> States] /\ link'[NewConn] = "connecting"
      /\ \A j \in Conn : j # NewConn => link'[j] = link[j]
  BY <1>0 DEF Typed, States
<1>2. Taken' = Taken \cup {NewConn} /\ NewConn \notin Taken
  BY <1>0, <1>1 DEF Taken
<1> QED
  BY <1>0, <1>1, <1>2, Finite, FS_AddElement

\* A loss frees one identity and takes another.
LEMMA ReplaceTaken ==
  ASSUME Typed, NEW k \in Conn, link[k] # "free",
         Cardinality(Taken) < 1 + 2 * MaxDrops + MaxFailures,
         link' = [link EXCEPT ![k] = "free", ![NewConn] = "connecting"]
  PROVE  /\ link' \in [Conn -> States] /\ link'[NewConn] = "connecting"
         /\ Cardinality(Taken') = Cardinality(Taken)
<1>0. NewConn \in Conn /\ link[NewConn] = "free" /\ NewConn # k
  BY NewConnIsFree
<1>1. /\ link' \in [Conn -> States] /\ link'[NewConn] = "connecting" /\ link'[k] = "free"
      /\ \A j \in Conn : j # NewConn /\ j # k => link'[j] = link[j]
  BY <1>0 DEF Typed, States
<1>2. Taken' = (Taken \ {k}) \cup {NewConn} /\ NewConn \notin Taken \ {k} /\ k \in Taken
  BY <1>0, <1>1 DEF Taken
<1>3. IsFiniteSet(Taken \ {k}) /\ Cardinality(Taken \ {k}) = Cardinality(Taken) - 1
  BY <1>2, Finite, FS_RemoveElement
<1>4. Cardinality(Taken') = Cardinality(Taken \ {k}) + 1
  BY <1>2, <1>3, FS_AddElement
<1> QED
  BY <1>1, <1>3, <1>4, Finite

\* The first attempt of a process is the only one.
LEMMA FirstTaken ==
  ASSUME NEW f, f = [k \in Conn |-> IF k = 1 THEN "connecting" ELSE "free"]
  PROVE  /\ f \in [Conn -> States] /\ 1 \in Conn /\ f[1] = "connecting"
         /\ Cardinality({k \in Conn : f[k] # "free"}) = 1
<1>1. 1 \in Conn
  BY AmqpAssumption DEF Conn
<1>2. {k \in Conn : f[k] # "free"} = {1}
  BY <1>1
<1> QED
  BY <1>1, <1>2, FS_Singleton DEF States

-----------------------------------------------------------------------------

\* It holds when the object has been constructed.
LEMMA InitInd == AmqpInit => IndInv
<1> SUFFICES ASSUME AmqpInit PROVE IndInv
  OBVIOUS
<1>1. link \in [Conn -> States] /\ 1 \in Conn /\ link[1] = "connecting" /\ Cardinality(Taken) = 1
  BY FirstTaken DEF AmqpInit, Taken
<1> QED
  BY AmqpAssumption, NoConnIsNone, <1>1 DEF AmqpInit, IndInv, Typed, FieldsAreUp, NoChannelMeansTrying

\* It says what is promised of the fields.
LEMMA IndSound == IndInv => FieldsSound
<1> SUFFICES ASSUME IndInv PROVE FieldsSound
  OBVIOUS
<1>1. retries \in 0..(2 * MaxDrops + MaxFailures)
  BY AmqpAssumption DEF IndInv, Typed
<1> QED
  BY <1>1 DEF IndInv, Typed, FieldsSound, AmqpTypeOK, ConnectionsBounded, Taken, States

\* A process that starts again has it, whatever was counted before.
LEMMA RestartInd ==
  ASSUME Typed, AmqpRestart, drops' \in 0..MaxDrops, UNCHANGED failures
  PROVE  IndInv'
<1>1. link' \in [Conn -> States] /\ 1 \in Conn /\ link'[1] = "connecting" /\ Cardinality(Taken') = 1
  BY FirstTaken DEF AmqpRestart, Taken
<1>2. Typed' /\ drops' \in Nat /\ failures' \in Nat
  BY <1>1, AmqpAssumption DEF AmqpRestart, Forget, Typed
<1>3. FieldsAreUp' /\ NoChannelMeansTrying'
  BY <1>1 DEF AmqpRestart, Forget, FieldsAreUp, NoChannelMeansTrying
<1>4. /\ Cardinality(Taken') + retries' <= 1 + 2 * drops' + failures'
      /\ retries' <= 2 * drops' + failures'
  <2>1. retries' = 0
    BY DEF AmqpRestart
  <2>2. \A d, f \in Nat : 1 + 0 <= 1 + 2 * d + f /\ 0 <= 2 * d + f
    OBVIOUS
  <2> QED
    BY <1>1, <1>2, <2>1, <2>2
<1> QED
  BY <1>1, <1>2, <1>3, <1>4 DEF IndInv

\* Whoever connects anew finds an identity for it.
LEMMA RoomLeft ==
  ASSUME IndInv, Reconnect \/ \E k \in Conn, kind \in DropKinds : Dropped(k, kind)
  PROVE  /\ Cardinality(Taken) < 1 + 2 * MaxDrops + MaxFailures
         /\ NewConn \in Conn /\ link[NewConn] = "free"
<1>1. Cardinality(Taken) < 1 + 2 * MaxDrops + MaxFailures
  BY AmqpAssumption, Finite DEF Dropped, Reconnect, IndInv, Typed
<1> QED
  BY <1>1, NewConnIsFree

\* A connection with a channel keeps it until it is lost itself.
LEMMA UpStaysUp ==
  ASSUME IndInv, NEW j \in Conn, link[j] \in {"asserting", "ready"},
         \/ \E k \in Conn : Connected(k) \/ ChannelCreated(k) \/ QueueAsserted(k)
         \/ \E k \in Conn, kind \in DropKinds : k # j /\ Dropped(k, kind)
         \/ Reconnect
  PROVE  link'[j] \in {"asserting", "ready"} /\ (link[j] = "ready" => link'[j] = "ready")
<1>1. ASSUME NEW k \in Conn, Connected(k) \/ ChannelCreated(k) \/ QueueAsserted(k)
      PROVE  link'[j] \in {"asserting", "ready"} /\ (link[j] = "ready" => link'[j] = "ready")
  BY <1>1 DEF Connected, ChannelCreated, QueueAsserted, IndInv, Typed
<1>2. ASSUME NEW k \in Conn, NEW kind \in DropKinds, k # j, Dropped(k, kind)
      PROVE  link'[j] = link[j]
  BY <1>2, RoomLeft DEF Dropped, IndInv, Typed
<1>3. CASE Reconnect
  BY <1>3, RoomLeft DEF Reconnect, IndInv, Typed
<1> QED
  BY <1>1, <1>2, <1>3

\* Every handler of every connection keeps it.
LEMMA StepInd == IndInv /\ [AmqpNext]_amqpVars => IndInv'
<1> SUFFICES ASSUME IndInv, [AmqpNext]_amqpVars PROVE IndInv'
  OBVIOUS
<1>0. Typed /\ Cardinality(Taken) \in Nat
  BY Finite DEF IndInv
<1>1. CASE UNCHANGED amqpVars
  BY <1>1 DEF amqpVars, IndInv, Typed, FieldsAreUp, Up, NoChannelMeansTrying, Taken
<1>2. ASSUME NEW k \in Conn, Connected(k) PROVE IndInv'
  <2>1. /\ link' \in [Conn -> States] /\ Cardinality(Taken') \in Nat
        /\ Cardinality(Taken') <= Cardinality(Taken)
    BY <1>0, <1>2, MoveTaken DEF Connected, States
  <2> QED
    BY <1>0, <1>2, <2>1 DEF Connected, IndInv, Typed, FieldsAreUp, Up, NoChannelMeansTrying
<1>3. ASSUME NEW k \in Conn, ChannelCreated(k) PROVE IndInv'
  <2>1. /\ link' \in [Conn -> States] /\ Cardinality(Taken') \in Nat
        /\ Cardinality(Taken') <= Cardinality(Taken)
    BY <1>0, <1>3, MoveTaken DEF ChannelCreated, States
  <2> QED
    BY NoConnIsNone, <1>0, <1>3, <2>1
       DEF ChannelCreated, IndInv, Typed, FieldsAreUp, Up, NoChannelMeansTrying
<1>4. ASSUME NEW k \in Conn, QueueAsserted(k) PROVE IndInv'
  <2>1. /\ link' \in [Conn -> States] /\ Cardinality(Taken') \in Nat
        /\ Cardinality(Taken') <= Cardinality(Taken)
    BY <1>0, <1>4, MoveTaken DEF QueueAsserted, States
  <2> QED
    BY <1>0, <1>4, <2>1 DEF QueueAsserted, IndInv, Typed, FieldsAreUp, Up, NoChannelMeansTrying
<1>5. ASSUME NEW k \in Conn, ConnectFailed(k) PROVE IndInv'
  <2>1. /\ link' \in [Conn -> States] /\ Cardinality(Taken') \in Nat
        /\ Cardinality(Taken') <= Cardinality(Taken)
    BY <1>0, <1>5, MoveTaken DEF ConnectFailed, States
  <2> QED
    BY AmqpAssumption, NoConnIsNone, <1>0, <1>5, <2>1
       DEF ConnectFailed, Forget, IndInv, Typed, FieldsAreUp, NoChannelMeansTrying
<1>6. ASSUME NEW k \in Conn, NEW kind \in DropKinds, Dropped(k, kind) PROVE IndInv'
  <2>1. Cardinality(Taken) < 1 + 2 * MaxDrops + MaxFailures
    BY <1>6, RoomLeft
  <2>2. NewConn \in Conn
    BY <1>6, RoomLeft
  <2>3. /\ link' \in [Conn -> States] /\ link'[NewConn] = "connecting"
        /\ Cardinality(Taken') = Cardinality(Taken)
    BY <1>0, <1>6, <2>1, ReplaceTaken DEF Dropped
  <2>4. retries' \in Nat /\ retries' <= retries + 2
    BY <1>0, <1>6 DEF Dropped, Typed
  <2>5. drops' = drops + 1 /\ drops' \in 0..MaxDrops /\ failures' = failures
        /\ connection' = NoConn /\ channel' = NoConn
    BY AmqpAssumption, NoConnIsNone, <1>0, <1>6 DEF Dropped, Typed, Forget
  <2> QED
    BY AmqpAssumption, NoConnIsNone, <1>0, <2>2, <2>3, <2>4, <2>5
       DEF IndInv, Typed, FieldsAreUp, NoChannelMeansTrying
<1>7. ASSUME Reconnect PROVE IndInv'
  <2>1. Cardinality(Taken) < 1 + 2 * MaxDrops + MaxFailures
    BY <1>7, RoomLeft
  <2>2. NewConn \in Conn
    BY <1>7, RoomLeft
  <2>3. /\ link' \in [Conn -> States] /\ link'[NewConn] = "connecting"
        /\ \A j \in Conn : link[j] # "free" => link'[j] = link[j]
        /\ Cardinality(Taken') = Cardinality(Taken) + 1
    BY <1>0, <1>7, <2>1, AddTaken DEF Reconnect
  <2>4. retries' \in Nat /\ retries' = retries - 1
    BY <1>0, <1>7 DEF Reconnect, Typed
  <2> QED
    BY AmqpAssumption, NoConnIsNone, <1>0, <1>7, <2>2, <2>3, <2>4
       DEF Reconnect, IndInv, Typed, FieldsAreUp, Up, NoChannelMeansTrying
<1>8. ASSUME NEW k \in Conn, AssertFailed(k), AmqpRestart, drops' = drops + 1, UNCHANGED failures
      PROVE  IndInv'
  <2>1. drops' \in 0..MaxDrops
    BY <1>0, <1>8, AmqpAssumption DEF AssertFailed, Typed
  <2> QED
    BY <1>0, <1>8, <2>1, RestartInd
<1> QED
  BY <1>1, <1>2, <1>3, <1>4, <1>5, <1>6, <1>7, <1>8 DEF AmqpNext

\* What the object sends through is up, it is on its way to a channel while it
\* has none, and its connections do not outnumber what its losses and failures
\* account for.
THEOREM FieldsAreSound == AmqpSpec => []FieldsSound
<1>1. AmqpInit => IndInv
  BY InitInd
<1>2. IndInv /\ [AmqpNext]_amqpVars => IndInv'
  BY StepInd
<1>3. IndInv => FieldsSound
  BY IndSound
<1> QED
  BY <1>1, <1>2, <1>3, PTL DEF AmqpSpec
=============================================================================
