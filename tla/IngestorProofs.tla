-------------------------- MODULE IngestorProofs --------------------------
(***************************************************************************)
(* The events of a device on their way to the flows, for every number of   *)
(* versions, messages and faults: how often and in which order they start, *)
(* the templates they start with and the reasons for which they do not.    *)
(***************************************************************************)
EXTENDS DeviceIngestor, FiniteSetTheorems, FunctionTheorems, SequenceTheorems, TLAPS

-----------------------------------------------------------------------------
(* The inductive invariant, its first half whatever happens to the         *)
(* connections of the consumer                                             *)

Kinds == {"create", "update", "remove", "configure", "publish"}

\* The events of the subjects: changes carry their version.
DeviceEvents == {e \in [kind : Kinds, version : 0..MaxVersion] : e.kind \in Change <=> e.version > 0}

Phases == {"setting", "getting", "asking", "filling", "deleting", "handling", "handled", "given up"}

Executions ==
  [id : Nat, event : DeviceEvents, via : Nat, info : 0..MaxVersion, lookup : BOOLEAN, phase : Phases]

Starts == [id : Nat, kind : Kinds, version : 0..MaxVersion]

Types ==
  /\ device \in Removed..MaxVersion /\ cache \in 0..MaxVersion /\ snapshot \in Removed..MaxVersion
  /\ redis \in {"ready", "down"} /\ start \in {"reading", "writing", "done"}
  /\ topics \in [Subject -> Seq(DeviceEvents)]
  /\ queue \in SUBSET [id : Nat, event : DeviceEvents]
  /\ channels \in SUBSET Nat /\ attempts \in Nat
  /\ handling \in SUBSET Executions
  /\ started \in Seq(Starts)
  /\ failed \in SUBSET [id : Nat, event : DeviceEvents]
  /\ counts \in [Counters -> Nat]

\* What an execution knows and does in each of its phases.
PhaseSound(x) ==
  /\ IF x.event.kind \in Change
     THEN x.info = x.event.version /\ x.phase \in {"setting", "handling", "handled"}
     ELSE x.phase # "setting"
  /\ x.phase \in {"filling", "deleting", "handling", "handled"} => x.info > 0
  /\ x.phase = "deleting" => x.event.kind = "remove"
  /\ x.phase = "getting" => x.lookup

\* An execution that is over has started its event or given it up.
Told(x) ==
  /\ x.phase = "handled" => \E i \in DOMAIN started : started[i].id = x.id
  /\ x.phase = "given up" => \E f \in failed : f.id = x.id

\* An execution whose channel lives has the event, and it alone.
Holds(x) == x.via \in channels => \E d \in queue : d.id = x.id /\ d.event = x.event

Sound ==
  /\ \A d, o \in queue : d.id = o.id => d = o
  /\ \A d \in queue : d.id \in 1..counts["events"]
  /\ channels \subseteq 1..counts["channels"]
  /\ channels # {} \/ attempts > 0 => start = "done"
  /\ \A i \in DOMAIN started : started[i].id <= counts["events"]
  /\ \A x \in handling :
       /\ start = "done" /\ PhaseSound(x) /\ Told(x) /\ Holds(x)
       /\ x.id \in 1..counts["events"] /\ x.via \in 1..counts["channels"]
  /\ \A x, y \in handling : x.via = y.via => x = y
  /\ \A x, y \in handling : x.id = y.id /\ x.via \in channels /\ y.via \in channels => x = y

\* Nothing knows of a version the device manager does not have.
NotAhead ==
  device # Removed =>
    /\ cache <= device /\ snapshot <= device
    /\ \A x \in handling : x.info <= device
    /\ \A d \in queue : d.event.version <= device
    /\ \A s \in Subject : \A i \in DOMAIN topics[s] : topics[s][i].version <= device

\* Why the templates may be missing.
Blamed ==
  /\ start = "done" /\ redis = "down" => Faults >= 1
  /\ \A x \in handling : ~x.lookup =>
       /\ device = Removed \/ Faults >= 1
       /\ x.phase = "filling" /\ redis = "down" => device = Removed \/ Faults >= 2
  /\ LostForAReason

Times(n) == {j \in DOMAIN started : started[j].id = n}

\* The executions of an event that may still start it.
Pending(n) == {x \in handling : x.id = n /\ x.phase \notin Over}

Given(n) == Cardinality(Times(n)) + Cardinality(Pending(n))

\* An event is given out once, and again after each crash and lost connection.
Repeats ==
  /\ IsFiniteSet(handling)
  /\ \A n \in Nat : Given(n) <= 1 + counts["crashes"] + counts["drops"]
  /\ \A d \in Waiting : Given(d.id) <= counts["crashes"] + counts["drops"]

Common == Types /\ Sound /\ NotAhead /\ Blamed /\ NoneMissing /\ Repeats

-----------------------------------------------------------------------------
(* The second half, as long as the consumer keeps its connection           *)

\* One execution at a time, of the first event in the queue.
Alone ==
  /\ \A k, l \in channels : k = l
  /\ attempts > 0 => attempts = 1 /\ channels = {} /\ handling = {}
  /\ \A x, y \in handling : x = y
  /\ \A x \in handling : x.via \in channels /\ \A d \in queue : x.id <= d.id

\* Changes come in the order of their versions, the removal last.
Ordered ==
  LET changes == topics["device-manager"] IN
  /\ \A i \in DOMAIN topics["device"] : topics["device"][i].kind = "publish"
  /\ \A i, j \in DOMAIN changes :
       i < j /\ changes[j].kind \in Change => changes[i].version < changes[j].version
  /\ \A i \in DOMAIN changes :
       /\ changes[i].kind = "remove" => device = Removed /\ i = Len(changes)
       /\ changes[i].kind \in Change => \A d \in queue : d.event.version < changes[i].version
  /\ \A d, o \in queue :
       d.id < o.id /\ o.event.kind \in Change => d.event.version < o.event.version
  /\ \A d \in queue :
       d.event.kind = "remove" =>
         /\ device = Removed /\ changes = <<>>
         /\ \A o \in queue : /\ o.event.kind \in Change => o.id < d.id
                             /\ o.event.kind = "remove" => o = d

\* Events start in the order of the queue.
Queued ==
  /\ \A i, j \in DOMAIN started : i < j => started[i].id <= started[j].id
  /\ \A i \in DOMAIN started : \A d \in queue : started[i].id <= d.id

\* The changes that are still to be written in the cache.
Unwritten ==
  \/ \E i \in DOMAIN topics["device-manager"] : topics["device-manager"][i].kind \in Change
  \/ \E d \in queue : d.event.kind \in Change /\ \A x \in handling : x.phase # "setting" => x.id # d.id

\* A removal the cache is not asked about yet.
RemovalAhead ==
  \/ \E i \in DOMAIN topics["device-manager"] : topics["device-manager"][i].kind = "remove"
  \/ \E d \in queue : d.event.kind = "remove" /\ \A x \in handling : x.phase # "getting" => x.id # d.id

\* Without a fault the cache knows a device until its removal is handled.
Remembered ==
  Faults = 0 =>
    /\ start # "done" => queue = {} /\ cache = Nothing
    /\ \A x \in handling : x.event.kind = "remove" => x.phase \notin {"asking", "filling", "given up"}
    /\ device > 0 \/ RemovalAhead => Unwritten \/ cache > 0

\* A version no older than those of the changes handled so far.
Current(v) == \A i \in DOMAIN started : started[i].kind \in Change => v >= started[i].version

Fresh(v) == v = Nothing \/ Current(v)

\* Where a version comes from that an event may be handled with.
Versions ==
  /\ device # Removed => Current(device)
  /\ \A i \in DOMAIN topics["device-manager"] :
       topics["device-manager"][i].kind \in Change => Current(topics["device-manager"][i].version)
  /\ \A d \in queue : d.event.kind \in Change => Current(d.event.version)
  /\ start = "writing" /\ snapshot > 0 => Current(snapshot)
  /\ counts["refusals"] = 0 =>
       /\ redis = "ready" => Fresh(cache)
       /\ \A x \in handling :
            /\ x.phase = "getting" => Fresh(cache)
            /\ x.phase \in {"filling", "deleting", "handling"} => Current(x.info)
            /\ x.event.kind \in Change /\ x.phase = "handling" /\ redis = "ready" =>
                 cache = Nothing \/ cache >= x.info
  /\ NoOlderTemplates

InTurn == Alone /\ Ordered /\ Queued /\ Remembered /\ Versions

IngestInv == Common /\ (counts["drops"] = 0 => InTurn)

-----------------------------------------------------------------------------
(* Facts *)

\* A message at the end of a sequence.
LEMMA AppendFacts ==
  ASSUME NEW S, NEW s \in Seq(S), NEW e \in S
  PROVE  /\ Append(s, e) \in Seq(S) /\ Len(s) \in Nat
         /\ DOMAIN s = 1..Len(s) /\ DOMAIN Append(s, e) = 1..(Len(s) + 1)
         /\ Append(s, e)[Len(s) + 1] = e /\ Len(Append(s, e)) = Len(s) + 1
         /\ \A i \in DOMAIN s : Append(s, e)[i] = s[i]
BY LenProperties, AppendProperties

\* A sequence without its head.
LEMMA TailFacts ==
  ASSUME NEW S, NEW s \in Seq(S), s # <<>>
  PROVE  /\ Tail(s) \in Seq(S) /\ Head(s) \in S /\ Head(s) = s[1] /\ 1 \in DOMAIN s
         /\ Len(Tail(s)) = Len(s) - 1 /\ Len(s) \in Nat \ {0}
         /\ \A i \in DOMAIN Tail(s) : i + 1 \in DOMAIN s /\ Tail(s)[i] = s[i + 1]
         /\ DOMAIN s = 1..Len(s) /\ DOMAIN Tail(s) = 1..(Len(s) - 1)
<1>1. /\ Tail(s) \in Seq(S) /\ Head(s) \in S /\ Len(Tail(s)) = Len(s) - 1
      /\ \A i \in 1..Len(Tail(s)) : Tail(s)[i] = s[i + 1]
  BY HeadTailProperties
<1>2. Len(s) \in Nat \ {0}
  BY EmptySeq
<1>3. DOMAIN s = 1..Len(s) /\ DOMAIN Tail(s) = 1..Len(Tail(s))
  BY <1>1, LenProperties
<1>4. Head(s) = s[1]
  OBVIOUS
<1> QED
  BY <1>1, <1>2, <1>3, <1>4

\* What the types say of the elements of sets and sequences.
LEMMA Typed ==
  ASSUME Types
  PROVE  /\ Removed = -1 /\ MaxVersion \in Nat /\ cache \in Nat /\ snapshot \in Int /\ device \in Int
         /\ \A s \in Subject : /\ topics[s] \in Seq(DeviceEvents) /\ Len(topics[s]) \in Nat
                              /\ DOMAIN topics[s] = 1..Len(topics[s])
                              /\ \A i \in DOMAIN topics[s] : topics[s][i] \in DeviceEvents
                                                           /\ topics[s][i].version \in Nat
         /\ \A d \in queue : d.id \in Nat /\ d.event \in DeviceEvents /\ d.event.version \in Nat
         /\ \A x \in handling : x.id \in Nat /\ x.event \in DeviceEvents /\ x.info \in Nat
                              /\ x.event.version \in Nat /\ x.via \in Nat
         /\ started \in Seq(Starts)
         /\ Len(started) \in Nat /\ DOMAIN started = 1..Len(started)
         /\ \A i \in DOMAIN started : started[i].id \in Nat /\ started[i].version \in Nat
<1> USE DEF Types
<1>1. Removed = -1 /\ MaxVersion \in Nat /\ cache \in Nat /\ snapshot \in Int /\ device \in Int
  BY IngestAssumption DEF Removed
<1>2. \A e \in DeviceEvents : e.version \in Nat
  BY <1>1 DEF DeviceEvents
<1>3. \A s \in Subject : /\ topics[s] \in Seq(DeviceEvents) /\ Len(topics[s]) \in Nat
                         /\ DOMAIN topics[s] = 1..Len(topics[s])
                         /\ \A i \in DOMAIN topics[s] : topics[s][i] \in DeviceEvents
  BY LenProperties, ElementOfSeq
<1>4. /\ started \in Seq(Starts)
      /\ Len(started) \in Nat /\ DOMAIN started = 1..Len(started)
      /\ \A i \in DOMAIN started : started[i] \in Starts
  BY LenProperties, ElementOfSeq
<1>5. \A i \in DOMAIN started : started[i].id \in Nat /\ started[i].version \in Nat
  BY <1>1, <1>4 DEF Starts
<1>6. \A x \in handling : x.id \in Nat /\ x.event \in DeviceEvents /\ x.info \in Nat /\ x.via \in Nat
  BY <1>1 DEF Executions
<1> QED
  BY <1>1, <1>2, <1>3, <1>4, <1>5, <1>6

\* Counts go up by one, the others stay.
LEMMA CountFacts ==
  ASSUME Types, NEW what \in SUBSET Counters, Count(what)
  PROVE  /\ counts' \in [Counters -> Nat]
         /\ \A w \in what : counts'[w] = counts[w] + 1
         /\ \A w \in Counters \ what : counts'[w] = counts[w]
BY DEF Types, Count

FaultKinds == {"losses", "refusals", "failures", "crashes", "drops", "blind"}

\* The faults are counted.
LEMMA FaultsFacts ==
  ASSUME Types
  PROVE  /\ Faults \in Nat
         /\ \A w \in Counters : counts[w] \in Nat
         /\ Faults = 0 => \A w \in FaultKinds : counts[w] = 0
<1>0. counts \in [Counters -> Nat]
  BY DEF Types
<1>1. \A w \in Counters : counts[w] \in Nat
  BY ONLY <1>0
<1>2. FaultKinds \subseteq Counters
  BY DEF FaultKinds, Counters
<1>4. /\ counts["losses"] \in Nat /\ counts["refusals"] \in Nat /\ counts["failures"] \in Nat
      /\ counts["crashes"] \in Nat /\ counts["drops"] \in Nat /\ counts["blind"] \in Nat
  BY <1>1, <1>2 DEF FaultKinds
<1> DEFINE l == counts["losses"]  r == counts["refusals"]  f == counts["failures"]
           c == counts["crashes"]  d == counts["drops"]  b == counts["blind"]
<1>3. Faults = l + r + f + c + d + b
  BY DEF Faults
<1> HIDE DEF l, r, f, c, d, b
<1>6. /\ Faults \in Nat
      /\ Faults = 0 => l = 0 /\ r = 0 /\ f = 0 /\ c = 0 /\ d = 0 /\ b = 0
  <2>1. l \in Nat /\ r \in Nat /\ f \in Nat /\ c \in Nat /\ d \in Nat /\ b \in Nat
    BY <1>4 DEF l, r, f, c, d, b
  <2> QED
    BY ONLY <1>3, <2>1
<1>5. /\ Faults \in Nat
      /\ Faults = 0 => /\ counts["losses"] = 0 /\ counts["refusals"] = 0 /\ counts["failures"] = 0
                       /\ counts["crashes"] = 0 /\ counts["drops"] = 0 /\ counts["blind"] = 0
  BY <1>6, Zenon DEF l, r, f, c, d, b
<1> QED
  BY <1>1, <1>5 DEF FaultKinds

\* A fault adds to them.
LEMMA FaultsGrow ==
  ASSUME Types, NEW what \in SUBSET Counters, Count(what),
         NEW kind \in FaultKinds, what \cap FaultKinds = {kind}
  PROVE  Faults' = Faults + 1
<1>1. FaultKinds \subseteq Counters /\ kind \in what
  BY DEF FaultKinds, Counters
<1>2. counts'[kind] = counts[kind] + 1 /\ \A w \in FaultKinds \ {kind} : counts'[w] = counts[w]
  BY <1>1, CountFacts
<1>3. \A w \in FaultKinds : counts[w] \in Nat
  BY <1>1, FaultsFacts
<1> QED
  BY <1>2, <1>3 DEF Faults, FaultKinds

\* What is none does not.
LEMMA FaultsStay ==
  ASSUME Types, NEW what \in SUBSET Counters, Count(what), what \cap FaultKinds = {}
  PROVE  Faults' = Faults /\ \A w \in FaultKinds : counts'[w] = counts[w]
<1>1. FaultKinds \subseteq Counters
  BY DEF FaultKinds, Counters
<1>2. \A w \in FaultKinds : counts'[w] = counts[w]
  BY <1>1, CountFacts
<1> QED
  BY <1>2 DEF Faults, FaultKinds

\* The starts of an event and its executions are finitely many.
LEMMA TimesNumber ==
  ASSUME Types, NEW n
  PROVE  Cardinality(Times(n)) \in Nat /\ IsFiniteSet(Times(n))
<1>1. Len(started) \in Nat /\ Times(n) \subseteq 1..Len(started)
  BY Typed DEF Times
<1>2. IsFiniteSet(1..Len(started))
  BY <1>1, FS_Interval
<1> QED
  BY <1>1, <1>2, FS_Subset, FS_CardinalityType

LEMMA PendingNumber ==
  ASSUME Repeats, NEW n
  PROVE  Cardinality(Pending(n)) \in Nat /\ IsFiniteSet(Pending(n))
<1>1. Pending(n) \subseteq handling /\ IsFiniteSet(handling)
  BY DEF Pending, Repeats
<1> QED
  BY <1>1, FS_Subset, FS_CardinalityType

\* Fewer executions in which an event may start.
LEMMA FewerPending ==
  ASSUME Types, Repeats, NEW n, started' = started, Pending(n)' \subseteq Pending(n)
  PROVE  Given(n)' <= Given(n) /\ Given(n) \in Nat /\ Given(n)' \in Nat
<1>1. Times(n)' = Times(n)
  BY DEF Times
<1>2. /\ Cardinality(Pending(n)') <= Cardinality(Pending(n))
      /\ Cardinality(Pending(n)') \in Nat /\ Cardinality(Pending(n)) \in Nat
  BY PendingNumber, FS_Subset, FS_CardinalityType
<1>3. Cardinality(Times(n)) \in Nat
  BY TimesNumber
<1> QED
  BY <1>1, <1>2, <1>3 DEF Given

-----------------------------------------------------------------------------
(* The initial states, and steps of the others *)

LEMMA IngestInitInd == IngestInit => IngestInv
<1> SUFFICES ASSUME IngestInit PROVE IngestInv
  OBVIOUS
<1> USE DEF IngestInit, Nothing
<1>1. Types
  BY EmptySeq, IngestAssumption DEF Types, Removed
<1>2. Sound
  BY DEF Sound
<1>3. NotAhead
  BY DEF NotAhead, Subject
<1>4. Blamed
  BY DEF Blamed, LostForAReason
<1>5. NoneMissing
  <2>1. OnTheWay("device-manager") = 0 /\ OnTheWay("device") = 0
    BY EmptySeq DEF Subject, OnTheWay
  <2>2. /\ counts["changes"] = 0 /\ counts["configures"] = 0 /\ counts["readings"] = 0
        /\ counts["events"] = 0 /\ counts["refused"] = 0 /\ counts["failures"] = 0
    BY DEF Counters
  <2>3. 1..0 = {}
    OBVIOUS
  <2> QED
    BY ONLY <2>1, <2>2, <2>3 DEF NoneMissing
<1>6. Repeats
  <2>1. \A n : Times(n) = {} /\ Pending(n) = {}
    BY DEF Times, Pending
  <2>2. Cardinality({}) = 0 /\ IsFiniteSet({})
    BY FS_EmptySet
  <2>3. \A n : Given(n) = 0 + 0
    BY <2>1, <2>2, Zenon DEF Given
  <2> QED
    BY <2>2, <2>3 DEF Repeats, Counters, Waiting
<1>7. Alone /\ Ordered /\ Queued
  BY DEF Alone, Ordered, Queued, Subject
<1>8. Remembered
  BY DEF Remembered, RemovalAhead, Unwritten, Subject
<1>9. Versions
  BY DEF Versions, Current, Fresh, NoOlderTemplates, Subject
<1> QED
  BY <1>1, <1>2, <1>3, <1>4, <1>5, <1>6, <1>7, <1>8, <1>9 DEF IngestInv, Common, InTurn

-----------------------------------------------------------------------------
(* The device manager and the device *)

\* A message at the end of a subject.
LEMMA SendFacts ==
  ASSUME Types, NEW subject \in Subject, NEW e \in DeviceEvents, Send(subject, e)
  PROVE  /\ topics' \in [Subject -> Seq(DeviceEvents)]
         /\ \A s \in Subject : s # subject => topics'[s] = topics[s]
         /\ topics[subject] \in Seq(DeviceEvents)
         /\ Len(topics[subject]) \in Nat
         /\ topics'[subject] = Append(topics[subject], e)
         /\ DOMAIN topics[subject] = 1..Len(topics[subject])
         /\ DOMAIN topics'[subject] = 1..(Len(topics[subject]) + 1)
         /\ Len(topics'[subject]) = Len(topics[subject]) + 1
         /\ topics'[subject][Len(topics[subject]) + 1] = e
         /\ \A i \in DOMAIN topics[subject] : topics'[subject][i] = topics[subject][i]
<1>1. topics[subject] \in Seq(DeviceEvents)
  BY DEF Types
<1>2. /\ topics' = [topics EXCEPT ![subject] = Append(topics[subject], e)]
      /\ topics'[subject] = Append(topics[subject], e)
      /\ \A s \in Subject : s # subject => topics'[s] = topics[s]
  BY DEF Types, Send
<1>3. Append(topics[subject], e) \in Seq(DeviceEvents)
  BY <1>1, AppendFacts
<1>4. topics' \in [Subject -> Seq(DeviceEvents)]
  BY <1>2, <1>3 DEF Types
<1> QED
  BY <1>1, <1>2, <1>4, AppendFacts

\* What a step that leaves the executions and the queue alone keeps.
LEMMA QuietKeeps ==
  ASSUME Common, UNCHANGED <<queue, handling, started, failed>>,
         counts' \in [Counters -> Nat], counts'["events"] = counts["events"],
         counts'["channels"] >= counts["channels"], counts'["crashes"] = counts["crashes"],
         counts'["drops"] >= counts["drops"],
         channels' \subseteq 1..counts'["channels"], channels' \cap 1..counts["channels"] \subseteq channels,
         handling # {} \/ channels' # {} \/ attempts' > 0 => start' = "done",
         channels \subseteq channels' \/ counts'["drops"] = counts["drops"] + 1
  PROVE  Sound' /\ Repeats'
<1>1. Types /\ Sound /\ Repeats
  BY DEF Common
<1>2. /\ counts["channels"] \in Nat /\ counts'["channels"] \in Nat /\ counts["crashes"] \in Nat
      /\ counts["drops"] \in Nat /\ counts'["drops"] \in Nat /\ counts["events"] \in Nat
  BY <1>1, FaultsFacts DEF Counters
<1>3. \A x \in handling : /\ x.via \in 1..counts["channels"] /\ x.via \in 1..counts'["channels"]
                          /\ x.via \in channels' => x.via \in channels
  BY <1>1, <1>2 DEF Sound
<1>4. Sound'
  <2>1. \A x \in handling : /\ start' = "done" /\ PhaseSound(x) /\ Told(x)' /\ Holds(x)'
                            /\ x.id \in 1..counts'["events"] /\ x.via \in 1..counts'["channels"]
    BY <1>1, <1>3 DEF Sound, Told, Holds
  <2>2. \A x, y \in handling : x.id = y.id /\ x.via \in channels' /\ y.via \in channels' => x = y
    BY <1>1, <1>3 DEF Sound
  <2> QED
    BY <1>1, <2>1, <2>2 DEF Sound, PhaseSound
<1>5. Repeats'
  <2>1. \A n : Given(n)' = Given(n)
    BY DEF Given, Times, Pending
  <2>2. \A n \in Nat : Given(n) \in Nat
    <3> TAKE n \in Nat
    <3>1. Cardinality(Times(n)) \in Nat /\ Cardinality(Pending(n)) \in Nat
      BY <1>1, TimesNumber, PendingNumber
    <3> QED
      BY <3>1 DEF Given
  <2>3. \A n \in Nat : Given(n) <= 1 + counts'["crashes"] + counts'["drops"]
    BY <1>1, <1>2, <2>2 DEF Repeats
  <2>4. ASSUME NEW d \in Waiting' PROVE Given(d.id) <= counts'["crashes"] + counts'["drops"]
    <3>1. d \in queue /\ d.id \in Nat
      BY <1>1, Typed DEF Waiting
    <3>2. CASE channels \subseteq channels'
      <4>1. d \in Waiting
        BY <3>1, <3>2 DEF Waiting
      <4> QED
        BY <1>1, <1>2, <2>2, <3>1, <4>1 DEF Repeats
    <3>3. CASE counts'["drops"] = counts["drops"] + 1
      BY <1>1, <1>2, <2>2, <3>1, <3>3 DEF Repeats
    <3> QED
      BY <3>2, <3>3
  <2> QED
    BY <1>1, <2>1, <2>3, <2>4 DEF Repeats
<1> QED
  BY <1>4, <1>5

\* One message more on the way.
LEMMA OnTheWayFacts ==
  ASSUME Types
  PROVE  /\ \A s \in Subject : OnTheWay(s) \in Nat /\ OnTheWay(s) = Len(topics[s])
         /\ "device-manager" \in Subject /\ "device" \in Subject
         /\ \A s \in Subject : s \in {"device-manager", "device"}
BY Typed DEF OnTheWay, Subject

\* A message sent: a change, a message to the device, a reading.
LEMMA SendCommon ==
  ASSUME Common, NEW subject \in Subject, NEW e \in DeviceEvents, Send(subject, e),
         NEW what \in {"changes", "configures", "readings"}, Count({what}),
         device' \in Removed..MaxVersion, device # Removed,
         device' # Removed => device <= device' /\ e.version <= device',
         UNCHANGED <<queue, consumer, handling, cache, redis, start, snapshot, started, failed>>
  PROVE  Common'
<1>1. Types /\ Sound /\ NotAhead /\ Blamed /\ NoneMissing /\ Repeats
  BY DEF Common
<1>2. /\ counts' \in [Counters -> Nat] /\ counts'[what] = counts[what] + 1
      /\ \A w \in Counters : w # what => counts'[w] = counts[w]
      /\ {what} \in SUBSET Counters /\ {what} \cap FaultKinds = {}
  <2>1. {what} \in SUBSET Counters /\ {what} \cap FaultKinds = {}
    BY DEF Counters, FaultKinds
  <2> QED
    BY <1>1, <2>1, CountFacts
<1>3. Faults' = Faults /\ Faults \in Nat /\ \A w \in Counters : counts[w] \in Nat
  BY <1>1, <1>2, FaultsStay, FaultsFacts
<1>4. /\ topics' \in [Subject -> Seq(DeviceEvents)]
      /\ \A s \in Subject : s # subject => topics'[s] = topics[s]
      /\ Len(topics[subject]) \in Nat /\ DOMAIN topics[subject] = 1..Len(topics[subject])
      /\ DOMAIN topics'[subject] = 1..(Len(topics[subject]) + 1)
      /\ Len(topics'[subject]) = Len(topics[subject]) + 1
      /\ topics'[subject][Len(topics[subject]) + 1] = e
      /\ \A i \in DOMAIN topics[subject] : topics'[subject][i] = topics[subject][i]
  BY <1>1, SendFacts
<1>5. Types'
  BY <1>1, <1>2, <1>4 DEF Types, consumer
<1>6. Sound' /\ Repeats'
  <2>1. /\ counts'["events"] = counts["events"] /\ counts'["channels"] = counts["channels"]
        /\ counts'["crashes"] = counts["crashes"] /\ counts'["drops"] = counts["drops"]
        /\ counts["channels"] \in Nat /\ counts["drops"] \in Nat
    BY <1>2, <1>3 DEF Counters
  <2>2. channels \subseteq 1..counts["channels"] /\ (handling # {} \/ channels # {} \/ attempts > 0 => start = "done")
    BY <1>1 DEF Sound
  <2>3. channels' = channels /\ attempts' = attempts /\ start' = start /\ counts["channels"] >= counts["channels"]
        /\ counts["drops"] >= counts["drops"]
    BY <2>1 DEF consumer
  <2> QED
    BY <1>2, <2>1, <2>2, <2>3, QuietKeeps
<1>7. NotAhead'
  <2> SUFFICES ASSUME device' # Removed PROVE NotAhead'
    BY DEF NotAhead
  <2>1. /\ cache <= device /\ snapshot <= device /\ \A x \in handling : x.info <= device
        /\ \A d \in queue : d.event.version <= device
        /\ \A s \in Subject : \A i \in DOMAIN topics[s] : topics[s][i].version <= device
    BY <1>1 DEF NotAhead
  <2>2. /\ device \in Int /\ device' \in Int /\ device <= device' /\ e.version <= device'
        /\ cache \in Int /\ snapshot \in Int /\ \A x \in handling : x.info \in Int
        /\ \A d \in queue : d.event.version \in Int
        /\ \A s \in Subject : \A i \in DOMAIN topics[s] : topics[s][i].version \in Int
    BY <1>1, Typed
  <2>3. ASSUME NEW s \in Subject, NEW i \in DOMAIN topics'[s]
        PROVE  topics'[s][i] = e \/ (i \in DOMAIN topics[s] /\ topics'[s][i] = topics[s][i])
    <3>1. CASE s = subject
      <4>1. i \in 1..(Len(topics[subject]) + 1)
        BY <1>4, <2>3, <3>1
      <4>2. i = Len(topics[subject]) + 1 \/ i \in 1..Len(topics[subject])
        BY <1>4, <4>1
      <4> QED
        BY <1>4, <3>1, <4>2
    <3>2. CASE s # subject
      BY <1>4, <2>3, <3>2
    <3> QED
      BY <3>1, <3>2
  <2>4. ASSUME NEW s \in Subject, NEW i \in DOMAIN topics'[s]
        PROVE  topics'[s][i].version <= device'
    <3>1. CASE topics'[s][i] = e
      BY <2>2, <3>1
    <3>2. CASE i \in DOMAIN topics[s] /\ topics'[s][i] = topics[s][i]
      <4>1. topics[s][i].version <= device /\ topics[s][i].version \in Int
        BY <2>1, <2>2, <3>2
      <4> QED
        BY <2>2, <3>2, <4>1
    <3> QED
      BY <2>3, <3>1, <3>2
  <2>5. /\ cache <= device' /\ snapshot <= device' /\ \A x \in handling : x.info <= device'
        /\ \A d \in queue : d.event.version <= device'
    BY <2>1, <2>2
  <2> QED
    BY <2>4, <2>5 DEF NotAhead
<1>8. Blamed'
  BY <1>1, <1>3 DEF Blamed, LostForAReason
<1>9. NoneMissing'
  <2>1. /\ counts'["changes"] + counts'["configures"] + counts'["readings"] =
             counts["changes"] + counts["configures"] + counts["readings"] + 1
        /\ counts'["events"] = counts["events"] /\ counts'["refused"] = counts["refused"]
        /\ counts'["failures"] = counts["failures"]
    <3>1. /\ counts["changes"] \in Nat /\ counts["configures"] \in Nat /\ counts["readings"] \in Nat
          /\ "changes" \in Counters /\ "configures" \in Counters /\ "readings" \in Counters
          /\ "events" \in Counters /\ "refused" \in Counters /\ "failures" \in Counters
      BY <1>3 DEF Counters
    <3>2. CASE what = "changes"
      BY <1>2, <3>1, <3>2
    <3>3. CASE what = "configures"
      BY <1>2, <3>1, <3>3
    <3>4. CASE what = "readings"
      BY <1>2, <3>1, <3>4
    <3> QED
      BY <3>2, <3>3, <3>4
  <2>2. /\ OnTheWay("device-manager") \in Nat /\ OnTheWay("device") \in Nat
        /\ OnTheWay("device-manager")' + OnTheWay("device")' = OnTheWay("device-manager") + OnTheWay("device") + 1
    <3>1. \A s \in {"device-manager", "device"} :
            OnTheWay(s) \in Nat /\ OnTheWay(s)' = IF s = subject THEN OnTheWay(s) + 1 ELSE OnTheWay(s)
      BY <1>1, <1>4, OnTheWayFacts DEF OnTheWay
    <3> QED
      BY <3>1, OnTheWayFacts, <1>1
  <2>3. /\ counts["events"] \in Nat /\ counts["refused"] \in Nat
        /\ counts["changes"] \in Nat /\ counts["configures"] \in Nat /\ counts["readings"] \in Nat
    BY <1>3 DEF Counters
  <2>4. counts["changes"] + counts["configures"] + counts["readings"] =
          OnTheWay("device-manager") + OnTheWay("device") + counts["events"] + counts["refused"]
    BY <1>1 DEF NoneMissing
  <2>5. counts'["changes"] + counts'["configures"] + counts'["readings"] =
          OnTheWay("device-manager")' + OnTheWay("device")' + counts'["events"] + counts'["refused"]
    BY <2>1, <2>2, <2>3, <2>4
  <2> QED
    BY <1>1, <2>1, <2>5 DEF NoneMissing
<1> QED
  BY <1>5, <1>6, <1>7, <1>8, <1>9 DEF Common


LEMMA ChangeDeviceCommon == ASSUME Common, ChangeDevice PROVE Common'
<1>1. device \in Int /\ MaxVersion \in Nat /\ Removed = -1 /\ device \in Removed..MaxVersion
  BY Typed DEF Common, Types
<1>2. "device-manager" \in Subject
  BY DEF Subject
<1>3. Count({"changes"})
      /\ UNCHANGED <<queue, consumer, handling, cache, redis, start, snapshot, started, failed>>
  BY DEF ChangeDevice
<1>4. CASE /\ device \in 0..(MaxVersion - 1) /\ device' = device + 1
           /\ Send("device-manager", DeviceEvent(IF device = 0 THEN "create" ELSE "update", device + 1))
  <2> DEFINE e == DeviceEvent(IF device = 0 THEN "create" ELSE "update", device + 1)
  <2>1. e \in DeviceEvents /\ e.version = device + 1
    BY <1>1, <1>4 DEF DeviceEvent, DeviceEvents, Kinds, Change
  <2>2. Send("device-manager", e)
    BY <1>4
  <2> HIDE DEF e
  <2>3. /\ device' \in Removed..MaxVersion /\ device # Removed
        /\ device <= device' /\ e.version <= device'
    BY <1>1, <1>4, <2>1
  <2> QED
    BY <1>2, <1>3, <2>1, <2>2, <2>3, SendCommon
<1>5. CASE device > 0 /\ device' = Removed /\ Send("device-manager", DeviceEvent("remove", 0))
  <2> DEFINE e == DeviceEvent("remove", 0)
  <2>1. e \in DeviceEvents
    BY <1>1 DEF DeviceEvent, DeviceEvents, Kinds, Change
  <2>2. Send("device-manager", e)
    BY <1>5
  <2> HIDE DEF e
  <2>3. device' \in Removed..MaxVersion /\ device # Removed /\ device' = Removed
    BY <1>1, <1>5
  <2> QED
    BY <1>2, <1>3, <2>1, <2>2, <2>3, SendCommon
<1> QED
  BY <1>4, <1>5 DEF ChangeDevice

\* A message to the device, or from it.
LEMMA MessageCommon ==
  ASSUME Common, NEW subject \in Subject, NEW kind \in {"configure", "publish"},
         NEW what \in {"configures", "readings"}, device > 0, device' = device,
         Send(subject, DeviceEvent(kind, 0)), Count({what}),
         UNCHANGED <<queue, consumer, handling, cache, redis, start, snapshot, started, failed>>
  PROVE  Common'
<1> DEFINE e == DeviceEvent(kind, 0)
<1>1. device \in Int /\ MaxVersion \in Nat /\ Removed = -1 /\ device \in Removed..MaxVersion
  BY Typed DEF Common, Types
<1>2. e \in DeviceEvents /\ e.version = 0 /\ Send(subject, e)
  BY <1>1 DEF DeviceEvent, DeviceEvents, Kinds, Change
<1> HIDE DEF e
<1>3. /\ device' \in Removed..MaxVersion /\ device # Removed /\ device <= device' /\ e.version <= device'
  BY <1>1, <1>2
<1> QED
  BY <1>2, <1>3, SendCommon

LEMMA ConfigureCommon == ASSUME Common, Configure PROVE Common'
BY MessageCommon DEF Configure, Happens, Subject

LEMMA PublishReadingCommon == ASSUME Common, PublishReading PROVE Common'
BY MessageCommon DEF PublishReading, Happens, Subject

-----------------------------------------------------------------------------
(* init and _enqueueEvent *)

\* Before init is done there are no executions.
LEMMA PopulateReadsCommon ==
  ASSUME Common, PopulateReads
  PROVE  Common'
<1>1. Types /\ Sound /\ NotAhead /\ Blamed /\ NoneMissing /\ Repeats
  BY DEF Common
<1>2. /\ start = "reading" /\ start' = "writing" /\ snapshot' = device
      /\ UNCHANGED <<device, topics, queue, channels, attempts, handling, cache, redis, started, failed, counts>>
  BY DEF PopulateReads, ingress, output, consumer
<1>3. handling = {} /\ channels = {} /\ ~(attempts > 0)
  BY <1>1, <1>2 DEF Sound
<1>4. Types'
  BY <1>1, <1>2 DEF Types
<1>5. Sound' /\ Repeats'
  BY <1>1, <1>2, <1>3 DEF Sound, Repeats, Given, Times, Pending, Waiting
<1>6. NotAhead'
  BY <1>1, <1>2, Typed DEF NotAhead
<1>7. Blamed' /\ NoneMissing'
  BY <1>1, <1>2, <1>3 DEF Blamed, LostForAReason, Faults, NoneMissing, OnTheWay
<1> QED
  BY <1>4, <1>5, <1>6, <1>7 DEF Common

LEMMA PopulateWritesCommon ==
  ASSUME Common, PopulateWrites
  PROVE  Common'
<1>1. Types /\ Sound /\ NotAhead /\ Blamed /\ NoneMissing /\ Repeats
  BY DEF Common
<1> DEFINE what == IF redis = "ready" THEN {} ELSE {"blind"}
<1>2. /\ start = "writing" /\ start' = "done" /\ attempts' = 1
      /\ cache' \in IF snapshot > 0 THEN {snapshot, Nothing} ELSE {cache}
      /\ Count(what)
      /\ UNCHANGED <<device, topics, queue, channels, handling, redis, snapshot, started, failed>>
  BY DEF PopulateWrites, ingress, output
<1>3. handling = {} /\ channels = {}
  BY <1>1, <1>2 DEF Sound
<1>4. what \in SUBSET Counters /\ (redis = "ready" \/ redis = "down")
  BY <1>1 DEF Counters, Types
<1>5. /\ counts' \in [Counters -> Nat] /\ \A w \in Counters : w # "blind" => counts'[w] = counts[w]
      /\ \A w \in Counters : counts[w] \in Nat
  BY <1>1, <1>2, <1>4, CountFacts, FaultsFacts
<1>6. Faults \in Nat /\ (redis = "ready" => Faults' = Faults) /\ (redis = "down" => Faults' = Faults + 1)
  <2>1. redis = "ready" => what \cap FaultKinds = {}
    OBVIOUS
  <2>2. redis = "down" => what \cap FaultKinds = {"blind"} /\ "blind" \in FaultKinds
    BY DEF FaultKinds
  <2> HIDE DEF what
  <2> QED
    BY <1>1, <1>2, <1>4, <2>1, <2>2, FaultsFacts, FaultsStay, FaultsGrow
<1>7. cache' \in 0..MaxVersion /\ (device # Removed => cache' <= device)
  <2>1. snapshot > 0 => snapshot \in 0..MaxVersion
    BY <1>1, Typed DEF Types
  <2>2. device # Removed => cache <= device /\ snapshot <= device /\ 0 <= device
    BY <1>1, Typed DEF NotAhead, Types
  <2>3. 0 \in 0..MaxVersion /\ cache \in 0..MaxVersion
    BY <1>1, Typed DEF Types
  <2> QED
    BY <1>2, <2>1, <2>2, <2>3 DEF Nothing
<1>8. Types'
  BY <1>1, <1>2, <1>5, <1>7 DEF Types
<1>9. Sound' /\ Repeats'
  <2>1. /\ counts'["events"] = counts["events"] /\ counts'["channels"] = counts["channels"]
        /\ counts'["crashes"] = counts["crashes"] /\ counts'["drops"] = counts["drops"]
        /\ counts["channels"] \in Nat /\ counts["drops"] \in Nat
    BY <1>5 DEF Counters
  <2>2. channels' = {} /\ channels \subseteq channels' /\ channels' \subseteq 1..counts'["channels"]
        /\ counts["channels"] >= counts["channels"] /\ counts["drops"] >= counts["drops"]
    BY <1>2, <1>3, <2>1
  <2> QED
    BY <1>2, <1>5, <2>1, <2>2, QuietKeeps
<1>10. NotAhead'
  BY <1>1, <1>2, <1>7 DEF NotAhead
<1>11. Blamed'
  <2>1. redis = "down" => Faults' >= 1
    BY <1>4, <1>6
  <2>2. \A f \in failed : Faults >= 1 => Faults' >= 1
    BY <1>4, <1>6
  <2>3. \A f \in failed : Faults >= 2 => Faults' >= 2
    BY <1>6, <1>4
  <2> QED
    BY <1>1, <1>2, <1>3, <2>1, <2>2, <2>3 DEF Blamed, LostForAReason
<1>12. NoneMissing'
  <2>1. /\ counts'["changes"] = counts["changes"] /\ counts'["configures"] = counts["configures"]
        /\ counts'["readings"] = counts["readings"] /\ counts'["events"] = counts["events"]
        /\ counts'["refused"] = counts["refused"] /\ counts'["failures"] = counts["failures"]
    BY <1>5 DEF Counters
  <2> QED
    BY <1>1, <1>2, <2>1 DEF NoneMissing, OnTheWay
<1> QED
  BY <1>8, <1>9, <1>10, <1>11, <1>12 DEF Common

\* The first message of a subject is taken: n of the device manager, k of the devices.
TakenFrom(subject, n, k) ==
  LET T == topics["device-manager"]
      P == topics["device"]
  IN  /\ topics' \in [Subject -> Seq(DeviceEvents)]
      /\ Head(topics[subject]) \in DeviceEvents
      /\ Head(topics[subject]) = topics[subject][1] /\ 1 \in DOMAIN topics[subject]
      /\ Len(T') = Len(T) - n /\ Len(T) \in Nat
      /\ DOMAIN T = 1..Len(T) /\ DOMAIN T' = 1..(Len(T) - n)
      /\ \A i \in DOMAIN T' : i + n \in DOMAIN T /\ T'[i] = T[i + n]
      /\ \A i \in DOMAIN P' : i + k \in DOMAIN P /\ P'[i] = P[i + k]

LEMMA TakeFacts ==
  ASSUME Types, NEW subject \in Subject, topics[subject] # <<>>,
         topics' = [topics EXCEPT ![subject] = Tail(@)]
  PROVE  /\ subject = "device-manager" => TakenFrom(subject, 1, 0)
         /\ subject = "device" => TakenFrom(subject, 0, 1)
<1> DEFINE s == topics[subject]
<1>1. s \in Seq(DeviceEvents) /\ s # <<>>
  BY DEF Types
<1> HIDE DEF s
<1>2. /\ Tail(s) \in Seq(DeviceEvents) /\ Head(s) \in DeviceEvents /\ Head(s) = s[1] /\ 1 \in DOMAIN s
      /\ Len(Tail(s)) = Len(s) - 1 /\ Len(s) \in Nat \ {0}
      /\ \A i \in DOMAIN Tail(s) : i + 1 \in DOMAIN s /\ Tail(s)[i] = s[i + 1]
      /\ DOMAIN s = 1..Len(s) /\ DOMAIN Tail(s) = 1..(Len(s) - 1)
  BY ONLY <1>1, TailFacts
<1>3. /\ topics'[subject] = Tail(s)
      /\ \A r \in Subject : r # subject => topics'[r] = topics[r]
      /\ topics' \in [Subject -> Seq(DeviceEvents)]
  BY <1>2 DEF Types, s
<1>4. \A r \in Subject : /\ DOMAIN topics[r] = 1..Len(topics[r]) /\ Len(topics[r]) \in Nat
                         /\ \A i \in DOMAIN topics[r] : i + 0 = i
  BY Typed
<1>5. CASE subject = "device-manager"
  BY <1>2, <1>3, <1>4, <1>5 DEF Subject, TakenFrom, s
<1>6. CASE subject = "device"
  BY <1>2, <1>3, <1>4, <1>6 DEF Subject, TakenFrom, s
<1> QED
  BY <1>5, <1>6 DEF Subject

\* What is left on the way, and what is taken.
LEMMA TakeCommon ==
  ASSUME Types, NotAhead, NEW subject \in Subject, topics[subject] # <<>>,
         topics' = [topics EXCEPT ![subject] = Tail(@)], device' = device
  PROVE  /\ topics' \in [Subject -> Seq(DeviceEvents)]
         /\ Head(topics[subject]) \in DeviceEvents
         /\ device # Removed => Head(topics[subject]).version <= device
         /\ device # Removed => \A r \in Subject : \A i \in DOMAIN topics'[r] : topics'[r][i].version <= device
         /\ OnTheWay("device-manager")' + OnTheWay("device")' + 1 =
              OnTheWay("device-manager") + OnTheWay("device")
         /\ OnTheWay("device-manager") \in Nat /\ OnTheWay("device") \in Nat
         /\ OnTheWay("device-manager")' \in Nat /\ OnTheWay("device")' \in Nat
<1> DEFINE s == topics[subject]
<1>1. s \in Seq(DeviceEvents) /\ s # <<>>
  BY DEF Types
<1> HIDE DEF s
<1>2. /\ Tail(s) \in Seq(DeviceEvents) /\ Head(s) \in DeviceEvents /\ Head(s) = s[1] /\ 1 \in DOMAIN s
      /\ Len(Tail(s)) = Len(s) - 1 /\ Len(s) \in Nat \ {0}
      /\ \A i \in DOMAIN Tail(s) : i + 1 \in DOMAIN s /\ Tail(s)[i] = s[i + 1]
  BY ONLY <1>1, TailFacts
<1>3. /\ topics'[subject] = Tail(s)
      /\ \A r \in Subject : r # subject => topics'[r] = topics[r]
      /\ topics' \in [Subject -> Seq(DeviceEvents)]
  BY <1>2 DEF Types, s
<1>4. \A r \in Subject : /\ OnTheWay(r) \in Nat /\ OnTheWay(r)' \in Nat
                         /\ OnTheWay(r) = IF r = subject THEN OnTheWay(r)' + 1 ELSE OnTheWay(r)'
  BY <1>2, <1>3, OnTheWayFacts DEF OnTheWay, s
<1>5. /\ OnTheWay("device-manager")' + OnTheWay("device")' + 1 =
              OnTheWay("device-manager") + OnTheWay("device")
      /\ OnTheWay("device-manager") \in Nat /\ OnTheWay("device") \in Nat
      /\ OnTheWay("device-manager")' \in Nat /\ OnTheWay("device")' \in Nat
  <2>1. "device-manager" \in Subject /\ "device" \in Subject /\ subject \in {"device-manager", "device"}
    BY DEF Subject
  <2>2. CASE subject = "device-manager"
    BY <1>4, <2>1, <2>2
  <2>3. CASE subject = "device"
    BY <1>4, <2>1, <2>3
  <2> QED
    BY <2>1, <2>2, <2>3
<1>6. ASSUME device # Removed
      PROVE  /\ Head(topics[subject]).version <= device
             /\ \A r \in Subject : \A i \in DOMAIN topics'[r] : topics'[r][i].version <= device
  <2>1. \A r \in Subject : \A i \in DOMAIN topics[r] : topics[r][i].version <= device
    BY <1>6 DEF NotAhead
  <2>2. Head(topics[subject]).version <= device
    BY <1>2, <2>1 DEF s
  <2>3. ASSUME NEW r \in Subject, NEW i \in DOMAIN topics'[r] PROVE topics'[r][i].version <= device
    <3>1. CASE r = subject
      <4>1. i \in DOMAIN Tail(s) /\ topics'[r][i] = Tail(s)[i]
        BY <1>3, <2>3, <3>1
      <4>2. i + 1 \in DOMAIN topics[subject] /\ topics'[r][i] = topics[subject][i + 1]
        BY <1>2, <4>1 DEF s
      <4> QED
        BY <2>1, <4>2
    <3>2. CASE r # subject
      BY <1>3, <2>1, <2>3, <3>2
    <3> QED
      BY <3>1, <3>2
  <2> QED
    BY <2>2, <2>3
<1> QED
  BY <1>2, <1>3, <1>5, <1>6 DEF s

\* An event more in the queue.
LEMMA EnqueueCommon ==
  ASSUME Common, NEW subject \in Subject, Enqueue(subject)
  PROVE  Common'
<1> DEFINE id == counts["events"] + 1
           new == [id |-> id, event |-> Head(topics[subject])]
<1>1. Types /\ Sound /\ NotAhead /\ Blamed /\ NoneMissing /\ Repeats
  BY DEF Common
<1>2. /\ start = "done" /\ topics[subject] # <<>> /\ topics' = [topics EXCEPT ![subject] = Tail(@)]
      /\ Count({"events"}) /\ queue' = queue \cup {new}
      /\ UNCHANGED <<device, channels, attempts, handling, cache, redis, start, snapshot, started, failed>>
  BY DEF Enqueue, output, consumer
<1>3. /\ counts' \in [Counters -> Nat] /\ counts'["events"] = id
      /\ \A w \in Counters : w # "events" => counts'[w] = counts[w]
      /\ Faults' = Faults /\ \A w \in Counters : counts[w] \in Nat
  <2>1. {"events"} \in SUBSET Counters /\ {"events"} \cap FaultKinds = {} /\ "events" \in Counters
    BY DEF Counters, FaultKinds
  <2> QED
    BY <1>1, <1>2, <2>1, CountFacts, FaultsFacts, FaultsStay
<1>4. /\ topics' \in [Subject -> Seq(DeviceEvents)] /\ Head(topics[subject]) \in DeviceEvents
      /\ device # Removed => Head(topics[subject]).version <= device
      /\ device # Removed => \A r \in Subject : \A i \in DOMAIN topics'[r] : topics'[r][i].version <= device
      /\ OnTheWay("device-manager")' + OnTheWay("device")' + 1 =
              OnTheWay("device-manager") + OnTheWay("device")
      /\ OnTheWay("device-manager") \in Nat /\ OnTheWay("device") \in Nat
      /\ OnTheWay("device-manager")' \in Nat /\ OnTheWay("device")' \in Nat
  BY <1>1, <1>2, TakeCommon
<1>5. /\ counts'["channels"] = counts["channels"] /\ counts'["crashes"] = counts["crashes"]
      /\ counts'["drops"] = counts["drops"] /\ counts["events"] \in Nat
      /\ counts["crashes"] \in Nat /\ counts["drops"] \in Nat
  BY <1>3 DEF Counters
<1>6. /\ id \in Nat /\ new.id = id /\ new.event = Head(topics[subject])
      /\ new \in [id : Nat, event : DeviceEvents]
      /\ 1..counts["events"] \subseteq 1..id /\ id \in 1..id /\ id \notin 1..counts["events"]
  BY <1>4, <1>5
<1> HIDE DEF id, new
<1>7. Types'
  BY <1>1, <1>2, <1>3, <1>4, <1>6 DEF Types
<1>8. Sound'
  <2>1. \A d, o \in queue' : d.id = o.id => d = o
    BY <1>1, <1>2, <1>6 DEF Sound
  <2>2. \A d \in queue' : d.id \in 1..id
    BY <1>1, <1>2, <1>6 DEF Sound
  <2>3. \A i \in DOMAIN started : started[i].id <= id
    BY <1>1, <1>5, Typed DEF Sound, id
  <2>4. \A x \in handling : /\ start = "done" /\ PhaseSound(x) /\ Told(x)' /\ Holds(x)'
                            /\ x.id \in 1..id /\ x.via \in 1..counts["channels"]
    BY <1>1, <1>2, <1>6 DEF Sound, Told, Holds
  <2> QED
    BY <1>1, <1>2, <1>3, <1>5, <2>1, <2>2, <2>3, <2>4 DEF Sound, PhaseSound
<1>9. NotAhead'
  BY <1>1, <1>2, <1>4, <1>6 DEF NotAhead
<1>10. Blamed'
  BY <1>1, <1>2, <1>3 DEF Blamed, LostForAReason
<1>11. NoneMissing'
  <2>1. /\ counts'["changes"] = counts["changes"] /\ counts'["configures"] = counts["configures"]
        /\ counts'["readings"] = counts["readings"] /\ counts'["events"] = counts["events"] + 1
        /\ counts'["refused"] = counts["refused"] /\ counts'["failures"] = counts["failures"]
        /\ counts["changes"] \in Nat /\ counts["configures"] \in Nat /\ counts["readings"] \in Nat
        /\ counts["refused"] \in Nat
    BY <1>3 DEF Counters, id
  <2>2. counts["changes"] + counts["configures"] + counts["readings"] =
          OnTheWay("device-manager") + OnTheWay("device") + counts["events"] + counts["refused"]
    BY <1>1 DEF NoneMissing
  <2>3. counts'["changes"] + counts'["configures"] + counts'["readings"] =
          OnTheWay("device-manager")' + OnTheWay("device")' + counts'["events"] + counts'["refused"]
    BY <1>4, <1>5, <2>1, <2>2
  <2>4. ASSUME NEW n \in 1..id
        PROVE  \/ \E d \in queue' : d.id = n
               \/ \E i \in DOMAIN started : started[i].id = n
               \/ \E f \in failed : f.id = n
    <3>1. CASE n = id
      BY <1>2, <1>6, <3>1
    <3>2. CASE n # id
      <4>1. n \in 1..counts["events"]
        BY <1>5, <3>2 DEF id
      <4> QED
        BY <1>1, <1>2, <4>1 DEF NoneMissing
    <3> QED
      BY <3>1, <3>2
  <2> QED
    BY <1>1, <1>2, <1>3, <2>1, <2>3, <2>4 DEF NoneMissing
<1>12. Repeats'
  <2>1. \A n : Given(n)' = Given(n)
    BY <1>2 DEF Given, Times, Pending
  <2>2. Given(id) = 0
    <3>1. Times(id) = {} /\ Pending(id) = {}
      BY <1>1, <1>5, <1>6, Typed DEF Times, Pending, Sound, id
    <3> QED
      BY <3>1, FS_EmptySet DEF Given
  <2>3. \A d \in Waiting' : d = new \/ d \in Waiting
    BY <1>2 DEF Waiting
  <2>4. \A d \in Waiting' : Given(d.id) <= counts["crashes"] + counts["drops"]
    BY <1>1, <1>5, <1>6, <2>2, <2>3 DEF Repeats
  <2> QED
    BY <1>1, <1>2, <1>5, <2>1, <2>4 DEF Repeats
<1> QED
  BY <1>7, <1>8, <1>9, <1>10, <1>11, <1>12 DEF Common

\* A message that the producer refuses.
LEMMA EnqueueFailedCommon ==
  ASSUME Common, NEW subject \in Subject, EnqueueFailed(subject)
  PROVE  Common'
<1>1. Types /\ Sound /\ NotAhead /\ Blamed /\ NoneMissing /\ Repeats
  BY DEF Common
<1>2. /\ start = "done" /\ topics[subject] # <<>> /\ topics' = [topics EXCEPT ![subject] = Tail(@)]
      /\ Count({"failures", "refused"})
      /\ UNCHANGED <<device, queue, channels, attempts, handling, cache, redis, start, snapshot, started, failed>>
  BY DEF EnqueueFailed, output, consumer
<1>3. /\ counts' \in [Counters -> Nat]
      /\ counts'["failures"] = counts["failures"] + 1 /\ counts'["refused"] = counts["refused"] + 1
      /\ \A w \in Counters : w \notin {"failures", "refused"} => counts'[w] = counts[w]
      /\ Faults' = Faults + 1 /\ Faults \in Nat /\ \A w \in Counters : counts[w] \in Nat
  <2>1. /\ {"failures", "refused"} \in SUBSET Counters /\ "failures" \in FaultKinds
        /\ {"failures", "refused"} \cap FaultKinds = {"failures"}
    BY DEF Counters, FaultKinds
  <2> QED
    BY <1>1, <1>2, <2>1, CountFacts, FaultsFacts, FaultsGrow
<1>4. /\ topics' \in [Subject -> Seq(DeviceEvents)]
      /\ device # Removed => \A r \in Subject : \A i \in DOMAIN topics'[r] : topics'[r][i].version <= device
      /\ OnTheWay("device-manager")' + OnTheWay("device")' + 1 =
              OnTheWay("device-manager") + OnTheWay("device")
      /\ OnTheWay("device-manager") \in Nat /\ OnTheWay("device") \in Nat
      /\ OnTheWay("device-manager")' \in Nat /\ OnTheWay("device")' \in Nat
  BY <1>1, <1>2, TakeCommon
<1>5. Types'
  BY <1>1, <1>2, <1>3, <1>4 DEF Types
<1>6. Sound' /\ Repeats'
  <2>1. /\ counts'["events"] = counts["events"] /\ counts'["channels"] = counts["channels"]
        /\ counts'["crashes"] = counts["crashes"] /\ counts'["drops"] = counts["drops"]
        /\ counts["channels"] >= counts["channels"] /\ counts["drops"] >= counts["drops"]
    BY <1>3 DEF Counters
  <2>2. channels \subseteq 1..counts["channels"] /\ (handling # {} \/ channels # {} \/ attempts > 0 => start = "done")
    BY <1>1 DEF Sound
  <2> QED
    BY <1>2, <1>3, <2>1, <2>2, QuietKeeps
<1>7. NotAhead'
  BY <1>1, <1>2, <1>4 DEF NotAhead
<1>8. Blamed'
  <2>1. (Faults >= 1 => Faults' >= 1) /\ (Faults >= 2 => Faults' >= 2)
    BY <1>3
  <2> QED
    BY <1>1, <1>2, <2>1 DEF Blamed, LostForAReason
<1>9. NoneMissing'
  <2>1. /\ counts'["changes"] = counts["changes"] /\ counts'["configures"] = counts["configures"]
        /\ counts'["readings"] = counts["readings"] /\ counts'["events"] = counts["events"]
        /\ counts["changes"] \in Nat /\ counts["configures"] \in Nat /\ counts["readings"] \in Nat
        /\ counts["refused"] \in Nat /\ counts["events"] \in Nat /\ counts["failures"] \in Nat
    BY <1>3 DEF Counters
  <2>2. /\ counts["changes"] + counts["configures"] + counts["readings"] =
             OnTheWay("device-manager") + OnTheWay("device") + counts["events"] + counts["refused"]
        /\ counts["refused"] <= counts["failures"]
    BY <1>1 DEF NoneMissing
  <2>3. /\ counts'["changes"] + counts'["configures"] + counts'["readings"] =
             OnTheWay("device-manager")' + OnTheWay("device")' + counts'["events"] + counts'["refused"]
        /\ counts'["refused"] <= counts'["failures"]
    <3>1. counts'["refused"] <= counts'["failures"] /\ counts'["refused"] = counts["refused"] + 1
      BY <1>3, <2>1, <2>2
    <3>2. counts'["changes"] + counts'["configures"] + counts'["readings"] =
             OnTheWay("device-manager")' + OnTheWay("device")' + counts'["events"] + counts'["refused"]
      <4>1. /\ OnTheWay("device-manager") \in Nat /\ OnTheWay("device") \in Nat
            /\ OnTheWay("device-manager")' \in Nat /\ OnTheWay("device")' \in Nat
            /\ OnTheWay("device-manager")' + OnTheWay("device")' + 1 =
                 OnTheWay("device-manager") + OnTheWay("device")
        BY <1>4
      <4> DEFINE c == counts["changes"] + counts["configures"] + counts["readings"]
      <4>2. c = OnTheWay("device-manager") + OnTheWay("device") + counts["events"] + counts["refused"]
            /\ counts["events"] \in Nat /\ counts["refused"] \in Nat
        BY <2>1, <2>2
      <4> HIDE DEF c
      <4>3. c = OnTheWay("device-manager")' + OnTheWay("device")' + counts["events"] + (counts["refused"] + 1)
        BY ONLY <4>1, <4>2
      <4> QED
        BY <2>1, <3>1, <4>3 DEF c
    <3> QED
      BY <3>1, <3>2
  <2> QED
    BY <1>1, <1>2, <2>1, <2>3 DEF NoneMissing
<1> QED
  BY <1>5, <1>6, <1>7, <1>8, <1>9 DEF Common

-----------------------------------------------------------------------------
(* preProcessEvent *)

\* An execution at its beginning.
LEMMA TakenFacts ==
  ASSUME Types, NEW d \in queue, NEW k \in channels, NEW y, y = Taken(d, k)
  PROVE  /\ y \in Executions /\ PhaseSound(y)
         /\ y.id = d.id /\ y.event = d.event /\ y.via = k /\ y.info = d.event.version
         /\ y.lookup = (redis = "ready")
         /\ y.phase = IF d.event.kind \in Change THEN "setting"
                      ELSE IF redis = "ready" THEN "getting" ELSE "asking"
<1>1. /\ d.id \in Nat /\ d.event \in DeviceEvents /\ d.event.version \in 0..MaxVersion
      /\ k \in Nat /\ redis \in {"ready", "down"}
  BY DEF Types, DeviceEvents
<1>2. /\ y.id = d.id /\ y.event = d.event /\ y.via = k /\ y.info = d.event.version
      /\ y.lookup = (redis = "ready")
      /\ y.phase = IF d.event.kind \in Change THEN "setting"
                   ELSE IF redis = "ready" THEN "getting" ELSE "asking"
  BY DEF Taken
<1>3. y \in Executions
  <2>1. (redis = "ready") \in BOOLEAN
    OBVIOUS
  <2>2. (IF d.event.kind \in Change THEN "setting" ELSE IF redis = "ready" THEN "getting" ELSE "asking") \in Phases
    BY DEF Phases
  <2> QED
    BY <1>1, <2>1, <2>2, Zenon DEF Taken, Executions
<1> QED
  BY <1>2, <1>3 DEF PhaseSound

\* The event waits for its first execution on a channel that lives.
LEMMA DeliverCommon ==
  ASSUME Common, Deliver
  PROVE  Common'
<1>1. Types /\ Sound /\ NotAhead /\ Blamed /\ NoneMissing /\ Repeats
  BY DEF Common
<1>2. UNCHANGED <<device, topics, queue, channels, attempts, cache, redis, start, snapshot, started, failed, counts>>
  BY DEF Deliver, ingress, output, consumer
<1>3. PICK k \in channels, d \in Waiting :
         Prefetch(k) /\ handling' = handling \cup {Taken(d, k)}
  BY DEF Deliver
<1>4. d \in queue /\ \A x \in handling : x.via \in channels => x.id # d.id
  BY DEF Waiting
<1>5. d.id \in Nat /\ redis \in {"ready", "down"}
  BY <1>1, <1>4 DEF Types
<1>6. PICK y : /\ y = Taken(d, k) /\ y \in Executions /\ handling' = handling \cup {y}
               /\ y.id = d.id /\ y.event = d.event /\ y.via = k /\ y.info = d.event.version
               /\ y.lookup = (redis = "ready")
               /\ y.phase = IF d.event.kind \in Change THEN "setting"
                            ELSE IF redis = "ready" THEN "getting" ELSE "asking"
  BY <1>1, <1>3, <1>4, TakenFacts
<1>7. PhaseSound(y) /\ y.phase \notin {"filling", "handled", "given up", "deleting", "handling"}
  BY <1>1, <1>4, <1>6, TakenFacts
<1>8. start = "done"
  BY <1>1 DEF Sound
<1>9. Types'
  BY <1>1, <1>2, <1>6 DEF Types
<1>10. Sound'
  <2>1. \A x \in handling' : /\ start = "done" /\ PhaseSound(x) /\ Told(x)' /\ Holds(x)'
                             /\ x.id \in 1..counts["events"] /\ x.via \in 1..counts["channels"]
    <3>1. ASSUME NEW x \in handling
          PROVE  /\ PhaseSound(x) /\ Told(x)' /\ Holds(x)'
                 /\ x.id \in 1..counts["events"] /\ x.via \in 1..counts["channels"]
      BY <1>1, <1>2 DEF Sound, Told, Holds
    <3>2. /\ Told(y)' /\ Holds(y)' /\ y.id \in 1..counts["events"] /\ y.via \in 1..counts["channels"]
      BY <1>1, <1>2, <1>4, <1>6, <1>7 DEF Sound, Told, Holds
    <3> QED
      BY <1>6, <1>7, <1>8, <3>1, <3>2
  <2>2. \A x, z \in handling' : x.via = z.via => x = z
    BY <1>1, <1>3, <1>6 DEF Sound, Prefetch
  <2>3. \A x, z \in handling' : x.id = z.id /\ x.via \in channels /\ z.via \in channels => x = z
    BY <1>1, <1>4, <1>6 DEF Sound
  <2> QED
    BY <1>1, <1>2, <2>1, <2>2, <2>3 DEF Sound, PhaseSound
<1>11. NotAhead'
  BY <1>1, <1>2, <1>4, <1>6 DEF NotAhead
<1>12. Blamed'
  <2>1. ~y.lookup => Faults >= 1
    BY <1>1, <1>5, <1>6, <1>8 DEF Blamed
  <2>2. Faults' = Faults
    BY <1>2 DEF Faults
  <2> QED
    BY <1>1, <1>2, <1>6, <1>7, <2>1, <2>2 DEF Blamed, LostForAReason
<1>13. NoneMissing'
  BY <1>1, <1>2 DEF NoneMissing, OnTheWay
<1>14. Repeats'
  <2>1. IsFiniteSet(handling')
    BY <1>1, <1>6, FS_AddElement DEF Repeats
  <2>2. ASSUME NEW n, n # d.id PROVE Given(n)' = Given(n)
    BY <1>2, <1>6, <2>2 DEF Given, Times, Pending
  <2>3. Given(d.id)' <= Given(d.id) + 1 /\ Given(d.id) \in Nat /\ Given(d.id)' \in Nat
    <3>1. Times(d.id)' = Times(d.id) /\ Pending(d.id)' = Pending(d.id) \cup {y}
      BY <1>2, <1>6, <1>7 DEF Times, Pending, Over
    <3>2. Cardinality(Times(d.id)) \in Nat /\ Cardinality(Pending(d.id)) \in Nat /\ IsFiniteSet(Pending(d.id))
      BY <1>1, TimesNumber, PendingNumber
    <3>3. Cardinality(Pending(d.id) \cup {y}) \in {Cardinality(Pending(d.id)), Cardinality(Pending(d.id)) + 1}
      BY <3>2, FS_AddElement
    <3> QED
      BY <3>1, <3>2, <3>3 DEF Given
  <2>4. Given(d.id) <= counts["crashes"] + counts["drops"]
    BY <1>1 DEF Repeats
  <2>5. counts["crashes"] \in Nat /\ counts["drops"] \in Nat
    BY <1>1, FaultsFacts DEF Counters
  <2>6. \A n \in Nat : Given(n)' <= 1 + counts["crashes"] + counts["drops"]
    BY <1>1, <2>2, <2>3, <2>4, <2>5 DEF Repeats
  <2>7. \A o \in Waiting' : o \in Waiting /\ o.id # d.id
    BY <1>2, <1>3, <1>6 DEF Waiting
  <2> QED
    BY <1>1, <1>2, <2>1, <2>2, <2>6, <2>7 DEF Repeats
<1> QED
  BY <1>9, <1>10, <1>11, <1>12, <1>13, <1>14 DEF Common

\* Executions that go on, each with its event and its channel.
GoesOn(x, y) ==
  /\ y \in Executions /\ y.id = x.id /\ y.event = x.event /\ y.via = x.via
  /\ PhaseSound(y)
  /\ y.phase # "handled" \/ y = x
  /\ x.phase \in Over => y.phase \in Over

LEMMA GoOnKeeps ==
  ASSUME Common, NEW F \in [handling -> Executions], handling' = {F[x] : x \in handling},
         \A x \in handling : /\ GoesOn(x, F[x])
                             /\ F[x].phase = "given up" => \E f \in failed' : f.id = x.id,
         UNCHANGED <<queue, channels, attempts, start, started>>,
         counts' \in [Counters -> Nat], counts'["events"] = counts["events"],
         counts'["channels"] = counts["channels"], counts'["crashes"] = counts["crashes"],
         counts'["drops"] = counts["drops"]
  PROVE  Sound' /\ Repeats'
<1>1. Types /\ Sound /\ Repeats
  BY DEF Common
<1>2. \A x \in handling : /\ F[x] \in Executions /\ F[x].id = x.id /\ F[x].event = x.event /\ F[x].via = x.via
                          /\ PhaseSound(F[x]) /\ (F[x].phase # "handled" \/ F[x] = x)
                          /\ x.phase \in Over => F[x].phase \in Over
  BY DEF GoesOn
<1>3. Sound'
  <2>1. ASSUME NEW x \in handling
        PROVE  /\ start = "done" /\ PhaseSound(F[x]) /\ Told(F[x])' /\ Holds(F[x])'
               /\ F[x].id \in 1..counts["events"] /\ F[x].via \in 1..counts["channels"]
    <3>1. start = "done" /\ Told(x) /\ Holds(x) /\ x.id \in 1..counts["events"] /\ x.via \in 1..counts["channels"]
      BY <1>1 DEF Sound
    <3>2. Told(F[x])'
      <4>1. F[x].phase = "handled" => \E i \in DOMAIN started : started[i].id = x.id
        BY <1>2, <3>1 DEF Told
      <4>2. F[x].phase = "given up" => \E f \in failed' : f.id = x.id
        OBVIOUS
      <4> QED
        BY <1>2, <4>1, <4>2 DEF Told
    <3>3. Holds(F[x])'
      BY <1>2, <3>1 DEF Holds
    <3> QED
      BY <1>2, <3>1, <3>2, <3>3
  <2>2. \A x, y \in handling : x.via = y.via => x = y
    BY <1>1 DEF Sound
  <2>3. \A x, y \in handling : x.id = y.id /\ x.via \in channels /\ y.via \in channels => x = y
    BY <1>1 DEF Sound
  <2>4. \A y \in handling' : /\ start = "done" /\ PhaseSound(y) /\ Told(y)' /\ Holds(y)'
                             /\ y.id \in 1..counts["events"] /\ y.via \in 1..counts["channels"]
    BY <2>1
  <2>5. ASSUME NEW y \in handling', NEW z \in handling'
        PROVE  /\ y.via = z.via => y = z
               /\ y.id = z.id /\ y.via \in channels /\ z.via \in channels => y = z
    <3>1. PICK a \in handling, b \in handling : y = F[a] /\ z = F[b]
      OBVIOUS
    <3>2. y.via = a.via /\ z.via = b.via /\ y.id = a.id /\ z.id = b.id
      BY <1>2, <3>1
    <3> QED
      BY <2>2, <2>3, <3>1, <3>2
  <2> QED
    BY <1>1, <2>4, <2>5 DEF Sound, PhaseSound
<1>4. IsFiniteSet(handling')
  <2>1. F \in Surjection(handling, handling')
    BY DEF Surjection
  <2> QED
    BY <1>1, <2>1, FS_Surjection DEF Repeats
<1>5. ASSUME NEW n PROVE Given(n)' <= Given(n) /\ Given(n) \in Nat /\ Given(n)' \in Nat
  <2> DEFINE S == {x \in Pending(n) : F[x].phase \notin Over}
             f == [x \in S |-> F[x]]
  <2>1. IsFiniteSet(Pending(n)) /\ Cardinality(Pending(n)) \in Nat /\ Cardinality(Times(n)) \in Nat
    BY <1>1, TimesNumber, PendingNumber
  <2>2. S \subseteq Pending(n) /\ S \subseteq handling
    BY DEF Pending
  <2>3. ASSUME NEW y \in Pending(n)' PROVE \E x \in S : y = F[x]
    <3>1. PICK x \in handling : y = F[x] /\ y.id = n /\ y.phase \notin Over
      BY DEF Pending
    <3> QED
      BY <1>2, <3>1 DEF Pending
  <2>4. ASSUME NEW x \in S PROVE F[x] \in Pending(n)'
    BY <1>2 DEF Pending
  <2>5. f \in Surjection(S, Pending(n)')
    BY <2>3, <2>4 DEF Surjection
  <2> HIDE DEF f, S
  <2>6. IsFiniteSet(S) /\ Cardinality(S) <= Cardinality(Pending(n)) /\ Cardinality(S) \in Nat
    BY <2>1, <2>2, FS_Subset, FS_CardinalityType
  <2>7. Cardinality(Pending(n)') <= Cardinality(S) /\ Cardinality(Pending(n)') \in Nat
    BY <2>5, <2>6, FS_Surjection, FS_CardinalityType
  <2>8. Times(n)' = Times(n)
    BY DEF Times
  <2> DEFINE t == Cardinality(Times(n))
             p == Cardinality(Pending(n))
             q == Cardinality(Pending(n)')
  <2>9. Given(n) = t + p /\ Given(n)' = t + q
    BY <2>8, Zenon DEF Given
  <2>10. t \in Nat /\ p \in Nat /\ q \in Nat /\ q <= p
    <3> DEFINE r == Cardinality(S)
    <3>1. r <= p /\ q <= r /\ r \in Nat /\ p \in Nat /\ q \in Nat /\ t \in Nat
      BY <2>1, <2>6, <2>7
    <3> HIDE DEF r, t, p, q
    <3> QED
      BY ONLY <3>1
  <2> HIDE DEF t, p, q
  <2> QED
    BY ONLY <2>9, <2>10
<1>6. \A d \in Waiting' : d \in Waiting /\ d.id \in Nat
  <2>1. \A d \in queue : d.id \in Nat
    BY <1>1, Typed
  <2>2. ASSUME NEW d \in Waiting', NEW x \in handling, x.via \in channels
        PROVE  x.id # d.id
    <3>1. F[x] \in handling' /\ F[x].via \in channels' /\ F[x].id = x.id
      BY <1>2, <2>2
    <3> QED
      BY <3>1 DEF Waiting
  <2> QED
    BY <2>1, <2>2 DEF Waiting
<1>7. counts["crashes"] \in Nat /\ counts["drops"] \in Nat
  BY <1>1, FaultsFacts DEF Counters
<1>8. Repeats'
  <2> DEFINE m == counts["crashes"] + counts["drops"]
  <2>0. m \in Nat /\ 1 + m = 1 + counts["crashes"] + counts["drops"]
    BY ONLY <1>7
  <2>1. ASSUME NEW n \in Nat PROVE Given(n)' <= 1 + counts["crashes"] + counts["drops"]
    <3>1. Given(n) <= 1 + m
      BY <1>1, <2>0 DEF Repeats
    <3> HIDE DEF m
    <3> QED
      BY ONLY <1>5, <2>0, <3>1, n \in Nat
  <2>2. ASSUME NEW d \in Waiting' PROVE Given(d.id)' <= counts["crashes"] + counts["drops"]
    <3>1. Given(d.id) <= m
      BY <1>1, <1>6 DEF Repeats
    <3>2. Given(d.id)' <= m
      <4> HIDE DEF m
      <4> QED
        BY ONLY <1>5, <2>0, <3>1
    <3> QED
      BY <3>2
  <2> QED
    BY <1>4, <2>1, <2>2 DEF Repeats
<1> QED
  BY <1>3, <1>8

\* One execution goes on, the others stay.
LEMMA BecomeKeeps ==
  ASSUME Common, NEW x \in handling, NEW y, GoesOn(x, y), Become(x, y),
         y.phase = "given up" => \E f \in failed' : f.id = x.id,
         failed \subseteq failed',
         UNCHANGED <<queue, channels, attempts, start, started>>,
         counts' \in [Counters -> Nat], counts'["events"] = counts["events"],
         counts'["channels"] = counts["channels"], counts'["crashes"] = counts["crashes"],
         counts'["drops"] = counts["drops"]
  PROVE  Sound' /\ Repeats'
<1> DEFINE F == [z \in handling |-> IF z = x THEN y ELSE z]
<1>1. \A z \in handling : /\ GoesOn(z, z) /\ (z.phase = "given up" => \E f \in failed' : f.id = z.id)
  <2>1. Types /\ Sound
    BY DEF Common
  <2> QED
    BY <2>1 DEF Types, Sound, GoesOn, Told
<1>2. F \in [handling -> Executions] /\ \A z \in handling : F[z] = IF z = x THEN y ELSE z
  BY <1>1 DEF GoesOn
<1>3. handling' = {F[z] : z \in handling}
  BY <1>2 DEF Become
<1>4. \A z \in handling : /\ GoesOn(z, F[z])
                          /\ F[z].phase = "given up" => \E f \in failed' : f.id = z.id
  BY <1>1, <1>2
<1> HIDE DEF F
<1> QED
  BY <1>2, <1>3, <1>4, GoOnKeeps

\* What the steps of an execution keep, short of its start and its end.
LEMMA StepCommon ==
  ASSUME Common, NEW x \in handling, NEW y, GoesOn(x, y), Become(x, y),
         device # Removed => cache' <= device /\ y.info <= device,
         cache' \in 0..MaxVersion,
         UNCHANGED <<device, topics, queue, channels, attempts, redis, start, snapshot, started>>,
         counts' \in [Counters -> Nat], counts'["failures"] >= counts["failures"],
         Faults' \in Nat, Faults' >= Faults,
         \A w \in Counters : w \notin {"refusals", "failures"} => counts'[w] = counts[w],
         y.phase # "given up" \/ x.phase = "given up" => failed' = failed,
         y.phase = "given up" /\ x.phase # "given up" =>
           /\ failed' = failed \cup {[id |-> x.id, event |-> x.event]}
           /\ x.event.kind \notin Change
           /\ x.event.kind = "remove" => Faults' >= 1
           /\ x.event.kind # "remove" => device = Removed \/ Faults' >= 2,
         ~y.lookup => /\ device = Removed \/ Faults' >= 1
                      /\ y.phase = "filling" /\ redis = "down" => device = Removed \/ Faults' >= 2
  PROVE  Common'
<1>1. Types /\ Sound /\ NotAhead /\ Blamed /\ NoneMissing /\ Repeats
  BY DEF Common
<1>2. /\ y \in Executions /\ x \in Executions
      /\ \A z \in handling' : z = y \/ z \in handling
  BY <1>1 DEF GoesOn, Become, Types
<1>3. /\ failed \subseteq failed' /\ failed' \in SUBSET [id : Nat, event : DeviceEvents]
      /\ \A f \in failed' : f \in failed \/ (f = [id |-> x.id, event |-> x.event] /\ y.phase = "given up" /\ x.phase # "given up")
  <2>1. [id |-> x.id, event |-> x.event] \in [id : Nat, event : DeviceEvents]
    BY <1>2 DEF Executions
  <2> QED
    BY <1>1, <2>1 DEF Types
<1>4. Types'
  BY <1>1, <1>2, <1>3 DEF Types
<1>5. Sound' /\ Repeats'
  <2>1. y.phase = "given up" => \E f \in failed' : f.id = x.id
    <3>1. CASE x.phase = "given up"
      BY <1>1, <1>3, <3>1 DEF Sound, Told
    <3>2. CASE y.phase = "given up" /\ x.phase # "given up"
      <4>1. [id |-> x.id, event |-> x.event] \in failed'
        BY <3>2
      <4> QED
        BY <4>1
    <3> QED
      BY <3>1, <3>2
  <2>2. /\ counts'["events"] = counts["events"] /\ counts'["channels"] = counts["channels"]
        /\ counts'["crashes"] = counts["crashes"] /\ counts'["drops"] = counts["drops"]
    BY DEF Counters
  <2> QED
    BY <1>3, <2>1, <2>2, BecomeKeeps
<1>6. NotAhead'
  BY <1>1, <1>2 DEF NotAhead
<1>7. (Faults >= 1 => Faults' >= 1) /\ (Faults >= 2 => Faults' >= 2)
  <2>1. Faults \in Nat /\ Faults' \in Nat /\ Faults' >= Faults
    BY <1>1, FaultsFacts
  <2> QED
    BY ONLY <2>1
<1>8. Blamed'
  <2>1. LostForAReason'
    <3>1. \A f \in failed : /\ f.event.kind \notin Change
                            /\ f.event.kind = "remove" => Faults' >= 1
                            /\ f.event.kind # "remove" => device = Removed \/ Faults' >= 2
      BY <1>1, <1>7 DEF Blamed, LostForAReason
    <3>2. ASSUME NEW f \in failed', f \notin failed
          PROVE  /\ f.event.kind \notin Change
                 /\ f.event.kind = "remove" => Faults' >= 1
                 /\ f.event.kind # "remove" => device = Removed \/ Faults' >= 2
      <4>1. f.event = x.event /\ y.phase = "given up" /\ x.phase # "given up"
        <5>1. /\ f = [id |-> x.id, event |-> x.event]
              /\ y.phase = "given up" /\ x.phase # "given up"
          BY <1>3, <3>2, Zenon
        <5> QED
          BY ONLY <5>1
      <4> QED
        BY <4>1
    <3> QED
      BY <3>1, <3>2 DEF LostForAReason
  <2>2. \A z \in handling : ~z.lookup =>
          /\ device = Removed \/ Faults' >= 1
          /\ z.phase = "filling" /\ redis = "down" => device = Removed \/ Faults' >= 2
    BY <1>1, <1>7 DEF Blamed
  <2>3. start = "done" /\ redis = "down" => Faults' >= 1
    BY <1>1, <1>7 DEF Blamed
  <2> QED
    BY <1>2, <2>1, <2>2, <2>3 DEF Blamed
<1>9. NoneMissing'
  <2>1. /\ counts'["changes"] = counts["changes"] /\ counts'["configures"] = counts["configures"]
        /\ counts'["readings"] = counts["readings"] /\ counts'["events"] = counts["events"]
        /\ counts'["refused"] = counts["refused"] /\ counts["refused"] \in Nat
        /\ counts["failures"] \in Nat /\ counts'["failures"] \in Nat
    BY <1>1, FaultsFacts DEF Counters
  <2>2. counts'["refused"] <= counts'["failures"]
    <3> DEFINE r == counts["refused"]  f == counts["failures"]  g == counts'["failures"]
    <3>1. r <= f /\ g >= f /\ r \in Nat /\ f \in Nat /\ g \in Nat
      BY <1>1, <2>1 DEF NoneMissing
    <3>2. r <= g
      <4> HIDE DEF r, f, g
      <4> QED
        BY ONLY <3>1
    <3> QED
      BY <2>1, <3>2
  <2> QED
    BY <1>1, <1>3, <2>1, <2>2 DEF NoneMissing, OnTheWay
<1> QED
  BY <1>4, <1>5, <1>6, <1>8, <1>9 DEF Common

\* An execution in hand, as the queue had it.
LEMMA ExecutionFacts ==
  ASSUME Common, NEW x \in handling
  PROVE  /\ x \in Executions /\ PhaseSound(x) /\ start = "done"
         /\ x.event.kind \in Change <=> x.event.version > 0
         /\ x.phase \in Phases /\ x.id \in Nat /\ x.info \in 0..MaxVersion /\ x.event.version \in 0..MaxVersion
         /\ device # Removed => x.info <= device
BY DEF Common, Types, Sound, NotAhead, Executions, DeviceEvents

\* What Redis makes of the execution that waits for it.
LEMMA RepliedFacts ==
  ASSUME Common, NEW x \in Commands, NEW held \in 0..MaxVersion, NEW y, y = Replied(x, held)
  PROVE  /\ GoesOn(x, y) /\ y.lookup = x.lookup
         /\ y.phase \notin {"filling", "handled", "given up"} /\ x.phase \notin Over
         /\ y.info = IF x.phase = "getting" /\ held # Nothing THEN held ELSE x.info
         /\ y.phase = IF x.phase = "getting" /\ held = Nothing THEN "asking"
                      ELSE IF x.phase \in {"getting", "filling"} /\ x.event.kind = "remove"
                      THEN "deleting" ELSE "handling"
<1>1. x \in handling /\ x.phase \in {"getting", "setting", "filling", "deleting"}
  BY DEF Commands
<1>2. /\ x \in Executions /\ PhaseSound(x)
      /\ x.event.kind \in Change <=> x.event.version > 0
  BY <1>1, ExecutionFacts
<1>3. /\ y \in Executions /\ y.id = x.id /\ y.event = x.event /\ y.via = x.via /\ y.lookup = x.lookup
      /\ y.info = IF x.phase = "getting" /\ held # Nothing THEN held ELSE x.info
      /\ y.phase = IF x.phase = "getting" /\ held = Nothing THEN "asking"
                   ELSE IF x.phase \in {"getting", "filling"} /\ x.event.kind = "remove"
                   THEN "deleting" ELSE "handling"
  BY <1>1, <1>2 DEF Replied, Known, Phases, Executions
<1>4. PhaseSound(y)
  BY <1>1, <1>2, <1>3 DEF PhaseSound, Nothing, Change
<1> QED
  BY <1>1, <1>3, <1>4 DEF GoesOn, Over

\* What a command leaves in the cache.
LEMMA LeavesFacts ==
  ASSUME Common, NEW x \in Commands
  PROVE  /\ Leaves(x) \in 0..MaxVersion /\ cache \in 0..MaxVersion /\ Nothing \in 0..MaxVersion
         /\ device # Removed => Leaves(x) <= device /\ cache <= device /\ Nothing <= device
<1>1. x \in handling /\ x.info \in 0..MaxVersion /\ (device # Removed => x.info <= device)
  BY ExecutionFacts DEF Commands
<1>2. /\ cache \in 0..MaxVersion /\ MaxVersion \in Nat /\ device \in Int
      /\ device # Removed => cache <= device /\ 0 <= device
  BY Typed DEF Common, NotAhead, Types
<1> QED
  BY <1>1, <1>2 DEF Leaves, Nothing

LEMMA RedisReplyCommon ==
  ASSUME Common, NEW x \in handling, RedisReply(x)
  PROVE  Common'
<1> DEFINE y == Replied(x, cache)
<1>1. /\ redis = "ready" /\ x \in Commands /\ Become(x, y) /\ cache' = Leaves(x)
      /\ UNCHANGED <<device, topics, queue, channels, attempts, redis, start, snapshot, started, failed, counts>>
  BY DEF RedisReply, ingress, output, consumer
<1>2. /\ cache' \in 0..MaxVersion /\ cache \in 0..MaxVersion
      /\ device # Removed => cache' <= device /\ cache <= device /\ x.info <= device
  BY <1>1, LeavesFacts, ExecutionFacts
<1>3. /\ GoesOn(x, y) /\ y.lookup = x.lookup
      /\ y.phase \notin {"filling", "handled", "given up"} /\ x.phase \notin Over
      /\ y.info \in {x.info, cache}
  BY <1>1, <1>2, RepliedFacts
<1>4. Faults' = Faults /\ Faults \in Nat /\ counts \in [Counters -> Nat] /\ counts["failures"] \in Nat
  BY <1>1, FaultsFacts DEF Faults, Common, Types, Counters
<1>5. ~x.lookup => device = Removed \/ Faults >= 1
  BY DEF Common, Blamed
<1> HIDE DEF y
<1>6. Faults' \in Nat /\ Faults' >= Faults /\ counts'["failures"] >= counts["failures"]
  BY <1>1, <1>4
<1> QED
  BY <1>1, <1>2, <1>3, <1>4, <1>5, <1>6, StepCommon

\* Redis connects: the executions whose commands it executes before the flush.
LEMMA RedisConnectsCommon ==
  ASSUME Common, RedisConnects
  PROVE  Common'
<1>1. Types /\ Sound /\ NotAhead /\ Blamed /\ NoneMissing /\ Repeats
  BY DEF Common
<1>2. /\ redis' = "ready" /\ cache' = Nothing
      /\ UNCHANGED <<device, topics, queue, channels, attempts, start, snapshot, started, failed, counts>>
  BY DEF RedisConnects, Flushed, ingress, output, consumer
<1>0. PICK early \in SUBSET Commands : \E held \in [early -> {cache} \cup {Leaves(x) : x \in early}] :
         handling' = (handling \ early) \cup {Replied(x, held[x]) : x \in early}
  BY DEF RedisConnects
<1>3. PICK held \in [early -> {cache} \cup {Leaves(x) : x \in early}] :
         handling' = (handling \ early) \cup {Replied(x, held[x]) : x \in early}
  BY <1>0
<1> DEFINE F == [x \in handling |-> IF x \in early THEN Replied(x, held[x]) ELSE x]
<1>4. early \subseteq handling /\ early \subseteq Commands
  BY <1>3 DEF Commands
<1>5. \A x \in early : held[x] \in 0..MaxVersion /\ (device # Removed => held[x] <= device)
  <2>1. \A v \in {cache} \cup {Leaves(x) : x \in early} :
          v \in 0..MaxVersion /\ (device # Removed => v <= device)
    <3>1. cache \in 0..MaxVersion /\ (device # Removed => cache <= device)
      BY <1>1 DEF Types, NotAhead
    <3> QED
      BY <1>4, <3>1, LeavesFacts
  <2> QED
    BY <2>1
<1>6. \A x \in handling : GoesOn(x, x) /\ (x.phase = "given up" => \E f \in failed' : f.id = x.id)
  BY <1>1, <1>2, ExecutionFacts DEF Sound, Told, GoesOn
<1>7. ASSUME NEW x \in handling
      PROVE  /\ GoesOn(x, F[x]) /\ F[x].lookup = x.lookup
             /\ F[x].phase = "given up" => \E f \in failed' : f.id = x.id
             /\ device # Removed => F[x].info <= device
  <2>1. CASE x \in early
    <3> DEFINE y == Replied(x, held[x])
    <3>1. F[x] = y
      BY <2>1
    <3>2. /\ GoesOn(x, y) /\ y.lookup = x.lookup /\ y.phase # "given up"
          /\ y.info = IF x.phase = "getting" /\ held[x] # Nothing THEN held[x] ELSE x.info
      BY <1>4, <1>5, <2>1, RepliedFacts
    <3> HIDE DEF y, F
    <3> QED
      BY <1>5, <2>1, <3>1, <3>2, ExecutionFacts
  <2>2. CASE x \notin early
    <3>1. F[x] = x
      BY <2>2
    <3> HIDE DEF F
    <3> QED
      BY <1>6, <3>1, ExecutionFacts
  <2> QED
    BY <2>1, <2>2
<1>8. F \in [handling -> Executions] /\ handling' = {F[x] : x \in handling}
  <2>1. \A x \in handling : F[x] \in Executions
    BY <1>7 DEF GoesOn
  <2>2. handling' = {F[x] : x \in handling}
    BY <1>3, <1>4
  <2> QED
    BY <2>1, <2>2
<1> HIDE DEF F
<1>9. Types'
  <2>1. cache' \in 0..MaxVersion
    BY <1>2, IngestAssumption DEF Nothing
  <2> QED
    BY <1>1, <1>2, <1>8, <2>1 DEF Types
<1>10. Sound' /\ Repeats'
  <2>1. counts' \in [Counters -> Nat]
    BY <1>1, <1>2 DEF Types
  <2> QED
    BY <1>2, <1>7, <1>8, <2>1, GoOnKeeps
<1>11. NotAhead'
  <2>1. device # Removed => cache' <= device
    <3>1. device \in Removed..MaxVersion /\ Removed = -1
      BY <1>1, Typed DEF Types
    <3> QED
      BY <1>2, <3>1 DEF Nothing
  <2>2. device # Removed => \A y \in handling' : y.info <= device
    BY <1>7, <1>8
  <2> QED
    BY <1>1, <1>2, <2>1, <2>2 DEF NotAhead
<1>12. Blamed'
  <2>1. Faults' = Faults
    BY <1>2 DEF Faults
  <2>2. ASSUME NEW y \in handling', ~y.lookup PROVE device = Removed \/ Faults >= 1
    <3>1. PICK x \in handling : y = F[x]
      BY <1>8
    <3>2. ~x.lookup
      BY <1>7, <2>2, <3>1
    <3> QED
      BY <1>1, <3>2 DEF Blamed
  <2> QED
    BY <1>1, <1>2, <2>1, <2>2 DEF Blamed, LostForAReason
<1>13. NoneMissing'
  BY <1>1, <1>2 DEF NoneMissing, OnTheWay
<1> QED
  BY <1>9, <1>10, <1>11, <1>12, <1>13 DEF Common

\* What a rejection leaves: the execution goes on, or it gives up.
LEMMA RejectedFacts ==
  ASSUME Common, NEW x \in handling, Rejected(x),
         x.phase \in {"getting", "setting", "filling", "deleting", "asking"}
  PROVE  /\ cache' = cache /\ started' = started
         /\ \E y : /\ GoesOn(x, y) /\ Become(x, y) /\ y.info = x.info
                   /\ \/ /\ x.phase \in {"setting", "deleting"} /\ failed' = failed
                         /\ y = [x EXCEPT !.phase = "handling"] /\ y.phase = "handling" /\ y.lookup = x.lookup
                      \/ /\ x.phase \in {"getting", "filling", "asking"} /\ x.lookup /\ failed' = failed
                         /\ y = [x EXCEPT !.phase = "asking", !.lookup = FALSE]
                         /\ y.phase = "asking" /\ y.lookup = FALSE
                      \/ /\ x.phase \in {"filling", "asking"} /\ ~x.lookup
                         /\ failed' = failed \cup {[id |-> x.id, event |-> x.event]}
                         /\ x.event.kind \notin Change
                         /\ y = [x EXCEPT !.phase = "given up"] /\ y.phase = "given up" /\ y.lookup = x.lookup
<1>1. /\ x \in Executions /\ PhaseSound(x)
      /\ x.event.kind \in Change <=> x.event.version > 0
  BY ExecutionFacts
<1>2. CASE x.phase \in {"setting", "deleting"}
  <2> DEFINE y == [x EXCEPT !.phase = "handling"]
  <2>1. /\ Become(x, y) /\ UNCHANGED <<cache, started, failed>>
    BY <1>2 DEF Rejected, output
  <2>2. /\ y \in Executions /\ y.id = x.id /\ y.event = x.event /\ y.via = x.via /\ y.lookup = x.lookup
        /\ y.info = x.info /\ y.phase = "handling"
    BY <1>1 DEF Executions, Phases
  <2> HIDE DEF y
  <2>3. GoesOn(x, y)
    BY <1>1, <1>2, <2>2 DEF GoesOn, PhaseSound, Over
  <2> QED
    BY <1>2, <2>1, <2>2, <2>3 DEF y
<1>3. CASE x.phase \notin {"setting", "deleting"} /\ x.lookup
  <2> DEFINE y == [x EXCEPT !.phase = "asking", !.lookup = FALSE]
  <2>1. /\ Become(x, y) /\ UNCHANGED <<cache, started, failed>>
    BY <1>3 DEF Rejected, output
  <2>2. /\ y \in Executions /\ y.id = x.id /\ y.event = x.event /\ y.via = x.via /\ y.lookup = FALSE
        /\ y.info = x.info /\ y.phase = "asking"
    BY <1>1 DEF Executions, Phases
  <2> HIDE DEF y
  <2>3. GoesOn(x, y)
    BY <1>1, <1>3, <2>2 DEF GoesOn, PhaseSound, Over
  <2> QED
    BY <1>3, <2>1, <2>2, <2>3 DEF y
<1>4. CASE x.phase \notin {"setting", "deleting"} /\ ~x.lookup
  <2> DEFINE y == [x EXCEPT !.phase = "given up"]
  <2>1. /\ Become(x, y) /\ UNCHANGED <<cache, started>>
        /\ failed' = failed \cup {[id |-> x.id, event |-> x.event]}
    BY <1>4 DEF Rejected, GiveUp
  <2>2. /\ y \in Executions /\ y.id = x.id /\ y.event = x.event /\ y.via = x.via /\ y.lookup = x.lookup
        /\ y.info = x.info /\ y.phase = "given up"
    BY <1>1 DEF Executions, Phases
  <2>3. x.phase \in {"filling", "asking"} /\ x.event.kind \notin Change
    BY <1>1, <1>4 DEF PhaseSound
  <2> HIDE DEF y
  <2>4. GoesOn(x, y)
    BY <1>1, <1>4, <2>2, <2>3 DEF GoesOn, PhaseSound, Over
  <2> QED
    BY <1>4, <2>1, <2>2, <2>3, <2>4 DEF y
<1> QED
  BY <1>2, <1>3, <1>4

\* The lookup of a removal misses the cache after a fault only.
LEMMA RemovalBlamed ==
  ASSUME IngestInv, NEW x \in handling, x.phase \in {"asking", "filling"}, x.event.kind = "remove"
  PROVE  Faults >= 1
<1>1. Types /\ (counts["drops"] = 0 => Remembered)
  BY DEF IngestInv, Common, InTurn
<1>2. Faults \in Nat /\ (Faults = 0 => counts["drops"] = 0)
  BY <1>1, FaultsFacts DEF FaultKinds
<1>3. Faults # 0
  BY <1>1, <1>2 DEF Remembered
<1> QED
  BY <1>2, <1>3

LEMMA RedisRefusesCommon ==
  ASSUME IngestInv, NEW x \in handling, RedisRefuses(x)
  PROVE  Common'
<1>1. Common /\ Types /\ Blamed /\ NotAhead
  BY DEF IngestInv, Common
<1>2. /\ x.phase \in {"getting", "setting", "filling", "deleting"} /\ Rejected(x)
      /\ UNCHANGED <<device, topics, queue, channels, attempts, redis, start, snapshot>>
      /\ \/ redis = "ready" /\ x.phase # "getting" /\ Count({"refusals"})
         \/ redis = "down" /\ UNCHANGED counts
  BY DEF RedisRefuses, Happens, Commands, ingress, consumer
<1>3. PICK y : /\ GoesOn(x, y) /\ Become(x, y) /\ y.info = x.info
               /\ \/ x.phase \in {"setting", "deleting"} /\ failed' = failed
                     /\ y.phase = "handling" /\ y.lookup = x.lookup
                  \/ x.phase \in {"getting", "filling"} /\ x.lookup /\ failed' = failed
                     /\ y.phase = "asking" /\ y.lookup = FALSE
                  \/ x.phase = "filling" /\ ~x.lookup /\ x.event.kind \notin Change
                     /\ failed' = failed \cup {[id |-> x.id, event |-> x.event]}
                     /\ y.phase = "given up" /\ y.lookup = x.lookup
  BY <1>1, <1>2, RejectedFacts
<1>4. cache' = cache /\ started' = started
  BY <1>1, <1>2, RejectedFacts
<1>5. Faults \in Nat /\ \A w \in Counters : counts[w] \in Nat
  BY <1>1, FaultsFacts
<1>6. /\ redis = "ready" => Faults' = Faults + 1
      /\ redis = "down" => Faults' = Faults /\ Faults >= 1
      /\ redis = "ready" \/ redis = "down"
      /\ counts' \in [Counters -> Nat] /\ \A w \in Counters : w # "refusals" => counts'[w] = counts[w]
  <2>1. CASE redis = "ready"
    <3>1. /\ {"refusals"} \in SUBSET Counters /\ {"refusals"} \cap FaultKinds = {"refusals"}
          /\ "refusals" \in FaultKinds
      BY DEF Counters, FaultKinds
    <3> QED
      BY <1>1, <1>2, <2>1, <3>1, CountFacts, FaultsGrow
  <2>2. CASE redis = "down"
    <3>1. start = "done"
      BY <1>1, ExecutionFacts
    <3> QED
      BY <1>1, <1>2, <2>2, <3>1 DEF Blamed, Faults, Types
  <2> QED
    BY <1>1, <2>1, <2>2 DEF Types
<1>7. Faults' \in Nat /\ Faults' >= Faults /\ Faults' >= 1
  BY ONLY <1>5, <1>6
<1>8. /\ ~x.lookup => device = Removed \/ Faults >= 1
      /\ ~x.lookup /\ x.phase = "filling" => device = Removed \/ Faults' >= 2
  <2>1. /\ ~x.lookup => device = Removed \/ Faults >= 1
        /\ ~x.lookup /\ x.phase = "filling" /\ redis = "down" => device = Removed \/ Faults >= 2
    BY <1>1 DEF Blamed
  <2> QED
    BY <1>5, <1>6, <2>1
<1>9. y.phase # "filling" /\ x.phase # "given up"
  BY <1>2, <1>3
<1>10. /\ cache' \in 0..MaxVersion
       /\ device # Removed => cache' <= device /\ y.info <= device
  BY <1>1, <1>3, <1>4, ExecutionFacts DEF Types, NotAhead
<1>11. counts'["failures"] >= counts["failures"]
  BY <1>5, <1>6 DEF Counters
<1>12. y.phase = "given up" =>
         /\ failed' = failed \cup {[id |-> x.id, event |-> x.event]}
         /\ x.event.kind \notin Change
         /\ x.event.kind = "remove" => Faults' >= 1
         /\ x.event.kind # "remove" => device = Removed \/ Faults' >= 2
  BY <1>3, <1>7, <1>8
<1>13. y.phase # "given up" => failed' = failed
  BY <1>3
<1>14. \A w \in Counters : w \notin {"refusals", "failures"} => counts'[w] = counts[w]
  BY <1>6
<1> QED
  BY <1>1, <1>2, <1>3, <1>4, <1>6, <1>7, <1>9, <1>10, <1>11, <1>12, <1>13, <1>14, StepCommon

LEMMA DeviceManagerAnswersCommon ==
  ASSUME Common, NEW x \in handling, DeviceManagerAnswers(x)
  PROVE  Common'
<1> DEFINE y == IF redis = "ready" THEN [x EXCEPT !.info = device, !.phase = "filling"]
                ELSE Known(x, device)
<1>1. /\ x.phase = "asking" /\ device > 0 /\ Become(x, y)
      /\ UNCHANGED <<device, topics, queue, channels, attempts, cache, redis, start, snapshot, started, failed, counts>>
  BY DEF DeviceManagerAnswers, ingress, output, consumer
<1>2. /\ x \in Executions /\ PhaseSound(x)
      /\ x.event.kind \in Change <=> x.event.version > 0
  BY ExecutionFacts
<1>3. device \in 0..MaxVersion /\ device # Removed /\ device \in Int
  <2>1. device \in Removed..MaxVersion /\ Removed = -1 /\ MaxVersion \in Nat
    BY Typed DEF Common, Types
  <2> QED
    BY <1>1, <2>1
<1>4. /\ y \in Executions /\ y.id = x.id /\ y.event = x.event /\ y.via = x.via /\ y.lookup = x.lookup
      /\ y.info = device
      /\ y.phase = IF redis = "ready" THEN "filling"
                   ELSE IF x.event.kind = "remove" THEN "deleting" ELSE "handling"
  BY <1>2, <1>3 DEF Known, Executions, Phases
<1> HIDE DEF y
<1>5. GoesOn(x, y)
  BY <1>1, <1>2, <1>3, <1>4 DEF GoesOn, PhaseSound, Over
<1>6. Faults' = Faults /\ Faults \in Nat /\ counts \in [Counters -> Nat] /\ counts["failures"] \in Nat
  BY <1>1, FaultsFacts DEF Faults, Common, Types, Counters
<1>7. /\ Faults' \in Nat /\ Faults' >= Faults /\ counts'["failures"] >= counts["failures"]
      /\ counts' \in [Counters -> Nat] /\ \A w \in Counters : counts'[w] = counts[w]
  BY <1>1, <1>6
<1>8. ~y.lookup => device = Removed \/ Faults' >= 1
  BY <1>4, <1>6 DEF Common, Blamed
<1>9. /\ y.phase \notin {"given up"} /\ (y.phase = "filling" => redis # "down")
      /\ cache' \in 0..MaxVersion /\ (device # Removed => cache' <= device /\ y.info <= device)
  BY <1>1, <1>3, <1>4 DEF Common, Types, NotAhead
<1> QED
  BY <1>1, <1>5, <1>7, <1>8, <1>9, StepCommon

LEMMA DeviceManagerFailsCommon ==
  ASSUME IngestInv, NEW x \in handling, DeviceManagerFails(x)
  PROVE  Common'
<1>1. Common /\ Types /\ Blamed /\ NotAhead
  BY DEF IngestInv, Common
<1>2. /\ x.phase = "asking" /\ Rejected(x)
      /\ UNCHANGED <<device, topics, queue, channels, attempts, redis, start, snapshot>>
      /\ \/ device = Removed /\ UNCHANGED counts
         \/ Count({"failures"})
  BY DEF DeviceManagerFails, Happens, ingress, consumer
<1>3. PICK y : /\ GoesOn(x, y) /\ Become(x, y) /\ y.info = x.info
               /\ \/ x.lookup /\ failed' = failed /\ y.phase = "asking" /\ y.lookup = FALSE
                  \/ ~x.lookup /\ x.event.kind \notin Change
                     /\ failed' = failed \cup {[id |-> x.id, event |-> x.event]}
                     /\ y.phase = "given up" /\ y.lookup = x.lookup
  BY <1>1, <1>2, RejectedFacts
<1>4. cache' = cache /\ started' = started
  BY <1>1, <1>2, RejectedFacts
<1>5. Faults \in Nat /\ \A w \in Counters : counts[w] \in Nat
  BY <1>1, FaultsFacts
<1>6. /\ \/ device = Removed /\ Faults' = Faults /\ counts' = counts
         \/ Faults' = Faults + 1 /\ counts'["failures"] = counts["failures"] + 1
      /\ counts' \in [Counters -> Nat] /\ \A w \in Counters : w # "failures" => counts'[w] = counts[w]
  <2>1. CASE Count({"failures"})
    <3>1. /\ {"failures"} \in SUBSET Counters /\ {"failures"} \cap FaultKinds = {"failures"}
          /\ "failures" \in FaultKinds
      BY DEF Counters, FaultKinds
    <3> QED
      BY <1>1, <2>1, <3>1, CountFacts, FaultsGrow
  <2>2. CASE device = Removed /\ UNCHANGED counts
    BY <1>1, <2>2 DEF Faults, Types
  <2> QED
    BY <1>2, <2>1, <2>2
<1>7. /\ Faults' \in Nat /\ Faults' >= Faults
      /\ device = Removed \/ Faults' >= 1
  BY <1>5, <1>6
<1>8. ~x.lookup => device = Removed \/ Faults' >= 2
  <2>1. ~x.lookup => device = Removed \/ Faults >= 1
    BY <1>1 DEF Blamed
  <2> QED
    BY <1>5, <1>6, <2>1
<1>9. x.event.kind = "remove" => Faults' >= 1
  BY <1>2, <1>5, <1>7, RemovalBlamed
<1>10. /\ cache' \in 0..MaxVersion
       /\ device # Removed => cache' <= device /\ y.info <= device
  BY <1>1, <1>3, <1>4, ExecutionFacts DEF Types, NotAhead
<1>11. counts'["failures"] >= counts["failures"]
  <2>1. counts["failures"] \in Nat
    BY <1>5 DEF Counters
  <2> QED
    BY <1>6, <2>1
<1>12. y.phase = "given up" =>
         /\ failed' = failed \cup {[id |-> x.id, event |-> x.event]}
         /\ x.event.kind \notin Change
         /\ x.event.kind = "remove" => Faults' >= 1
         /\ x.event.kind # "remove" => device = Removed \/ Faults' >= 2
  BY <1>3, <1>8, <1>9
<1>13. (y.phase # "given up" => failed' = failed) /\ y.phase # "filling" /\ x.phase # "given up"
  BY <1>2, <1>3
<1>14. \A w \in Counters : w \notin {"refusals", "failures"} => counts'[w] = counts[w]
  BY <1>6
<1> QED
  BY <1>1, <1>2, <1>3, <1>4, <1>6, <1>7, <1>10, <1>11, <1>12, <1>13, <1>14, StepCommon

\* An execution hands its event to the flows.
LEMMA TimesGrow ==
  ASSUME Types, NEW x \in Executions,
         started' = Append(started, [id |-> x.id, kind |-> x.event.kind, version |-> x.info])
  PROVE  /\ started' \in Seq(Starts) /\ Len(started) \in Nat
         /\ DOMAIN started' = 1..(Len(started) + 1) /\ DOMAIN started = 1..Len(started)
         /\ started'[Len(started) + 1] = [id |-> x.id, kind |-> x.event.kind, version |-> x.info]
         /\ \A i \in DOMAIN started : i \in DOMAIN started' /\ started'[i] = started[i] /\ i < Len(started) + 1
         /\ \A i \in DOMAIN started' : i = Len(started) + 1 \/ i \in DOMAIN started
         /\ \A n : n # x.id => Times(n)' = Times(n)
         /\ Cardinality(Times(x.id))' = Cardinality(Times(x.id)) + 1
<1> DEFINE s == [id |-> x.id, kind |-> x.event.kind, version |-> x.info]
           l == Len(started) + 1
<1>1. s \in Starts
  <2>1. x.event.kind \in Kinds /\ x.id \in Nat /\ x.info \in 0..MaxVersion
    BY DEF Executions, DeviceEvents
  <2> QED
    BY <2>1 DEF Starts
<1>2. started \in Seq(Starts) /\ started' = Append(started, s)
  BY DEF Types
<1>3. s.id = x.id
  OBVIOUS
<1> HIDE DEF s
<1>4. /\ started' \in Seq(Starts) /\ Len(started) \in Nat
      /\ DOMAIN started' = 1..l /\ DOMAIN started = 1..Len(started)
      /\ started'[l] = s
      /\ \A i \in DOMAIN started : started'[i] = started[i]
  BY <1>1, <1>2, AppendFacts
<1>5. /\ \A i \in DOMAIN started : i \in DOMAIN started' /\ started'[i] = started[i] /\ i < l
      /\ \A i \in DOMAIN started' : i = l \/ i \in DOMAIN started
      /\ l \in DOMAIN started' /\ l \notin DOMAIN started
  <2>1. /\ \A i \in 1..Len(started) : i \in 1..l /\ i < l
        /\ \A i \in 1..l : i = l \/ i \in 1..Len(started)
        /\ l \in 1..l /\ l \notin 1..Len(started)
    BY <1>4
  <2> QED
    BY <1>4, <2>1
<1> HIDE DEF l
<1>6. ASSUME NEW n, n # x.id PROVE Times(n)' = Times(n)
  BY <1>3, <1>4, <1>5, <1>6 DEF Times
<1>7. Times(x.id)' = Times(x.id) \cup {l} /\ l \notin Times(x.id)
  BY <1>3, <1>4, <1>5 DEF Times
<1>8. Cardinality(Times(x.id))' = Cardinality(Times(x.id)) + 1
  BY <1>7, TimesNumber, FS_AddElement
<1> QED
  BY <1>4, <1>5, <1>6, <1>8 DEF s, l

LEMMA HandleEventCommon ==
  ASSUME Common, NEW x \in handling, HandleEvent(x)
  PROVE  Common'
<1> DEFINE y == [x EXCEPT !.phase = "handled"]
           l == Len(started) + 1
<1>1. Types /\ Sound /\ NotAhead /\ Blamed /\ NoneMissing /\ Repeats
  BY DEF Common
<1>2. /\ x.phase = "handling" /\ Become(x, y)
      /\ started' = Append(started, [id |-> x.id, kind |-> x.event.kind, version |-> x.info])
      /\ UNCHANGED <<device, topics, queue, channels, attempts, cache, redis, start, snapshot, failed, counts>>
  BY DEF HandleEvent, ingress, consumer
<1>3. x \in Executions /\ PhaseSound(x) /\ x.id \in Nat
  BY ExecutionFacts
<1>4. /\ y \in Executions /\ y.id = x.id /\ y.event = x.event /\ y.via = x.via /\ y.lookup = x.lookup
      /\ y.info = x.info /\ y.phase = "handled"
  BY <1>3 DEF Executions, Phases
<1>5. PhaseSound(y)
  BY <1>2, <1>3, <1>4 DEF PhaseSound
<1>6. /\ started' \in Seq(Starts)
      /\ \A i \in DOMAIN started : i \in DOMAIN started' /\ started'[i] = started[i]
      /\ \A i \in DOMAIN started' : i = l \/ i \in DOMAIN started
      /\ l \in DOMAIN started' /\ started'[l].id = x.id
      /\ \A n : n # x.id => Times(n)' = Times(n)
      /\ Cardinality(Times(x.id))' = Cardinality(Times(x.id)) + 1
  BY <1>1, <1>2, <1>3, TimesGrow
<1> HIDE DEF y, l
<1>7. \A z \in handling' : z = y \/ z \in handling \ {x}
  BY <1>2 DEF Become
<1>8. Types'
  BY <1>1, <1>2, <1>4, <1>6, <1>7 DEF Types
<1>9. Sound'
  <2>1. \A i \in DOMAIN started' : started'[i].id <= counts["events"]
    <3>1. x.id <= counts["events"] /\ \A i \in DOMAIN started : started[i].id <= counts["events"]
      BY <1>1 DEF Sound
    <3> QED
      BY <1>6, <3>1
  <2>2. \A z \in handling : Told(z)'
    <3>1. \A z \in handling : Told(z)
      BY <1>1 DEF Sound
    <3>2. ASSUME NEW n, \E i \in DOMAIN started : started[i].id = n
          PROVE  \E i \in DOMAIN started' : started'[i].id = n
      BY <1>6, <3>2
    <3> QED
      BY <1>2, <3>1, <3>2 DEF Told
  <2>3. Told(y)'
    BY <1>4, <1>6 DEF Told
  <2>4. \A z \in handling : Holds(z)'
    BY <1>1, <1>2 DEF Sound, Holds
  <2>5. Holds(y)'
    BY <1>4, <2>4 DEF Holds
  <2>6. /\ start = "done" /\ y.id \in 1..counts["events"] /\ y.via \in 1..counts["channels"]
        /\ \A z \in handling : /\ z.via = y.via => z = x
                               /\ z.id = y.id /\ z.via \in channels /\ y.via \in channels => z = x
    BY <1>1, <1>4 DEF Sound
  <2> QED
    BY <1>1, <1>2, <1>5, <1>7, <2>1, <2>2, <2>3, <2>4, <2>5, <2>6 DEF Sound, PhaseSound
<1>10. NotAhead'
  BY <1>1, <1>2, <1>4, <1>7 DEF NotAhead
<1>11. Blamed'
  <2>1. Faults' = Faults
    BY <1>2 DEF Faults
  <2> QED
    BY <1>1, <1>2, <1>4, <1>7, <2>1 DEF Blamed, LostForAReason
<1>12. NoneMissing'
  BY <1>1, <1>2, <1>6 DEF NoneMissing, OnTheWay
<1>13. Repeats'
  <2>1. IsFiniteSet(handling')
    <3>1. handling' = (handling \ {x}) \cup {y}
      BY <1>2 DEF Become
    <3> QED
      BY <1>1, <3>1, FS_RemoveElement, FS_AddElement DEF Repeats
  <2>2. ASSUME NEW n, n # x.id PROVE Given(n)' = Given(n)
    <3>1. Pending(n)' = Pending(n)
      BY <1>2, <1>4, <2>2 DEF Pending, Become
    <3> QED
      BY <1>6, <2>2, <3>1 DEF Given
  <2>3. Given(x.id)' = Given(x.id)
    <3>1. Pending(x.id)' = Pending(x.id) \ {x} /\ x \in Pending(x.id)
      BY <1>2, <1>4 DEF Pending, Become, Over
    <3>2. Cardinality(Pending(x.id) \ {x}) = Cardinality(Pending(x.id)) - 1
      BY <1>1, <3>1, PendingNumber, FS_RemoveElement
    <3>3. Cardinality(Times(x.id)) \in Nat /\ Cardinality(Pending(x.id)) \in Nat
      BY <1>1, TimesNumber, PendingNumber
    <3> DEFINE t == Cardinality(Times(x.id))  p == Cardinality(Pending(x.id))
    <3>4. Given(x.id) = t + p /\ Given(x.id)' = (t + 1) + (p - 1) /\ t \in Nat /\ p \in Nat
      BY <1>6, <3>1, <3>2, <3>3 DEF Given
    <3> HIDE DEF t, p
    <3> QED
      BY ONLY <3>4
  <2>4. \A n : Given(n)' = Given(n)
    BY <2>2, <2>3
  <2>5. \A d \in Waiting' : d \in Waiting
    BY <1>2, <1>4 DEF Waiting, Become
  <2> QED
    BY <1>1, <1>2, <2>1, <2>4, <2>5 DEF Repeats
<1> QED
  BY <1>8, <1>9, <1>10, <1>11, <1>12, <1>13 DEF Common

\* The event leaves the queue with its execution.
LEMMA AcknowledgeCommon ==
  ASSUME Common, NEW x \in handling, x.phase \in Over, x.via \in channels, Acknowledge(x)
  PROVE  Common'
<1>1. Types /\ Sound /\ NotAhead /\ Blamed /\ NoneMissing /\ Repeats
  BY DEF Common
<1>2. /\ handling' = handling \ {x} /\ queue' = {d \in queue : d.id # x.id}
      /\ UNCHANGED <<device, topics, channels, attempts, cache, redis, start, snapshot, started, failed, counts>>
  BY DEF Acknowledge, ingress, output, consumer
<1>3. handling' \subseteq handling /\ queue' \subseteq queue
  BY <1>2
<1>4. Types'
  BY <1>1, <1>2, <1>3 DEF Types
<1>5. Sound'
  <2>1. \A z \in handling' : Told(z)'
    BY <1>1, <1>2 DEF Sound, Told
  <2>2. ASSUME NEW z \in handling' PROVE Holds(z)'
    <3>1. Holds(z) /\ (z.via \in channels => z.id # x.id)
      BY <1>1, <1>2 DEF Sound
    <3> QED
      BY <1>2, <3>1 DEF Holds
  <2> QED
    BY <1>1, <1>2, <1>3, <2>1, <2>2 DEF Sound, PhaseSound
<1>6. NotAhead'
  BY <1>1, <1>2, <1>3 DEF NotAhead
<1>7. Blamed'
  <2>1. Faults' = Faults
    BY <1>2 DEF Faults
  <2> QED
    BY <1>1, <1>2, <1>3, <2>1 DEF Blamed, LostForAReason
<1>8. NoneMissing'
  <2>1. \/ \E i \in DOMAIN started : started[i].id = x.id
        \/ \E f \in failed : f.id = x.id
    BY <1>1 DEF Sound, Told, Over
  <2>2. \A d \in queue : d.id # x.id => d \in queue'
    BY <1>2
  <2> QED
    BY <1>1, <1>2, <2>1, <2>2 DEF NoneMissing, OnTheWay
<1>9. Repeats'
  <2>1. IsFiniteSet(handling')
    BY <1>1, <1>2, FS_RemoveElement DEF Repeats
  <2>2. \A n : Given(n)' = Given(n)
    <3>1. \A n : Pending(n)' = Pending(n) /\ Times(n)' = Times(n)
      BY <1>2 DEF Pending, Times
    <3> QED
      BY <3>1 DEF Given
  <2>3. \A d \in Waiting' : d \in Waiting
    BY <1>2 DEF Waiting
  <2> QED
    BY <1>1, <1>2, <2>1, <2>2, <2>3 DEF Repeats
<1> QED
  BY <1>4, <1>5, <1>6, <1>7, <1>8, <1>9 DEF Common

-----------------------------------------------------------------------------
(* Crashes and connections *)

\* A process that dies leaves the queue, the cache and what it has told.
LEMMA RestartCommon ==
  ASSUME Common, Count({"crashes"}), Restart
  PROVE  Common'
<1>1. Types /\ Sound /\ NotAhead /\ Blamed /\ NoneMissing /\ Repeats
  BY DEF Common
<1>2. /\ channels' = {} /\ attempts' = 0 /\ handling' = {} /\ redis' = "down" /\ start' = "reading"
      /\ UNCHANGED <<device, topics, queue, cache, snapshot, started, failed>>
  BY DEF Restart, ingress, output
<1>3. /\ counts' \in [Counters -> Nat] /\ counts'["crashes"] = counts["crashes"] + 1
      /\ \A w \in Counters : w # "crashes" => counts'[w] = counts[w]
      /\ Faults' = Faults + 1 /\ Faults \in Nat /\ \A w \in Counters : counts[w] \in Nat
  <2>1. /\ {"crashes"} \in SUBSET Counters /\ "crashes" \in FaultKinds
        /\ {"crashes"} \cap FaultKinds = {"crashes"}
    BY DEF Counters, FaultKinds
  <2> QED
    BY <1>1, <2>1, CountFacts, FaultsFacts, FaultsGrow
<1>4. Types'
  BY <1>1, <1>2, <1>3 DEF Types
<1>5. counts'["events"] = counts["events"] /\ counts'["drops"] = counts["drops"]
      /\ counts["drops"] \in Nat /\ counts["crashes"] \in Nat
  BY <1>3 DEF Counters
<1>6. Sound'
  BY <1>1, <1>2, <1>5 DEF Sound
<1>7. NotAhead'
  BY <1>1, <1>2 DEF NotAhead
<1>8. Blamed'
  <2>1. (Faults >= 1 => Faults' >= 1) /\ (Faults >= 2 => Faults' >= 2)
    BY <1>3
  <2> QED
    BY <1>1, <1>2, <2>1 DEF Blamed, LostForAReason
<1>9. NoneMissing'
  <2>1. /\ counts'["changes"] = counts["changes"] /\ counts'["configures"] = counts["configures"]
        /\ counts'["readings"] = counts["readings"] /\ counts'["events"] = counts["events"]
        /\ counts'["refused"] = counts["refused"] /\ counts'["failures"] = counts["failures"]
    BY <1>3 DEF Counters
  <2> QED
    BY <1>1, <1>2, <2>1 DEF NoneMissing, OnTheWay
<1>10. Repeats'
  <2>1. \A n : Pending(n)' = {} /\ Pending(n)' \subseteq Pending(n)
    BY <1>2 DEF Pending
  <2>2. \A n : Given(n)' <= Given(n) /\ Given(n) \in Nat /\ Given(n)' \in Nat
    BY <1>1, <1>2, <2>1, FewerPending
  <2>3. \A d \in Waiting' : d.id \in Nat
    BY <1>1, <1>2, Typed DEF Waiting
  <2>4. \A n \in Nat : Given(n) <= 1 + counts["crashes"] + counts["drops"]
    BY <1>1 DEF Repeats
  <2>5. \A n \in Nat : Given(n)' <= (counts["crashes"] + 1) + counts["drops"]
    BY <1>5, <2>2, <2>4
  <2>6. \A n \in Nat : Given(n)' <= 1 + (counts["crashes"] + 1) + counts["drops"]
    BY <1>5, <2>2, <2>5
  <2> QED
    BY <1>2, <1>3, <1>5, <2>3, <2>5, <2>6, FS_EmptySet DEF Repeats
<1> QED
  BY <1>4, <1>6, <1>7, <1>8, <1>9, <1>10 DEF Common

\* What a step that only counts keeps.
LEMMA CountKeeps ==
  ASSUME Types, Blamed, NoneMissing, NEW what \in {"drops", "losses", "channels"}, Count({what}),
         UNCHANGED <<device, topics, queue, handling, start, started, failed>>
  PROVE  /\ counts' \in [Counters -> Nat] /\ counts'[what] = counts[what] + 1 /\ counts[what] \in Nat
         /\ \A w \in Counters : w # what => counts'[w] = counts[w]
         /\ Faults \in Nat
         /\ what = "channels" => Faults' = Faults
         /\ what # "channels" => Faults' = Faults + 1
         /\ NoneMissing' /\ LostForAReason'
<1>1. {what} \in SUBSET Counters /\ what \in Counters
  BY DEF Counters
<1>2. /\ counts' \in [Counters -> Nat] /\ counts'[what] = counts[what] + 1 /\ counts[what] \in Nat
      /\ \A w \in Counters : w # what => counts'[w] = counts[w]
      /\ Faults \in Nat
  BY <1>1, CountFacts, FaultsFacts
<1>3. what = "channels" => Faults' = Faults
  <2>1. {"channels"} \cap FaultKinds = {}
    BY DEF FaultKinds
  <2> QED
    BY <1>1, <2>1, FaultsStay
<1>4. what # "channels" => Faults' = Faults + 1
  <2>1. what # "channels" => what \in FaultKinds /\ {what} \cap FaultKinds = {what}
    BY DEF FaultKinds
  <2> QED
    BY <1>1, <2>1, FaultsGrow
<1>5. LostForAReason'
  <2>1. (Faults >= 1 => Faults' >= 1) /\ (Faults >= 2 => Faults' >= 2)
    BY <1>2, <1>3, <1>4
  <2> QED
    BY <2>1 DEF Blamed, LostForAReason
<1>6. NoneMissing'
  <2>1. /\ counts'["changes"] = counts["changes"] /\ counts'["configures"] = counts["configures"]
        /\ counts'["readings"] = counts["readings"] /\ counts'["events"] = counts["events"]
        /\ counts'["refused"] = counts["refused"] /\ counts'["failures"] = counts["failures"]
    BY <1>2 DEF Counters
  <2> QED
    BY <2>1 DEF NoneMissing, OnTheWay
<1> QED
  BY <1>2, <1>3, <1>4, <1>5, <1>6

LEMMA ConsumerDroppedCommon ==
  ASSUME Common, ConsumerDropped
  PROVE  Common'
<1>1. Types /\ Sound /\ NotAhead /\ Blamed /\ NoneMissing /\ Repeats
  BY DEF Common
<1>2. /\ Count({"drops"})
      /\ \E k \in channels, again \in {1, 2} : channels' = channels \ {k} /\ attempts' = attempts + again
      /\ UNCHANGED <<device, topics, queue, handling, cache, redis, start, snapshot, started, failed>>
  BY DEF ConsumerDropped, Happens, ingress, output
<1>3. /\ counts' \in [Counters -> Nat] /\ counts'["drops"] = counts["drops"] + 1 /\ counts["drops"] \in Nat
      /\ \A w \in Counters : w # "drops" => counts'[w] = counts[w]
      /\ Faults \in Nat /\ Faults' = Faults + 1 /\ NoneMissing' /\ LostForAReason'
  BY <1>1, <1>2, CountKeeps
<1>4. channels' \subseteq channels /\ attempts' \in Nat /\ start = "done"
  BY <1>1, <1>2 DEF Types, Sound
<1>5. Types'
  BY <1>1, <1>2, <1>3, <1>4 DEF Types
<1>6. Sound' /\ Repeats'
  <2>1. /\ counts'["events"] = counts["events"] /\ counts'["channels"] = counts["channels"]
        /\ counts'["crashes"] = counts["crashes"]
        /\ counts'["channels"] >= counts["channels"] /\ counts'["drops"] >= counts["drops"]
    BY <1>1, <1>3, FaultsFacts DEF Counters
  <2>2. channels \subseteq 1..counts["channels"]
    BY <1>1 DEF Sound
  <2> QED
    BY <1>2, <1>3, <1>4, <2>1, <2>2, QuietKeeps
<1>7. NotAhead'
  BY <1>1, <1>2 DEF NotAhead
<1>8. Blamed'
  <2>1. Faults' >= 1 /\ (Faults >= 2 => Faults' >= 2)
    BY <1>3
  <2> QED
    BY <1>1, <1>2, <1>3, <2>1 DEF Blamed
<1> QED
  BY <1>3, <1>5, <1>6, <1>7, <1>8 DEF Common

LEMMA ConsumerConnectsCommon ==
  ASSUME Common, ConsumerConnects
  PROVE  Common'
<1>1. Types /\ Sound /\ NotAhead /\ Blamed /\ NoneMissing /\ Repeats
  BY DEF Common
<1>2. /\ Count({"channels"}) /\ attempts > 0 /\ attempts' = attempts - 1
      /\ channels' = channels \cup {counts["channels"] + 1}
      /\ UNCHANGED <<device, topics, queue, handling, cache, redis, start, snapshot, started, failed>>
  BY DEF ConsumerConnects, ingress, output
<1>3. /\ counts' \in [Counters -> Nat] /\ counts'["channels"] = counts["channels"] + 1 /\ counts["channels"] \in Nat
      /\ \A w \in Counters : w # "channels" => counts'[w] = counts[w]
      /\ Faults \in Nat /\ Faults' = Faults /\ NoneMissing' /\ LostForAReason'
  BY <1>1, <1>2, CountKeeps
<1>4. attempts' \in Nat /\ channels' \in SUBSET Nat /\ start = "done"
  <2>1. attempts \in Nat /\ channels \in SUBSET Nat
    BY <1>1 DEF Types
  <2>2. attempts' \in Nat
    BY ONLY <1>2, <2>1
  <2>3. channels' \in SUBSET Nat
    <3>1. counts["channels"] + 1 \in Nat
      BY ONLY <1>3
    <3> QED
      BY <1>2, <2>1, <3>1
  <2>4. start = "done"
    BY <1>1, <1>2 DEF Sound
  <2> QED
    BY <2>2, <2>3, <2>4
<1>5. Types'
  BY <1>1, <1>2, <1>3, <1>4 DEF Types
<1>6. Sound' /\ Repeats'
  <2>1. /\ counts'["events"] = counts["events"] /\ counts'["drops"] = counts["drops"]
        /\ counts'["crashes"] = counts["crashes"]
        /\ counts'["channels"] >= counts["channels"] /\ counts'["drops"] >= counts["drops"]
    BY <1>1, <1>3, FaultsFacts DEF Counters
  <2>2. channels \subseteq 1..counts["channels"]
    BY <1>1 DEF Sound
  <2>3. /\ channels' \subseteq 1..counts'["channels"] /\ channels' \cap 1..counts["channels"] \subseteq channels
        /\ channels \subseteq channels'
    <3> DEFINE c == counts["channels"]
    <3>1. /\ channels' = channels \cup {c + 1} /\ c \in Nat /\ channels \subseteq 1..c
          /\ counts'["channels"] = c + 1
      BY <1>2, <1>3, <2>2
    <3> HIDE DEF c
    <3>2. 1..c \subseteq 1..(c + 1) /\ c + 1 \in 1..(c + 1) /\ c + 1 \notin 1..c
      BY ONLY <3>1
    <3>3. /\ channels' \subseteq 1..(c + 1) /\ channels' \cap 1..c \subseteq channels
          /\ channels \subseteq channels'
      BY ONLY <3>1, <3>2
    <3> QED
      BY <3>1, <3>3 DEF c
  <2> QED
    BY <1>2, <1>3, <1>4, <2>1, <2>3, QuietKeeps
<1>7. NotAhead'
  BY <1>1, <1>2 DEF NotAhead
<1>8. Blamed'
  BY <1>1, <1>2, <1>3 DEF Blamed
<1> QED
  BY <1>3, <1>5, <1>6, <1>7, <1>8 DEF Common

LEMMA RedisLostCommon ==
  ASSUME Common, RedisLost
  PROVE  Common'
<1>1. Types /\ Sound /\ NotAhead /\ Blamed /\ NoneMissing /\ Repeats
  BY DEF Common
<1>2. /\ Count({"losses"}) /\ redis = "ready" /\ redis' = "down"
      /\ UNCHANGED <<device, topics, queue, channels, attempts, handling, cache, start, snapshot, started, failed>>
  BY DEF RedisLost, Happens, ingress, output, consumer
<1>3. /\ counts' \in [Counters -> Nat]
      /\ \A w \in Counters : w # "losses" => counts'[w] = counts[w]
      /\ Faults \in Nat /\ Faults' = Faults + 1 /\ NoneMissing' /\ LostForAReason'
  BY <1>1, <1>2, CountKeeps
<1>4. Types'
  BY <1>1, <1>2, <1>3 DEF Types
<1>5. Sound' /\ Repeats'
  <2>1. /\ counts'["events"] = counts["events"] /\ counts'["channels"] = counts["channels"]
        /\ counts'["crashes"] = counts["crashes"] /\ counts'["drops"] = counts["drops"]
        /\ counts'["channels"] >= counts["channels"] /\ counts'["drops"] >= counts["drops"]
    BY <1>1, <1>3, FaultsFacts DEF Counters
  <2>2. channels \subseteq 1..counts["channels"] /\ (handling # {} \/ channels # {} \/ attempts > 0 => start = "done")
    BY <1>1 DEF Sound
  <2> QED
    BY <1>2, <1>3, <2>1, <2>2, QuietKeeps
<1>6. NotAhead'
  BY <1>1, <1>2 DEF NotAhead
<1>7. Blamed'
  <2>1. Faults' >= 1 /\ (Faults >= 1 => Faults' >= 2)
    BY <1>3
  <2> QED
    BY <1>1, <1>2, <1>3, <2>1 DEF Blamed
<1> QED
  BY <1>3, <1>4, <1>5, <1>6, <1>7 DEF Common

\* The first half holds in every state.
LEMMA CommonInd ==
  ASSUME IngestInv, IngestNext
  PROVE  Common'
<1>1. Common
  BY DEF IngestInv
<1>2. CASE ChangeDevice \/ Configure \/ PublishReading
  BY <1>1, <1>2, ChangeDeviceCommon, ConfigureCommon, PublishReadingCommon
<1>3. CASE PopulateReads \/ PopulateWrites
  BY <1>1, <1>3, PopulateReadsCommon, PopulateWritesCommon
<1>4. ASSUME NEW s \in Subject, Enqueue(s) \/ EnqueueFailed(s) PROVE Common'
  BY <1>1, <1>4, EnqueueCommon, EnqueueFailedCommon
<1>5. CASE Deliver
  BY <1>1, <1>5, DeliverCommon
<1>6. ASSUME NEW x \in handling, Step(x) PROVE Common'
  <2>1. CASE RedisReply(x)
    BY <1>1, <2>1, RedisReplyCommon
  <2>2. CASE DeviceManagerAnswers(x)
    BY <1>1, <2>2, DeviceManagerAnswersCommon
  <2>3. CASE HandleEvent(x)
    BY <1>1, <2>3, HandleEventCommon
  <2>4. CASE Ack(x)
    BY <1>1, <2>4, AcknowledgeCommon, RestartCommon DEF Ack
  <2>5. CASE RedisRefuses(x)
    BY <2>5, RedisRefusesCommon
  <2>6. CASE DeviceManagerFails(x)
    BY <2>6, DeviceManagerFailsCommon
  <2> QED
    BY <1>6, <2>1, <2>2, <2>3, <2>4, <2>5, <2>6 DEF Step
<1>7. CASE ConsumerDropped \/ ConsumerConnects
  BY <1>1, <1>7, ConsumerDroppedCommon, ConsumerConnectsCommon
<1>8. CASE RedisLost \/ RedisConnects
  BY <1>1, <1>8, RedisLostCommon, RedisConnectsCommon
<1>9. CASE Crash
  BY <1>1, <1>9, RestartCommon DEF Crash, Happens
<1> QED
  BY <1>2, <1>3, <1>4, <1>5, <1>6, <1>7, <1>8, <1>9 DEF IngestNext

-----------------------------------------------------------------------------
(* The second half: the device manager and the device *)

Turn == Common /\ InTurn

LEMMA TurnFacts ==
  ASSUME Turn
  PROVE  /\ Types /\ Sound /\ NotAhead /\ Blamed /\ Repeats
         /\ Alone /\ Ordered /\ Queued /\ Remembered /\ Versions
BY DEF Turn, Common, InTurn

LEMMA SentCounts ==
  ASSUME Types, NEW what \in {"changes", "configures", "readings", "events", "channels"}, Count({what})
  PROVE  /\ Faults' = Faults /\ counts'["refusals"] = counts["refusals"] /\ counts'["drops"] = counts["drops"]
         /\ counts["refusals"] \in Nat
<1>1. {what} \in SUBSET Counters /\ {what} \cap FaultKinds = {}
  BY DEF Counters, FaultKinds
<1>2. "refusals" \in FaultKinds /\ "drops" \in FaultKinds /\ "refusals" \in Counters
  BY DEF FaultKinds, Counters
<1> QED
  BY <1>1, <1>2, FaultsStay, FaultsFacts

\* A new version or the removal.
LEMMA ChangeDeviceTurn ==
  ASSUME Turn, ChangeDevice
  PROVE  InTurn'
<1> DEFINE T == topics["device-manager"]
           n == Len(T) + 1
<1>1. /\ UNCHANGED <<queue, channels, attempts, handling, cache, redis, start, snapshot, started, failed>>
      /\ Types /\ NotAhead /\ Alone /\ Ordered /\ Queued /\ Remembered /\ Versions
  BY TurnFacts DEF ChangeDevice, consumer
<1>0. /\ Faults' = Faults /\ counts'["refusals"] = counts["refusals"] /\ counts'["drops"] = counts["drops"]
  BY <1>1, SentCounts DEF ChangeDevice
<1>2. PICK e \in DeviceEvents :
        /\ device \in Nat /\ device' \in Removed..MaxVersion
        /\ Send("device-manager", e)
        /\ \/ device' = device + 1 /\ e.kind \in Change /\ e.version = device + 1
           \/ device > 0 /\ device' = Removed /\ e.kind = "remove" /\ e.version = 0
  <2>1. CASE /\ device \in 0..(MaxVersion - 1) /\ device' = device + 1
             /\ Send("device-manager",
                     DeviceEvent(IF device = 0 THEN "create" ELSE "update", device + 1))
    <3> DEFINE e == DeviceEvent(IF device = 0 THEN "create" ELSE "update", device + 1)
    <3>1. device' \in Removed..MaxVersion /\ device \in Nat /\ device + 1 \in 0..MaxVersion
      BY <2>1, IngestAssumption DEF Removed
    <3>2. e \in DeviceEvents /\ e.kind \in Change /\ e.version = device + 1
      BY <3>1 DEF DeviceEvents, DeviceEvent, Kinds, Change
    <3> QED
      BY <2>1, <3>1, <3>2
  <2>2. CASE /\ device > 0 /\ device' = Removed
             /\ Send("device-manager", DeviceEvent("remove", 0))
    <3>1. device' \in Removed..MaxVersion /\ device \in Nat
      BY <2>2, <1>1, IngestAssumption DEF Removed, Types
    <3>2. DeviceEvent("remove", 0) \in DeviceEvents
      BY IngestAssumption DEF DeviceEvents, DeviceEvent, Kinds, Change
    <3> QED
      BY <2>2, <3>1, <3>2 DEF DeviceEvent
  <2> QED
    BY <2>1, <2>2 DEF ChangeDevice
<1>3. /\ topics' \in [Subject -> Seq(DeviceEvents)] /\ topics'["device"] = topics["device"]
      /\ T \in Seq(DeviceEvents) /\ Len(T) \in Nat /\ DOMAIN T = 1..Len(T)
      /\ DOMAIN T' = 1..n /\ Len(T') = n /\ T'[n] = e /\ n \in DOMAIN T'
      /\ \A i \in DOMAIN T : T'[i] = T[i]
  BY <1>1, <1>2, SendFacts DEF Subject
<1>4. (\A i \in DOMAIN T' : i = n \/ i \in DOMAIN T) /\ DOMAIN T \subseteq DOMAIN T'
  BY <1>3
<1>6. /\ \A d \in queue : d.event.version \in Nat
      /\ \A i \in DOMAIN T : T[i].version \in Nat
      /\ \A x \in handling : x.info \in Nat
      /\ cache \in Nat /\ snapshot \in Int /\ e.version \in Nat
  BY <1>1, <1>2, Typed DEF Subject
<1>7. device # Removed /\ Removed = -1 /\ Len(T) # n
  BY <1>2, <1>3 DEF Removed
<1>8. /\ \A i \in DOMAIN T : T[i].version <= device
      /\ \A d \in queue : d.event.version <= device
  BY <1>1, <1>7 DEF NotAhead, Subject
<1> HIDE DEF T, n
<1>11. Alone' /\ Queued'
  BY <1>1 DEF Alone, Queued
<1>13. Ordered'
  <2>1. \A i \in DOMAIN T' : T'[i].kind = "remove" => device' = Removed /\ i = Len(T')
    BY <1>1, <1>2, <1>3, <1>4, <1>7 DEF Ordered, T, Change
  <2>2. \A i, j \in DOMAIN T' : i < j /\ T'[j].kind \in Change => T'[i].version < T'[j].version
    <3> SUFFICES ASSUME NEW i \in DOMAIN T', NEW j \in DOMAIN T', i < j, T'[j].kind \in Change
                 PROVE  T'[i].version < T'[j].version
      OBVIOUS
    <3>1. i \in DOMAIN T
      BY <1>3, <1>4
    <3>2. CASE j \in DOMAIN T
      BY <1>1, <1>3, <3>1, <3>2 DEF Ordered, T
    <3>3. CASE j = n
      <4>1. e.version = device + 1
        BY <1>2, <1>3, <3>3 DEF Change
      <4> QED
        BY <1>2, <1>3, <1>6, <1>8, <3>1, <3>3, <4>1
    <3> QED
      BY <1>3, <1>4, <3>2, <3>3
  <2>3. \A i \in DOMAIN T' : T'[i].kind \in Change => \A d \in queue : d.event.version < T'[i].version
    <3> SUFFICES ASSUME NEW i \in DOMAIN T', T'[i].kind \in Change, NEW d \in queue
                 PROVE  d.event.version < T'[i].version
      OBVIOUS
    <3>2. CASE i \in DOMAIN T
      BY <1>1, <1>3, <3>2 DEF Ordered, T
    <3>3. CASE i = n
      <4>1. e.version = device + 1
        BY <1>2, <1>3, <3>3 DEF Change
      <4> QED
        BY <1>2, <1>3, <1>6, <1>8, <3>3, <4>1
    <3> QED
      BY <1>3, <1>4, <3>2, <3>3
  <2>4. \A d \in queue : d.event.kind # "remove"
    BY <1>1, <1>7 DEF Ordered
  <2> QED
    BY <1>1, <1>3, <2>1, <2>2, <2>3, <2>4 DEF Ordered, T
<1>16. Remembered'
  <2>2. Unwritten \/ cache > 0 => Unwritten' \/ cache' > 0
    BY <1>1, <1>3, <1>4 DEF Unwritten, T
  <2>3. CASE e.kind \in Change
    <3>1. Unwritten'
      BY <1>3, <2>3 DEF Unwritten, T
    <3> QED
      BY <1>0, <1>1, <3>1 DEF Remembered
  <2>4. CASE e.kind \notin Change
    BY <1>0, <1>1, <1>2, <2>2, <2>4 DEF Remembered
  <2> QED
    BY <2>3, <2>4
<1>17. Versions'
  <2>1. \A v : Current(v)' = Current(v) /\ Fresh(v)' = Fresh(v)
    BY <1>1 DEF Current, Fresh
  <2>2. Current(device)
    BY <1>1, <1>7 DEF Versions
  <2>3. Current(device + 1)
    <3>1. \A i \in DOMAIN started : started[i].version \in Nat
      BY <1>1, Typed
    <3> QED
      BY <2>2, <3>1, <1>2 DEF Current
  <2>4. NoOlderTemplates'
    BY <1>0, <1>1 DEF Versions, NoOlderTemplates
  <2>5. device' # Removed => Current(device')
    BY <1>2, <2>3
  <2>6. \A i \in DOMAIN T' : T'[i].kind \in Change => Current(T'[i].version)
    <3> SUFFICES ASSUME NEW i \in DOMAIN T', T'[i].kind \in Change PROVE Current(T'[i].version)
      OBVIOUS
    <3>1. CASE i = n
      BY <1>2, <1>3, <2>3, <3>1 DEF Change
    <3>2. CASE i \in DOMAIN T
      BY <1>1, <1>3, <3>2 DEF Versions, T
    <3> QED
      BY <1>3, <1>4, <3>1, <3>2
  <2> QED
    BY <1>0, <1>1, <2>1, <2>4, <2>5, <2>6 DEF Versions, T
<1> QED
  BY <1>11, <1>13, <1>16, <1>17 DEF InTurn

\* A message that changes nothing at the device manager.
LEMMA MessageTurn ==
  ASSUME Turn, NEW subject \in Subject, NEW e \in DeviceEvents, NEW what \in {"configures", "readings"},
         Send(subject, e), Count({what}),
         device > 0, e.kind \notin Change, e.kind # "remove", subject = "device" => e.kind = "publish",
         UNCHANGED <<device, queue, consumer, handling, cache, redis, start, snapshot, started, failed>>
  PROVE  InTurn'
<1> DEFINE T == topics["device-manager"]
           P == topics["device"]
<1>1. Types /\ NotAhead /\ Alone /\ Ordered /\ Queued /\ Remembered /\ Versions
  BY TurnFacts
<1>2. channels' = channels /\ attempts' = attempts
  BY DEF consumer
<1>3. /\ Faults' = Faults /\ counts'["refusals"] = counts["refusals"] /\ counts'["drops"] = counts["drops"]
  BY <1>1, SentCounts
<1>4. /\ topics' \in [Subject -> Seq(DeviceEvents)]
      /\ \A s \in Subject : s # subject => topics'[s] = topics[s]
      /\ Len(topics[subject]) \in Nat /\ DOMAIN topics[subject] = 1..Len(topics[subject])
      /\ DOMAIN topics'[subject] = 1..(Len(topics[subject]) + 1)
      /\ Len(topics'[subject]) = Len(topics[subject]) + 1
      /\ topics'[subject][Len(topics[subject]) + 1] = e
      /\ \A i \in DOMAIN topics[subject] : topics'[subject][i] = topics[subject][i]
  BY <1>1, SendFacts
<1>5. ASSUME NEW s \in Subject
      PROVE  /\ DOMAIN topics[s] \subseteq DOMAIN topics'[s]
             /\ \A i \in DOMAIN topics[s] : topics'[s][i] = topics[s][i]
             /\ \A i \in DOMAIN topics'[s] \ DOMAIN topics[s] : topics'[s][i] = e /\ s = subject
  <2>1. CASE s # subject
    BY <1>4, <2>1
  <2>2. CASE s = subject
    <3> DEFINE l == Len(topics[subject])
    <3>1. l \in Nat /\ DOMAIN topics[subject] = 1..l /\ DOMAIN topics'[subject] = 1..(l + 1)
      BY <1>4
    <3> HIDE DEF l
    <3>2. DOMAIN topics[subject] \subseteq DOMAIN topics'[subject]
          /\ \A i \in DOMAIN topics'[subject] \ DOMAIN topics[subject] : i = l + 1
      BY ONLY <3>1
    <3> QED
      BY <1>4, <2>2, <3>2 DEF l
  <2> QED
    BY <2>1, <2>2
<1>6. /\ DOMAIN T \subseteq DOMAIN T' /\ \A i \in DOMAIN T : T'[i] = T[i]
      /\ \A i \in DOMAIN T' \ DOMAIN T : T'[i] = e
      /\ \A i \in DOMAIN P' : P'[i].kind = "publish"
  <2>1. \A i \in DOMAIN P : P[i].kind = "publish"
    BY <1>1 DEF Ordered
  <2> QED
    BY <1>5, <2>1 DEF Subject
<1>7. device # Removed /\ Removed = -1 /\ device \in Nat
  BY <1>1, Typed DEF Removed
<1>8. \A d \in queue : d.event.kind # "remove"
  BY <1>1, <1>7, Typed DEF Ordered
<1>9. \A i \in DOMAIN T' : T'[i].kind # "remove"
  BY <1>1, <1>6, <1>7 DEF Ordered, T
<1>10. \A i \in DOMAIN T' : T'[i].kind \in Change => i \in DOMAIN T
  BY <1>6
<1>11. \A i, j \in DOMAIN T' : i < j /\ j \in DOMAIN T => i \in DOMAIN T
  <2>1. T' \in Seq(DeviceEvents) /\ T \in Seq(DeviceEvents)
    BY <1>1, <1>4, Typed DEF Subject
  <2>2. /\ DOMAIN T' = 1..Len(T') /\ DOMAIN T = 1..Len(T) /\ Len(T) \in Nat /\ Len(T') \in Nat
    BY <2>1, LenProperties
  <2> QED
    BY ONLY <2>2
<1> HIDE DEF T, P
<1>13. Alone' /\ Queued'
  BY <1>1, <1>2 DEF Alone, Queued
<1>15. Ordered'
  <2>1. \A i, j \in DOMAIN T' : i < j /\ T'[j].kind \in Change => T'[i].version < T'[j].version
    BY <1>1, <1>6, <1>10, <1>11 DEF Ordered, T
  <2>2. \A i \in DOMAIN T' : T'[i].kind \in Change => \A d \in queue : d.event.version < T'[i].version
    BY <1>1, <1>6, <1>10 DEF Ordered, T
  <2>3. \A d, o \in queue :
          d.id < o.id /\ o.event.kind \in Change => d.event.version < o.event.version
    BY <1>1 DEF Ordered
  <2> QED
    BY <1>6, <1>8, <1>9, <2>1, <2>2, <2>3 DEF Ordered, T, P
<1>18. Remembered'
  <2>1. Unwritten => Unwritten'
    BY <1>6 DEF Unwritten, T
  <2> QED
    BY <1>1, <1>3, <2>1 DEF Remembered
<1>19. Versions'
  <2>1. \A v : Current(v)' = Current(v) /\ Fresh(v)' = Fresh(v)
    BY DEF Current, Fresh
  <2>2. NoOlderTemplates' = NoOlderTemplates
    BY <1>3 DEF NoOlderTemplates
  <2>3. \A i \in DOMAIN T' : T'[i].kind \in Change => Current(T'[i].version)
    BY <1>1, <1>6, <1>10 DEF Versions, T
  <2> QED
    BY <1>1, <1>3, <2>1, <2>2, <2>3 DEF Versions, T
<1> QED
  BY <1>13, <1>15, <1>18, <1>19 DEF InTurn

LEMMA ConfigureTurn == ASSUME Turn, Configure PROVE InTurn'
<1>1. DeviceEvent("configure", 0) \in DeviceEvents
  BY IngestAssumption DEF DeviceEvents, DeviceEvent, Kinds, Change
<1> QED
  BY <1>1, MessageTurn DEF Configure, DeviceEvent, Happens, Subject, Change

LEMMA PublishReadingTurn == ASSUME Turn, PublishReading PROVE InTurn'
<1>1. DeviceEvent("publish", 0) \in DeviceEvents
  BY IngestAssumption DEF DeviceEvents, DeviceEvent, Kinds, Change
<1> QED
  BY <1>1, MessageTurn DEF PublishReading, DeviceEvent, Happens, Subject, Change

-----------------------------------------------------------------------------
(* The second half: init and _enqueueEvent *)

LEMMA PopulateReadsTurn ==
  ASSUME Turn, PopulateReads
  PROVE  InTurn'
<1>1. Types /\ Sound /\ Alone /\ Ordered /\ Queued /\ Remembered /\ Versions
  BY TurnFacts
<1>2. /\ UNCHANGED <<device, topics, queue, channels, attempts, handling, cache, redis, started, failed, counts>>
  BY DEF PopulateReads, ingress, output, consumer
<1>3. start # "done" /\ start' = "writing" /\ snapshot' = device /\ handling = {}
  BY <1>1 DEF PopulateReads, Sound
<1>4. device \in Int /\ Removed = -1
  BY <1>1, Typed
<1>5. Alone' /\ Queued' /\ Ordered'
  BY <1>1, <1>2 DEF Alone, Queued, Ordered
<1>6. Remembered'
  BY <1>1, <1>2, <1>3 DEF Remembered, Faults, Unwritten, RemovalAhead
<1>7. Versions'
  BY <1>1, <1>2, <1>3, <1>4 DEF Versions, NoOlderTemplates, Current, Fresh
<1> QED
  BY <1>5, <1>6, <1>7 DEF InTurn

\* What populate writes is as new as any change handled.
LEMMA PopulateWritesTurn ==
  ASSUME Turn, PopulateWrites
  PROVE  InTurn'
<1>1. Types /\ Sound /\ Alone /\ Ordered /\ Queued /\ Remembered /\ Versions
  BY TurnFacts
<1> DEFINE what == IF redis = "ready" THEN {} ELSE {"blind"}
<1>2. /\ UNCHANGED <<device, topics, queue, channels, handling, redis, snapshot, started, failed>>
      /\ attempts' = 1 /\ Count(what) /\ start = "writing" /\ start' = "done"
      /\ cache' \in IF snapshot > 0 THEN {snapshot, Nothing} ELSE {cache}
      /\ snapshot > 0 => redis = "ready"
  BY DEF PopulateWrites, ingress, output
<1>3. handling = {} /\ channels = {}
  BY <1>1, <1>2 DEF Sound
<1>4. cache' = cache \/ cache' = Nothing \/ (snapshot > 0 /\ cache' = snapshot)
  BY <1>2
<1>5. what \in SUBSET Counters /\ (redis = "ready" \/ redis = "down")
  BY <1>1 DEF Counters, Types
<1>6. /\ counts'["refusals"] = counts["refusals"] /\ counts'["drops"] = counts["drops"]
  BY <1>1, <1>2, <1>5, CountFacts DEF Counters
<1>7. Faults' = 0 => Faults = 0 /\ redis = "ready"
  <2>1. redis = "ready" => what \cap FaultKinds = {}
    OBVIOUS
  <2>2. redis = "down" => what \cap FaultKinds = {"blind"} /\ "blind" \in FaultKinds
    BY DEF FaultKinds
  <2> HIDE DEF what
  <2>3. Faults \in Nat /\ (redis = "ready" => Faults' = Faults) /\ (redis = "down" => Faults' = Faults + 1)
    BY <1>1, <1>2, <1>5, <2>1, <2>2, FaultsFacts, FaultsStay, FaultsGrow
  <2> QED
    BY <1>5, <2>3
<1>8. Alone' /\ Queued' /\ Ordered'
  BY <1>1, <1>2, <1>3 DEF Alone, Queued, Ordered
<1>9. Remembered'
  <2>1. Unwritten' = Unwritten /\ RemovalAhead' = RemovalAhead
    BY <1>2 DEF Unwritten, RemovalAhead
  <2>2. Faults = 0 => (device > 0 \/ RemovalAhead => Unwritten)
    <3>1. Faults = 0 => cache = Nothing /\ (device > 0 \/ RemovalAhead => Unwritten \/ cache > 0)
      BY <1>1, <1>2 DEF Remembered
    <3>2. ~(0 > 0)
      OBVIOUS
    <3> QED
      BY <3>1, <3>2, Zenon DEF Nothing
  <2> QED
    BY <1>2, <1>3, <1>7, <2>1, <2>2 DEF Remembered
<1>10. Versions'
  <2>1. \A v : Current(v)' = Current(v)
    BY <1>2 DEF Current
  <2>2. counts["refusals"] = 0 /\ redis = "ready" => Fresh(cache)'
    BY <1>1, <1>2, <1>4, <2>1 DEF Versions, Fresh
  <2>3. NoOlderTemplates' = NoOlderTemplates
    BY <1>2, <1>6 DEF NoOlderTemplates
  <2> QED
    BY <1>1, <1>2, <1>3, <1>6, <2>1, <2>2, <2>3 DEF Versions
<1> QED
  BY <1>8, <1>9, <1>10 DEF InTurn
\* What is left of the subjects is still in order.
LEMMA TakeOrdered ==
  ASSUME Types, Ordered, NEW subject \in Subject, topics[subject] # <<>>,
         topics' = [topics EXCEPT ![subject] = Tail(@)]
  PROVE  LET T == topics["device-manager"]
             P == topics["device"] IN
         /\ \A i \in DOMAIN P' : P'[i].kind = "publish"
         /\ \A i, j \in DOMAIN T' : i < j /\ T'[j].kind \in Change => T'[i].version < T'[j].version
         /\ \A i \in DOMAIN T' : T'[i].kind = "remove" => device = Removed /\ i = Len(T')
         /\ \A i \in DOMAIN T' : T'[i].kind \in Change => \A d \in queue : d.event.version < T'[i].version
         /\ T = <<>> => T' = <<>>
<1> DEFINE T == topics["device-manager"]
           P == topics["device"]
<1>1. PICK n \in {0, 1}, k \in {0, 1} :
         /\ topics' \in [Subject -> Seq(DeviceEvents)]
         /\ Len(T') = Len(T) - n /\ Len(T) \in Nat
         /\ DOMAIN T = 1..Len(T) /\ DOMAIN T' = 1..(Len(T) - n)
         /\ \A i \in DOMAIN T' : i + n \in DOMAIN T /\ T'[i] = T[i + n]
         /\ \A i \in DOMAIN P' : i + k \in DOMAIN P /\ P'[i] = P[i + k]
         /\ T = <<>> => n = 0
  BY TakeFacts DEF Subject, TakenFrom
<1>2. T = <<>> => T' = <<>>
  <2>1. T' \in Seq(DeviceEvents)
    BY <1>1 DEF Subject
  <2> QED
    BY <1>1, <2>1, EmptySeq
<1> HIDE DEF T, P
<1>3. /\ \A i \in DOMAIN P : P[i].kind = "publish"
      /\ \A i, j \in DOMAIN T : i < j /\ T[j].kind \in Change => T[i].version < T[j].version
      /\ \A i \in DOMAIN T : T[i].kind = "remove" => device = Removed /\ i = Len(T)
      /\ \A i \in DOMAIN T : T[i].kind \in Change => \A d \in queue : d.event.version < T[i].version
  BY DEF Ordered, T, P
<1>4. \A i \in DOMAIN P' : P'[i].kind = "publish"
  BY <1>1, <1>3
<1>5. ASSUME NEW i \in DOMAIN T', NEW j \in DOMAIN T', i < j, T'[j].kind \in Change
      PROVE  T'[i].version < T'[j].version
  <2>1. /\ i + n \in DOMAIN T /\ T'[i] = T[i + n]
        /\ j + n \in DOMAIN T /\ T'[j] = T[j + n]
    BY <1>1
  <2>2. i + n < j + n
    BY <1>1, <1>5
  <2> QED
    BY <1>3, <1>5, <2>1, <2>2
<1>6. ASSUME NEW i \in DOMAIN T', T'[i].kind = "remove" PROVE device = Removed /\ i = Len(T')
  <2>1. i + n \in DOMAIN T /\ T'[i] = T[i + n]
    BY <1>1
  <2>2. device = Removed /\ i + n = Len(T)
    BY <1>3, <1>6, <2>1
  <2> QED
    BY <1>1, <2>2
<1>7. ASSUME NEW i \in DOMAIN T', T'[i].kind \in Change, NEW d \in queue
      PROVE  d.event.version < T'[i].version
  <2>1. i + n \in DOMAIN T /\ T'[i] = T[i + n]
    BY <1>1
  <2> QED
    BY <1>3, <1>7, <2>1
<1> QED
  BY <1>2, <1>4, <1>5, <1>6, <1>7 DEF T, P


\* What the producer refuses leaves the others in order.
LEMMA EnqueueFailedTurn ==
  ASSUME Turn, NEW subject \in Subject, EnqueueFailed(subject)
  PROVE  InTurn'
<1> DEFINE T == topics["device-manager"]
           P == topics["device"]
<1>1. Types /\ Sound /\ NotAhead /\ Alone /\ Ordered /\ Queued /\ Remembered /\ Versions
  BY TurnFacts
<1>2. /\ UNCHANGED <<device, queue, channels, attempts, handling, cache, redis, start, snapshot, started, failed>>
      /\ Count({"failures", "refused"})
  BY DEF EnqueueFailed, output, consumer
<1>3. /\ Faults' = Faults + 1 /\ Faults \in Nat
      /\ counts'["refusals"] = counts["refusals"] /\ counts'["drops"] = counts["drops"]
  <2>1. /\ {"failures", "refused"} \in SUBSET Counters /\ "failures" \in FaultKinds
        /\ {"failures", "refused"} \cap FaultKinds = {"failures"}
        /\ "refusals" \in Counters \ {"failures", "refused"} /\ "drops" \in Counters \ {"failures", "refused"}
    BY DEF Counters, FaultKinds
  <2> QED
    BY <1>1, <1>2, <2>1, CountFacts, FaultsGrow, FaultsFacts
<1>4. PICK n \in {0, 1}, k \in {0, 1} :
         /\ topics' \in [Subject -> Seq(DeviceEvents)]
         /\ Len(T') = Len(T) - n /\ Len(T) \in Nat
         /\ DOMAIN T = 1..Len(T) /\ DOMAIN T' = 1..(Len(T) - n)
         /\ \A i \in DOMAIN T' : i + n \in DOMAIN T /\ T'[i] = T[i + n]
         /\ \A i \in DOMAIN P' : i + k \in DOMAIN P /\ P'[i] = P[i + k]
         /\ T = <<>> => n = 0
  BY <1>1, TakeFacts DEF EnqueueFailed, Subject, TakenFrom
<1> HIDE DEF T, P
<1>11. Alone' /\ Queued'
  BY <1>1, <1>2 DEF Alone, Queued
<1>13. Ordered'
  <2>1. /\ \A i \in DOMAIN P' : P'[i].kind = "publish"
        /\ \A i, j \in DOMAIN T' : i < j /\ T'[j].kind \in Change => T'[i].version < T'[j].version
        /\ \A i \in DOMAIN T' : T'[i].kind = "remove" => device = Removed /\ i = Len(T')
        /\ \A i \in DOMAIN T' : T'[i].kind \in Change => \A d \in queue : d.event.version < T'[i].version
        /\ T = <<>> => T' = <<>>
    BY <1>1, TakeOrdered DEF EnqueueFailed, T, P
  <2>5. \A d \in queue :
          d.event.kind = "remove" =>
            /\ device = Removed /\ T' = <<>>
            /\ \A o \in queue : /\ o.event.kind \in Change => o.id < d.id
                                /\ o.event.kind = "remove" => o = d
    BY <1>1, <2>1 DEF Ordered, T
  <2>6. \A d, o \in queue :
          d.id < o.id /\ o.event.kind \in Change => d.event.version < o.event.version
    BY <1>1 DEF Ordered
  <2> QED
    BY <1>2, <2>1, <2>5, <2>6 DEF Ordered, T, P
<1>16. Remembered'
  <2>1. Faults' # 0
    BY ONLY <1>3
  <2> QED
    BY <2>1 DEF Remembered
<1>17. Versions'
  <2>1. \A v : Current(v)' = Current(v) /\ Fresh(v)' = Fresh(v)
    BY <1>2 DEF Current, Fresh
  <2>2. NoOlderTemplates' = NoOlderTemplates
    BY <1>2, <1>3 DEF NoOlderTemplates
  <2>3. \A i \in DOMAIN T' : T'[i].kind \in Change => Current(T'[i].version)
    BY <1>1, <1>4 DEF Versions, T
  <2> QED
    BY <1>1, <1>2, <1>3, <2>1, <2>2, <2>3 DEF Versions, T
<1> QED
  BY <1>11, <1>13, <1>16, <1>17 DEF InTurn

\* The first message of a subject becomes the last event of the queue.
LEMMA EnqueueTurn ==
  ASSUME Turn, NEW subject \in Subject, Enqueue(subject)
  PROVE  InTurn'
<1> DEFINE T == topics["device-manager"]
           P == topics["device"]
           id == counts["events"] + 1
<1>1. Types /\ Sound /\ NotAhead /\ Alone /\ Ordered /\ Queued /\ Remembered /\ Versions
  BY TurnFacts
<1>2. /\ UNCHANGED <<device, channels, attempts, handling, cache, redis, start, snapshot, started, failed>>
      /\ Count({"events"}) /\ start = "done"
  BY DEF Enqueue, output, consumer
<1>3. /\ Faults' = Faults /\ counts["events"] \in Nat
      /\ counts'["refusals"] = counts["refusals"] /\ counts'["drops"] = counts["drops"]
  BY <1>1, <1>2, SentCounts DEF Types, Counters
<1>4. PICK n \in {0, 1}, k \in {0, 1}, e \in DeviceEvents :
         /\ topics' \in [Subject -> Seq(DeviceEvents)]
         /\ Len(T') = Len(T) - n /\ Len(T) \in Nat
         /\ DOMAIN T = 1..Len(T) /\ DOMAIN T' = 1..(Len(T) - n)
         /\ \A i \in DOMAIN T' : i + n \in DOMAIN T /\ T'[i] = T[i + n]
         /\ \A i \in DOMAIN P' : i + k \in DOMAIN P /\ P'[i] = P[i + k]
         /\ T = <<>> => n = 0
         /\ n = 1 => 1 \in DOMAIN T /\ e = T[1] /\ T # <<>>
         /\ n = 0 => 1 \in DOMAIN P /\ e = P[1]
         /\ queue' = queue \cup {[id |-> id, event |-> e]}
  <2>1. topics[subject] # <<>> /\ topics' = [topics EXCEPT ![subject] = Tail(@)]
        /\ queue' = queue \cup {[id |-> id, event |-> Head(topics[subject])]}
    BY DEF Enqueue
  <2>2. CASE subject = "device-manager"
    <3>1. /\ topics' \in [Subject -> Seq(DeviceEvents)]
          /\ Len(T') = Len(T) - 1 /\ Len(T) \in Nat
          /\ DOMAIN T = 1..Len(T) /\ DOMAIN T' = 1..(Len(T) - 1)
          /\ \A i \in DOMAIN T' : i + 1 \in DOMAIN T /\ T'[i] = T[i + 1]
          /\ \A i \in DOMAIN P' : i + 0 \in DOMAIN P /\ P'[i] = P[i + 0]
          /\ 1 \in DOMAIN T /\ T[1] \in DeviceEvents /\ T # <<>>
          /\ queue' = queue \cup {[id |-> id, event |-> T[1]]}
      <4>1. TakenFrom(subject, 1, 0)
        BY <1>1, <2>1, <2>2, TakeFacts
      <4> QED
        BY <2>1, <2>2, <4>1, Zenon DEF TakenFrom
    <3>2. T[1] \in DeviceEvents
      BY <3>1
    <3> WITNESS 1 \in {0, 1}, 0 \in {0, 1}, T[1] \in DeviceEvents
    <3> QED
      BY <3>1
  <2>3. CASE subject = "device"
    <3>1. /\ topics' \in [Subject -> Seq(DeviceEvents)]
          /\ Len(T') = Len(T) - 0 /\ Len(T) \in Nat
          /\ DOMAIN T = 1..Len(T) /\ DOMAIN T' = 1..(Len(T) - 0)
          /\ \A i \in DOMAIN T' : i + 0 \in DOMAIN T /\ T'[i] = T[i + 0]
          /\ \A i \in DOMAIN P' : i + 1 \in DOMAIN P /\ P'[i] = P[i + 1]
          /\ 1 \in DOMAIN P /\ P[1] \in DeviceEvents
          /\ queue' = queue \cup {[id |-> id, event |-> P[1]]}
      <4>1. TakenFrom(subject, 0, 1)
        BY <1>1, <2>1, <2>3, TakeFacts
      <4> QED
        BY <2>1, <2>3, <4>1, Zenon DEF TakenFrom
    <3>2. P[1] \in DeviceEvents
      BY <3>1
    <3> WITNESS 0 \in {0, 1}, 1 \in {0, 1}, P[1] \in DeviceEvents
    <3> QED
      BY <3>1
  <2> QED
    BY <2>2, <2>3 DEF Subject
<1> DEFINE new == [id |-> id, event |-> e]
<1>6. new.id = id /\ new.event = e /\ queue' = queue \cup {new} /\ id \in Nat /\ e.version \in Nat
  BY <1>3, <1>4, Typed, <1>1 DEF DeviceEvents
<1>7. \A d \in queue : d.id < id /\ d.id \in Nat /\ d.event.version \in Nat
  BY <1>1, <1>3, Typed DEF Sound
<1>8. \A x \in handling : x.id < id /\ x.id \in Nat
  BY <1>1, <1>3, Typed DEF Sound
<1>9. \A i \in DOMAIN T : T[i].version \in Nat
  BY <1>1, Typed DEF Subject
<1>10. n = 0 => e.kind = "publish" /\ e.version = 0
  <2>1. n = 0 => e.kind = "publish"
    BY <1>1, <1>4 DEF Ordered, P
  <2> QED
    BY <2>1 DEF DeviceEvents, Change
<1>11. new \in [id : Nat, event : DeviceEvents]
  BY <1>6
<1> HIDE DEF T, P, id, new
<1>21. Alone'
  BY <1>1, <1>2, <1>6, <1>8 DEF Alone
<1>23. Ordered'
  <2>1. /\ \A i \in DOMAIN P' : P'[i].kind = "publish"
        /\ \A i, j \in DOMAIN T' : i < j /\ T'[j].kind \in Change => T'[i].version < T'[j].version
        /\ \A i \in DOMAIN T' : T'[i].kind = "remove" => device = Removed /\ i = Len(T')
        /\ \A i \in DOMAIN T' : T'[i].kind \in Change => \A d \in queue : d.event.version < T'[i].version
        /\ T = <<>> => T' = <<>>
    BY <1>1, TakeOrdered DEF Enqueue, T, P
  <2>4. \A i \in DOMAIN T' : T'[i].kind \in Change => \A d \in queue' : d.event.version < T'[i].version
    <3> SUFFICES ASSUME NEW i \in DOMAIN T', T'[i].kind \in Change, NEW d \in queue'
                 PROVE  d.event.version < T'[i].version
      OBVIOUS
    <3>1. CASE d \in queue
      BY <2>1, <3>1
    <3>2. CASE d = new /\ n = 1
      <4>1. 1 < i + n /\ i + n \in DOMAIN T /\ 1 \in DOMAIN T /\ T[i + n] = T'[i]
        BY <1>4, <3>2
      <4>2. T[1].version < T[i + n].version
        BY <1>1, <4>1 DEF Ordered, T
      <4> QED
        BY <1>4, <1>6, <3>2, <4>1, <4>2
    <3>3. CASE d = new /\ n = 0
      <4>1. T'[i] \in DeviceEvents /\ i \in DOMAIN T /\ T'[i] = T[i]
        BY <1>4, <1>1, <3>3, Typed DEF Subject, T
      <4>2. T'[i].version > 0
        BY <4>1 DEF DeviceEvents
      <4> QED
        BY <1>6, <1>10, <3>3, <4>2
    <3> QED
      BY <1>4, <1>6, <3>1, <3>2, <3>3
  <2>5. \A d \in queue : d.event.kind = "remove" => n = 0
    BY <1>1, <1>4 DEF Ordered, T
  <2>6. e.kind = "remove" => n = 1 /\ device = Removed /\ Len(T) = 1
    BY <1>1, <1>4, <1>10 DEF Ordered, T
  <2>7. ASSUME e.kind = "remove" PROVE T' = <<>>
    <3>1. T' \in Seq(DeviceEvents)
      BY <1>4 DEF Subject, T
    <3>2. Len(T') = 0
      <4>1. Len(T') = Len(T) - n /\ n = 1 /\ Len(T) = 1
        BY <1>4, <2>6, <2>7
      <4> QED
        BY <4>1
    <3> QED
      BY <3>1, <3>2, EmptySeq
  <2>8. \A d \in queue' :
          d.event.kind = "remove" =>
            /\ device = Removed /\ T' = <<>>
            /\ \A o \in queue' : /\ o.event.kind \in Change => o.id < d.id
                                 /\ o.event.kind = "remove" => o = d
    <3> SUFFICES ASSUME NEW d \in queue', d.event.kind = "remove"
                 PROVE  /\ device = Removed /\ T' = <<>>
                        /\ \A o \in queue' : /\ o.event.kind \in Change => o.id < d.id
                                             /\ o.event.kind = "remove" => o = d
      OBVIOUS
    <3>1. CASE d = new
      <4>1. \A o \in queue : o.event.kind # "remove"
        BY <1>6, <2>5, <2>6, <3>1
      <4> QED
        BY <1>6, <1>7, <2>6, <2>7, <3>1, <4>1 DEF Change
    <3>2. CASE d \in queue
      <4>1. device = Removed /\ T = <<>> /\ n = 0
        BY <1>1, <3>2, <2>5 DEF Ordered, T
      <4>2. \A o \in queue : /\ o.event.kind \in Change => o.id < d.id
                             /\ o.event.kind = "remove" => o = d
        BY <1>1, <3>2 DEF Ordered
      <4> QED
        BY <1>6, <1>10, <2>1, <4>1, <4>2 DEF Change
    <3> QED
      BY <1>6, <3>1, <3>2
  <2>9. \A d, o \in queue' :
          d.id < o.id /\ o.event.kind \in Change => d.event.version < o.event.version
    <3> SUFFICES ASSUME NEW d \in queue', NEW o \in queue', d.id < o.id, o.event.kind \in Change
                 PROVE  d.event.version < o.event.version
      OBVIOUS
    <3>1. CASE o = new
      <4>1. d \in queue /\ n = 1
        BY <1>6, <1>10, <3>1 DEF Change
      <4> QED
        BY <1>1, <1>4, <1>6, <3>1, <4>1 DEF Ordered, T
    <3>2. CASE o \in queue
      <4>1. d \in queue
        BY <1>6, <1>7, <3>2
      <4> QED
        BY <1>1, <3>2, <4>1 DEF Ordered
    <3> QED
      BY <1>6, <3>1, <3>2
  <2> QED
    BY <1>2, <2>1, <2>4, <2>8, <2>9 DEF Ordered, T, P
<1>24. Queued'
  <2>2. \A i \in DOMAIN started : started[i].id <= counts["events"] /\ started[i].id \in Nat
    BY <1>1, Typed DEF Sound
  <2>3. \A i \in DOMAIN started : started[i].id <= id
    BY <1>3, <2>2 DEF id
  <2> QED
    BY <1>1, <1>2, <1>6, <2>3 DEF Queued
<1>26. Remembered'
  <2> SUFFICES ASSUME Faults = 0, device > 0 \/ RemovalAhead' PROVE Unwritten' \/ cache > 0
    BY <1>1, <1>2, <1>3 DEF Remembered
  <2>1. device > 0 \/ RemovalAhead
    <3> SUFFICES ASSUME RemovalAhead' PROVE RemovalAhead
      OBVIOUS
    <3>1. CASE \E i \in DOMAIN T' : T'[i].kind = "remove"
      BY <1>4, <3>1 DEF RemovalAhead, T
    <3>2. CASE \E d \in queue' : d.event.kind = "remove" /\ \A x \in handling : x.phase # "getting" => x.id # d.id
      <4>1. PICK d \in queue' : d.event.kind = "remove" /\ \A x \in handling : x.phase # "getting" => x.id # d.id
        BY <3>2
      <4>2. CASE d \in queue
        BY <4>1, <4>2 DEF RemovalAhead
      <4>3. CASE d = new
        <5>1. n = 1
          BY <1>6, <1>10, <4>1, <4>3
        <5> QED
          BY <1>4, <1>6, <4>1, <4>3, <5>1 DEF RemovalAhead, T
      <4> QED
        BY <1>6, <4>2, <4>3
    <3> QED
      BY <1>2, <3>1, <3>2 DEF RemovalAhead, T
  <2>2. Unwritten \/ cache > 0
    BY <1>1, <2>1 DEF Remembered
  <2>3. ASSUME Unwritten PROVE Unwritten'
    <3>1. CASE \E i \in DOMAIN T : T[i].kind \in Change
      <4>1. PICK i \in DOMAIN T : T[i].kind \in Change
        BY <3>1
      <4>2. CASE n = 0 \/ i # 1
        <5>1. i - n \in DOMAIN T' /\ T'[i - n] = T[i]
          <6>1. i - n \in DOMAIN T' /\ (i - n) + n = i
            BY <1>4, <4>2
          <6> QED
            BY <1>4, <6>1
        <5> QED
          BY <4>1, <5>1 DEF Unwritten, T
      <4>3. CASE n = 1 /\ i = 1
        <5>1. new \in queue' /\ new.event.kind \in Change
          BY <1>4, <1>6, <4>1, <4>3
        <5>2. \A x \in handling' : x.id # new.id
          BY <1>2, <1>3, <1>6, <1>8
        <5> QED
          BY <5>1, <5>2 DEF Unwritten
      <4> QED
        BY <4>2, <4>3
    <3>2. CASE \E d \in queue : d.event.kind \in Change /\ \A x \in handling : x.phase # "setting" => x.id # d.id
      BY <1>2, <1>6, <3>2 DEF Unwritten
    <3> QED
      BY <2>3, <3>1, <3>2 DEF Unwritten, T
  <2> QED
    BY <2>2, <2>3
<1>27. Versions'
  <2>1. \A v : Current(v)' = Current(v) /\ Fresh(v)' = Fresh(v)
    BY <1>2 DEF Current, Fresh
  <2>2. NoOlderTemplates' = NoOlderTemplates
    BY <1>2, <1>3 DEF NoOlderTemplates
  <2>3. \A i \in DOMAIN T' : T'[i].kind \in Change => Current(T'[i].version)
    BY <1>1, <1>4 DEF Versions, T
  <2>4. \A d \in queue' : d.event.kind \in Change => Current(d.event.version)
    <3>1. e.kind \in Change => Current(e.version)
      BY <1>1, <1>4, <1>10 DEF Versions, T, Change
    <3> QED
      BY <1>1, <1>6, <3>1 DEF Versions
  <2> QED
    BY <1>1, <1>2, <1>3, <2>1, <2>2, <2>3, <2>4 DEF Versions, T
<1> QED
  BY <1>21, <1>23, <1>24, <1>26, <1>27 DEF InTurn

-----------------------------------------------------------------------------
(* The second half: preProcessEvent *)

\* The execution in hand is alone.
LEMMA InHand ==
  ASSUME Alone, NEW x \in handling
  PROVE  /\ handling = {x} /\ ~(attempts > 0) /\ x.via \in channels
         /\ \A y : Become(x, y) => handling' = {y}
<1>1. handling = {x} /\ ~(attempts > 0) /\ x.via \in channels
  BY DEF Alone
<1> QED
  BY <1>1 DEF Become

\* It goes on.
LEMMA AdvanceTurn ==
  ASSUME Alone, Ordered, Queued, NEW x \in handling, NEW y, handling' = {y}, y.id = x.id, y.via = x.via,
         UNCHANGED <<device, topics, queue, channels, attempts, started>>
  PROVE  Alone' /\ Ordered' /\ Queued'
<1>1. Ordered' /\ Queued'
  BY DEF Ordered, Queued
<1>2. \A d \in queue : x.id <= d.id
  BY DEF Alone
<1>3. Alone'
  BY <1>2 DEF Alone
<1> QED
  BY <1>1, <1>3

\* The event in hand, as the queue has it.
LEMMA EventInHand ==
  ASSUME Turn, NEW x \in handling
  PROVE  /\ \E d \in queue : d.id = x.id /\ d.event = x.event
         /\ \A d \in queue : d.id = x.id => d.event = x.event
         /\ x.event.kind \in Change => Current(x.event.version) /\ x.event.version > 0
         /\ x.event.kind = "remove" => device = Removed /\ topics["device-manager"] = <<>>
<1>1. Types /\ Sound /\ Alone /\ Ordered /\ Versions
  BY TurnFacts
<1>2. x.event.kind \in Change <=> x.event.version > 0
  BY ExecutionFacts DEF Turn
<1>3. PICK d \in queue : d.id = x.id /\ d.event = x.event
  BY <1>1 DEF Sound, Holds, Alone
<1>4. \A o \in queue : o.id = x.id => o.event = x.event
  BY <1>1, <1>3 DEF Sound
<1>5. x.event.kind \in Change => Current(x.event.version) /\ x.event.version > 0
  BY <1>1, <1>2, <1>3 DEF Versions
<1>6. x.event.kind = "remove" => device = Removed /\ topics["device-manager"] = <<>>
  BY <1>1, <1>3 DEF Ordered
<1> QED
  BY <1>3, <1>4, <1>5, <1>6

\* The next event of the queue is taken.
LEMMA DeliverTurn ==
  ASSUME Turn, Deliver
  PROVE  InTurn'
<1>1. Types /\ Sound /\ Blamed /\ Alone /\ Ordered /\ Queued /\ Remembered /\ Versions
  BY TurnFacts
<1>2. UNCHANGED <<device, topics, queue, channels, attempts, cache, redis, start, snapshot, started, failed, counts>>
  BY DEF Deliver, ingress, output, consumer
<1>3. PICK k \in channels, d \in Waiting :
         /\ Prefetch(k) /\ \A o \in Waiting : d.id <= o.id
         /\ handling' = handling \cup {Taken(d, k)}
  BY DEF Deliver
<1>4. handling = {} /\ start = "done" /\ Waiting = queue /\ ~(attempts > 0)
  <2>1. handling = {}
    BY <1>1, <1>3 DEF Prefetch, Alone
  <2> QED
    BY <1>1, <1>3, <2>1 DEF Sound, Alone, Waiting
<1>5. PICK y : y = Taken(d, k)
  OBVIOUS
<1>6. /\ d \in queue /\ handling' = {y} /\ PhaseSound(y) /\ \A o \in queue : d.id <= o.id
      /\ y.id = d.id /\ y.event = d.event /\ y.via = k /\ y.info = d.event.version
      /\ y.lookup = (redis = "ready")
      /\ y.phase = IF d.event.kind \in Change THEN "setting"
                   ELSE IF redis = "ready" THEN "getting" ELSE "asking"
  <2>1. d \in queue /\ handling' = {y} /\ \A o \in queue : d.id <= o.id
    BY <1>3, <1>4, <1>5
  <2> QED
    BY <1>1, <1>5, <2>1, TakenFacts
<1>11. Alone'
  BY <1>1, <1>2, <1>4, <1>6 DEF Alone
<1>13. Ordered' /\ Queued'
  BY <1>1, <1>2 DEF Ordered, Queued
<1>16. Remembered'
  <2>1. Faults' = Faults /\ (RemovalAhead' => RemovalAhead)
    BY <1>2, <1>4, <1>6 DEF Faults, RemovalAhead
  <2>2. Unwritten => Unwritten'
    <3>1. \A o \in queue : o.id = d.id => o = d
      BY <1>1, <1>6 DEF Sound
    <3> QED
      BY <1>2, <1>4, <1>6, <3>1 DEF Unwritten
  <2>3. Faults = 0 => redis = "ready"
    <3>1. redis = "down" => Faults >= 1
      BY <1>1, <1>4 DEF Blamed
    <3>2. ~(0 >= 1) /\ redis \in {"ready", "down"}
      BY <1>1 DEF Types
    <3> QED
      BY <3>1, <3>2, Zenon
  <2> QED
    BY <1>1, <1>2, <1>4, <1>6, <2>1, <2>2, <2>3 DEF Remembered
<1>17. Versions'
  <2>1. \A v : Current(v)' = Current(v) /\ Fresh(v)' = Fresh(v)
    BY <1>2 DEF Current, Fresh
  <2>2. NoOlderTemplates' = NoOlderTemplates
    BY <1>2 DEF NoOlderTemplates
  <2> QED
    BY <1>1, <1>2, <1>4, <1>6, <2>1, <2>2 DEF Versions
<1> QED
  BY <1>11, <1>13, <1>16, <1>17 DEF InTurn

\* An event that is no change is none of the unwritten ones.
LEMMA UnwrittenKept ==
  ASSUME Turn, NEW x \in handling, x.event.kind \notin Change, NEW y,
         handling' = {y}, y.id = x.id, UNCHANGED <<topics, queue>>
  PROVE  Unwritten => Unwritten'
<1>1. handling = {x}
  BY TurnFacts, InHand
<1>2. \A d \in queue : d.id = x.id => d.event.kind \notin Change
  BY EventInHand
<1> QED
  BY <1>1, <1>2 DEF Unwritten

\* A removal is told of its device as long as there were no faults.
LEMMA RemovalIsKnown ==
  ASSUME Turn, NEW x \in handling, x.phase = "getting", x.event.kind = "remove", Faults = 0
  PROVE  cache > 0
<1>1. Types /\ Sound /\ Alone /\ Ordered /\ Remembered
  BY TurnFacts
<1>2. PICK d \in queue : d.id = x.id /\ d.event = x.event
  BY EventInHand
<1>3. RemovalAhead
  <2>1. handling = {x}
    BY <1>1, InHand
  <2> QED
    BY <1>2, <2>1 DEF RemovalAhead
<1>4. topics["device-manager"] = <<>> /\ \A o \in queue : o.event.kind \in Change => o.id < d.id
  BY <1>1, <1>2 DEF Ordered
<1>5. \A o \in queue : d.id <= o.id /\ o.id \in Nat /\ d.id \in Nat
  BY <1>1, <1>2, Typed DEF Alone
<1>6. ~Unwritten
  <2>1. \A o \in queue : o.event.kind \notin Change
    BY <1>4, <1>5, <1>2
  <2>2. DOMAIN topics["device-manager"] = {}
    BY <1>4
  <2> QED
    BY <2>1, <2>2 DEF Unwritten
<1> QED
  BY <1>1, <1>3, <1>6 DEF Remembered

\* Redis executes the command of the execution in hand.
LEMMA RedisReplyTurn ==
  ASSUME Turn, NEW x \in handling, RedisReply(x)
  PROVE  InTurn'
<1>1. Types /\ Sound /\ Blamed /\ Alone /\ Ordered /\ Queued /\ Remembered /\ Versions
  BY TurnFacts
<1>2. /\ UNCHANGED <<device, topics, queue, channels, attempts, redis, start, snapshot, started, failed, counts>>
      /\ redis = "ready" /\ x \in Commands /\ Become(x, Replied(x, cache)) /\ cache' = Leaves(x)
  BY DEF RedisReply, ingress, output, consumer
<1>3. /\ PhaseSound(x) /\ start = "done" /\ cache \in 0..MaxVersion /\ cache \in Nat /\ x.info \in Nat
      /\ x.phase \in {"getting", "setting", "filling", "deleting"}
  BY <1>1, <1>2, ExecutionFacts, Typed DEF Turn, Types, Commands
<1>4. handling = {x} /\ handling' = {Replied(x, cache)}
  BY <1>1, <1>2, InHand
<1>5. PICK y : y = Replied(x, cache)
  OBVIOUS
<1>6. /\ handling' = {y} /\ GoesOn(x, y) /\ y.lookup = x.lookup
      /\ y.phase \notin {"filling", "handled", "given up"}
      /\ y.info = IF x.phase = "getting" /\ cache # Nothing THEN cache ELSE x.info
      /\ y.phase = IF x.phase = "getting" /\ cache = Nothing THEN "asking"
                   ELSE IF x.phase \in {"getting", "filling"} /\ x.event.kind = "remove"
                   THEN "deleting" ELSE "handling"
  BY <1>2, <1>3, <1>4, <1>5, RepliedFacts DEF Turn
<1>7. y.id = x.id /\ y.event = x.event /\ y.via = x.via
  BY <1>6 DEF GoesOn
<1>8. cache' = IF x.phase = "getting" THEN cache ELSE IF x.phase = "deleting" THEN Nothing ELSE x.info
  BY <1>2, <1>3 DEF Leaves
<1>9. counts["refusals"] = 0 /\ y.phase \in {"deleting", "handling"} => Current(y.info)
  BY <1>1, <1>3, <1>6, EventInHand DEF Versions, Fresh, PhaseSound
<1>11. Alone' /\ Ordered' /\ Queued'
  BY <1>1, <1>2, <1>6, <1>7, AdvanceTurn
<1>16. Remembered'
  <2>1. Faults' = Faults
    BY <1>2 DEF Faults
  <2>2. RemovalAhead' => RemovalAhead
    BY <1>2, <1>4, <1>6, <1>7 DEF RemovalAhead
  <2>3. Faults = 0 /\ x.event.kind = "remove" => y.phase \notin {"asking", "filling", "given up"}
    <3>1. CASE x.phase = "getting"
      BY <1>3, <1>6, <3>1, RemovalIsKnown DEF Nothing
    <3>2. CASE x.phase # "getting"
      BY <1>6, <3>2
    <3> QED
      BY <3>1, <3>2
  <2>4. CASE x.phase = "getting"
    <3>1. Unwritten => Unwritten'
      BY <1>2, <1>3, <1>6, <1>7, <2>4, UnwrittenKept DEF PhaseSound
    <3> QED
      BY <1>1, <1>2, <1>3, <1>6, <1>7, <1>8, <2>1, <2>2, <2>3, <2>4, <3>1 DEF Remembered
  <2>5. CASE x.phase \in {"setting", "filling"}
    <3>1. cache' > 0
      BY <1>3, <1>8, <2>5, EventInHand DEF PhaseSound
    <3> QED
      BY <1>2, <1>3, <1>6, <1>7, <2>1, <2>3, <3>1 DEF Remembered
  <2>6. CASE x.phase = "deleting"
    <3>1. x.event.kind = "remove" /\ device = Removed /\ topics["device-manager"] = <<>>
      BY <1>3, <2>6, EventInHand DEF PhaseSound
    <3>2. \A d \in queue : d.event.kind = "remove" => d.id = x.id
      BY <1>1, <3>1, EventInHand DEF Ordered
    <3>3. ~RemovalAhead'
      <4>1. DOMAIN topics["device-manager"] = {}
        BY <3>1
      <4>2. y.phase # "getting"
        BY <1>6
      <4> QED
        BY <1>2, <1>6, <1>7, <3>2, <4>1, <4>2 DEF RemovalAhead
    <3>4. ~(device > 0)
      BY <3>1 DEF Removed
    <3> QED
      BY <1>2, <1>3, <1>6, <1>7, <2>1, <2>3, <3>3, <3>4 DEF Remembered
  <2> QED
    BY <1>3, <2>4, <2>5, <2>6
<1>17. Versions'
  <2>1. \A v : Current(v)' = Current(v)
    BY <1>2 DEF Current
  <2>2. NoOlderTemplates' = NoOlderTemplates
    BY <1>2 DEF NoOlderTemplates
  <2>3. counts["refusals"] = 0 => Fresh(cache)'
    <3>1. x.phase = "setting" => Current(x.info)
      BY <1>3, EventInHand DEF PhaseSound
    <3> QED
      BY <1>1, <1>2, <1>3, <1>8, <2>1, <3>1 DEF Versions, Fresh
  <2>4. x.event.kind \in Change => cache' = y.info
    BY <1>3, <1>6, <1>8 DEF PhaseSound
  <2>5. cache' \in Nat
    BY <1>3, <1>8 DEF Nothing
  <2>6. cache' >= cache'
    BY ONLY <2>5
  <2>7. \A z \in handling' :
          /\ z.phase = "getting" => FALSE
          /\ z.phase \in {"filling", "deleting", "handling"} => (counts["refusals"] = 0 => Current(z.info))
          /\ z.event.kind \in Change => cache' >= z.info
    BY <1>6, <1>7, <1>9, <2>4, <2>6
  <2> QED
    BY <1>1, <1>2, <2>1, <2>2, <2>3, <2>7 DEF Versions
<1> QED
  BY <1>11, <1>16, <1>17 DEF InTurn

\* A rejected command or request: the writes of a change are left, the lookup
\* asks the device manager, or the event is given up.
LEMMA RejectedTurn ==
  ASSUME Turn, NEW x \in handling, Rejected(x),
         x.phase \in {"getting", "setting", "filling", "deleting", "asking"},
         UNCHANGED <<device, topics, queue, consumer, redis, start, snapshot>>,
         counts'["refusals"] = counts["refusals"] \/ (counts'["refusals"] # 0 /\ redis = "ready"),
         counts'["drops"] = counts["drops"],
         Faults' = 0 => Faults = 0 /\ x.phase = "asking" /\ x.event.kind # "remove",
         x.phase \in {"setting", "deleting"} => redis = "down" \/ counts'["refusals"] # 0
  PROVE  InTurn'
<1>1. Types /\ Sound /\ Blamed /\ Alone /\ Ordered /\ Queued /\ Remembered /\ Versions
  BY TurnFacts
<1>2. PhaseSound(x) /\ start = "done" /\ x.info \in Nat /\ channels' = channels /\ attempts' = attempts
  BY <1>1, ExecutionFacts, Typed DEF Turn, consumer
<1>3. PICK y : /\ GoesOn(x, y) /\ Become(x, y) /\ y.info = x.info
               /\ \/ x.phase \in {"setting", "deleting"} /\ y.phase = "handling"
                  \/ x.phase \in {"getting", "filling", "asking"} /\ y.phase \in {"asking", "given up"}
  BY RejectedFacts DEF Turn
<1>4. cache' = cache /\ started' = started /\ handling = {x} /\ handling' = {y}
  BY <1>1, <1>3, RejectedFacts, InHand DEF Turn
<1>5. y.id = x.id /\ y.event = x.event /\ y.via = x.via
  BY <1>3 DEF GoesOn
<1>11. Alone' /\ Ordered' /\ Queued'
  BY <1>1, <1>2, <1>4, <1>5, AdvanceTurn
<1>16. Remembered'
  <2> SUFFICES ASSUME Faults' = 0 PROVE Remembered'
    BY DEF Remembered
  <2>1. Faults = 0 /\ x.event.kind # "remove" /\ x.event.kind \notin Change
    BY <1>2 DEF PhaseSound
  <2>2. Unwritten => Unwritten'
    BY <1>4, <1>5, <2>1, UnwrittenKept
  <2>3. RemovalAhead' => RemovalAhead
    BY <1>3, <1>4, <1>5 DEF RemovalAhead
  <2> QED
    BY <1>1, <1>2, <1>4, <1>5, <2>1, <2>2, <2>3 DEF Remembered
<1>17. Versions'
  <2>1. \A v : Current(v)' = Current(v) /\ Fresh(v)' = Fresh(v)
    BY <1>4 DEF Current, Fresh
  <2>2. counts'["refusals"] = 0 => counts["refusals"] = 0
    OBVIOUS
  <2>3. NoOlderTemplates => NoOlderTemplates'
    BY <1>4, <2>2 DEF NoOlderTemplates
  <2>4. counts["refusals"] = 0 /\ x.phase \in {"setting", "deleting"} => Current(x.info)
    BY <1>1, <1>2, EventInHand DEF PhaseSound, Versions
  <2>5. counts'["refusals"] = 0 =>
          \A z \in handling' :
            /\ z.phase \notin {"getting", "filling", "deleting"}
            /\ z.phase = "handling" => Current(z.info) /\ redis = "down"
    BY <1>3, <1>4, <2>2, <2>4
  <2>6. ~("down" = "ready")
    OBVIOUS
  <2> QED
    BY <1>1, <1>2, <1>4, <2>1, <2>2, <2>3, <2>5, <2>6 DEF Versions
<1> QED
  BY <1>11, <1>16, <1>17 DEF InTurn

LEMMA RedisRefusesTurn ==
  ASSUME Turn, NEW x \in handling, RedisRefuses(x)
  PROVE  InTurn'
<1>1. Types /\ Blamed /\ start = "done"
  BY TurnFacts, ExecutionFacts DEF Turn
<1>2. /\ x.phase \in {"getting", "setting", "filling", "deleting"} /\ Rejected(x)
      /\ UNCHANGED <<device, topics, queue, consumer, redis, start, snapshot>>
      /\ \/ redis = "ready" /\ Count({"refusals"})
         \/ redis = "down" /\ UNCHANGED counts
  BY DEF RedisRefuses, Happens, Commands, ingress
<1>3. /\ Faults' # 0 /\ counts'["drops"] = counts["drops"]
      /\ \/ redis = "ready" /\ counts'["refusals"] # 0
         \/ redis = "down" /\ counts'["refusals"] = counts["refusals"]
  <2>1. CASE redis = "ready" /\ Count({"refusals"})
    <3>1. /\ {"refusals"} \in SUBSET Counters /\ {"refusals"} \cap FaultKinds = {"refusals"}
          /\ "refusals" \in FaultKinds /\ "drops" \in Counters \ {"refusals"}
      BY DEF Counters, FaultKinds
    <3>2. Faults' = Faults + 1 /\ Faults \in Nat /\ counts["refusals"] \in Nat
          /\ counts'["refusals"] = counts["refusals"] + 1 /\ counts'["drops"] = counts["drops"]
      BY <1>1, <2>1, <3>1, CountFacts, FaultsGrow, FaultsFacts
    <3> DEFINE f == Faults
               r == counts["refusals"]
    <3>3. f' = f + 1 /\ f \in Nat /\ r \in Nat /\ r' = r + 1
      BY <3>2
    <3> HIDE DEF f, r
    <3>4. f' # 0 /\ r' # 0
      BY ONLY <3>3
    <3> QED
      BY <2>1, <3>2, <3>4, Zenon DEF f, r
  <2>2. CASE redis = "down" /\ UNCHANGED counts
    BY <1>1, <2>2 DEF Blamed, Faults
  <2> QED
    BY <1>2, <2>1, <2>2
<1> QED
  BY <1>2, <1>3, RejectedTurn

\* The device manager answers with what it has.
LEMMA DeviceManagerAnswersTurn ==
  ASSUME Turn, NEW x \in handling, DeviceManagerAnswers(x)
  PROVE  InTurn'
<1> DEFINE z == IF redis = "ready" THEN [x EXCEPT !.info = device, !.phase = "filling"]
                ELSE Known(x, device)
<1>1. Types /\ Sound /\ Blamed /\ Alone /\ Ordered /\ Queued /\ Remembered /\ Versions
  BY TurnFacts
<1>2. /\ UNCHANGED <<device, topics, queue, channels, attempts, cache, redis, start, snapshot, started, failed, counts>>
      /\ x.phase = "asking" /\ device > 0 /\ Become(x, z)
  BY DEF DeviceManagerAnswers, ingress, output, consumer
<1>3. /\ x \in Executions /\ PhaseSound(x) /\ start = "done" /\ device # Removed
      /\ x.event.kind \notin Change
  <2>1. x \in Executions /\ PhaseSound(x) /\ start = "done"
    BY ExecutionFacts DEF Turn
  <2>2. device # Removed
    BY <1>2 DEF Removed
  <2> QED
    BY <1>2, <2>1, <2>2 DEF PhaseSound
<1>4. x.event.kind # "remove"
  BY <1>3, EventInHand
<1>5. PICK y : /\ handling' = {y} /\ y.id = x.id /\ y.event = x.event /\ y.via = x.via /\ y.info = device
               /\ y.phase = IF redis = "ready" THEN "filling" ELSE "handling"
  <2>1. handling' = {z}
    BY <1>1, <1>2, InHand
  <2>2. /\ z.id = x.id /\ z.event = x.event /\ z.via = x.via /\ z.info = device
        /\ z.phase = IF redis = "ready" THEN "filling" ELSE "handling"
    BY <1>3, <1>4 DEF Known, Executions
  <2> HIDE DEF z
  <2> QED
    BY <2>1, <2>2
<1>11. Alone' /\ Ordered' /\ Queued'
  BY <1>1, <1>2, <1>5, AdvanceTurn
<1>12. handling = {x}
  BY <1>1, InHand
<1>16. Remembered'
  <2>1. Faults' = Faults /\ (RemovalAhead' => RemovalAhead)
    BY <1>2, <1>5, <1>12 DEF Faults, RemovalAhead
  <2>2. Unwritten => Unwritten'
    BY <1>2, <1>3, <1>5, UnwrittenKept
  <2> QED
    BY <1>1, <1>2, <1>3, <1>4, <1>5, <2>1, <2>2 DEF Remembered
<1>17. Versions'
  <2>1. \A v : Current(v)' = Current(v) /\ Fresh(v)' = Fresh(v)
    BY <1>2 DEF Current, Fresh
  <2>2. NoOlderTemplates' = NoOlderTemplates
    BY <1>2 DEF NoOlderTemplates
  <2> QED
    BY <1>1, <1>2, <1>3, <1>5, <2>1, <2>2 DEF Versions
<1> QED
  BY <1>11, <1>16, <1>17 DEF InTurn

LEMMA DeviceManagerFailsTurn ==
  ASSUME Turn, NEW x \in handling, DeviceManagerFails(x)
  PROVE  InTurn'
<1>1. Types /\ Remembered
  BY TurnFacts
<1>2. /\ x.phase = "asking" /\ Rejected(x)
      /\ UNCHANGED <<device, topics, queue, consumer, redis, start, snapshot>>
      /\ UNCHANGED counts \/ Count({"failures"})
  BY DEF DeviceManagerFails, Happens, ingress
<1>3. /\ counts'["refusals"] = counts["refusals"] /\ counts'["drops"] = counts["drops"]
      /\ Faults' = 0 => Faults = 0
  <2>1. CASE Count({"failures"})
    <3>1. /\ {"failures"} \in SUBSET Counters /\ {"failures"} \cap FaultKinds = {"failures"}
          /\ "failures" \in FaultKinds
          /\ "drops" \in Counters \ {"failures"} /\ "refusals" \in Counters \ {"failures"}
      BY DEF Counters, FaultKinds
    <3>2. /\ Faults' = Faults + 1 /\ Faults \in Nat
          /\ counts'["refusals"] = counts["refusals"] /\ counts'["drops"] = counts["drops"]
      BY <1>1, <2>1, <3>1, CountFacts, FaultsGrow, FaultsFacts
    <3> QED
      BY <3>2
  <2>2. CASE UNCHANGED counts
    BY <2>2 DEF Faults
  <2> QED
    BY <1>2, <2>1, <2>2
<1>4. Faults = 0 => x.event.kind # "remove"
  BY <1>1, <1>2 DEF Remembered
<1> QED
  BY <1>2, <1>3, <1>4, RejectedTurn

\* The event starts its flows.
LEMMA HandleEventTurn ==
  ASSUME Turn, NEW x \in handling, HandleEvent(x)
  PROVE  InTurn'
<1> DEFINE n == Len(started) + 1
           z == [x EXCEPT !.phase = "handled"]
<1>1. Types /\ Sound /\ NotAhead /\ Alone /\ Ordered /\ Queued /\ Remembered /\ Versions
  BY TurnFacts
<1>2. /\ UNCHANGED <<device, topics, queue, channels, attempts, cache, redis, start, snapshot, failed, counts>>
      /\ x.phase = "handling" /\ Become(x, z)
      /\ started' = Append(started, [id |-> x.id, kind |-> x.event.kind, version |-> x.info])
  BY DEF HandleEvent, ingress, consumer
<1>3. x \in Executions /\ PhaseSound(x) /\ start = "done" /\ x.id \in Nat /\ x.info \in Nat /\ handling = {x}
  BY <1>1, ExecutionFacts, InHand, Typed DEF Turn
<1>4. PICK y : handling' = {y} /\ y.phase = "handled" /\ y.id = x.id /\ y.event = x.event /\ y.via = x.via
  <2>1. handling' = {z} /\ z.phase = "handled" /\ z.id = x.id /\ z.event = x.event /\ z.via = x.via
    BY <1>1, <1>2, <1>3, InHand DEF Executions
  <2> QED
    BY <2>1
<1>5. /\ DOMAIN started = 1..Len(started) /\ Len(started) \in Nat /\ n \in DOMAIN started'
      /\ started'[n] = [id |-> x.id, kind |-> x.event.kind, version |-> x.info]
      /\ \A i \in DOMAIN started : started'[i] = started[i] /\ i < n
      /\ \A i \in DOMAIN started' : i = n \/ i \in DOMAIN started
  BY <1>1, <1>2, <1>3, TimesGrow
<1>6. started'[n].id = x.id /\ started'[n].kind = x.event.kind /\ started'[n].version = x.info
  BY <1>5
<1>7. /\ n \in Nat /\ \A i \in DOMAIN started : i < n /\ i \in Nat /\ started[i].version \in Nat
      /\ \A i, j \in DOMAIN started' : i < j => i \in DOMAIN started
  BY <1>1, <1>5, Typed
<1> HIDE DEF n, z
<1>11. Alone' /\ Ordered'
  <2>1. \A d \in queue : x.id <= d.id
    BY <1>1 DEF Alone
  <2> QED
    BY <1>1, <1>2, <1>4, <2>1 DEF Alone, Ordered
<1>14. Queued'
  <2>1. PICK d \in queue : d.id = x.id /\ d.event = x.event
    BY EventInHand
  <2>2. \A i \in DOMAIN started : started[i].id <= x.id
    BY <1>1, <2>1 DEF Queued
  <2>3. \A i, j \in DOMAIN started' : i < j => started'[i].id <= started'[j].id
    <3> SUFFICES ASSUME NEW i \in DOMAIN started', NEW j \in DOMAIN started', i < j
                 PROVE  started'[i].id <= started'[j].id
      OBVIOUS
    <3>1. i \in DOMAIN started
      BY <1>7
    <3>2. CASE j = n
      BY <1>5, <1>6, <2>2, <3>1, <3>2
    <3>3. CASE j \in DOMAIN started
      BY <1>1, <1>5, <3>1, <3>3 DEF Queued
    <3> QED
      BY <1>5, <3>2, <3>3
  <2>4. \A i \in DOMAIN started' : \A o \in queue : started'[i].id <= o.id
    <3>1. \A o \in queue : x.id <= o.id
      BY <1>1 DEF Alone
    <3> QED
      BY <1>1, <1>5, <1>6, <3>1 DEF Queued
  <2> QED
    BY <1>2, <2>3, <2>4 DEF Queued
<1>16. Remembered'
  <2>1. Faults' = Faults /\ (RemovalAhead' => RemovalAhead)
    BY <1>2, <1>3, <1>4 DEF Faults, RemovalAhead
  <2>2. Unwritten => Unwritten'
    BY <1>2, <1>3, <1>4 DEF Unwritten
  <2> QED
    BY <1>1, <1>2, <1>3, <1>4, <2>1, <2>2 DEF Remembered
<1>17. Versions'
  <2>1. \A v \in Nat : Current(v) /\ (x.event.kind \in Change => v >= x.info) => Current(v)'
    BY <1>5, <1>6 DEF Current
  <2>2. counts["refusals"] = 0 => Current(x.info)
    BY <1>1, <1>2 DEF Versions
  <2>3. NoOlderTemplates'
    <3> SUFFICES ASSUME counts["refusals"] = 0, counts["drops"] = 0,
                        NEW i \in DOMAIN started', NEW j \in DOMAIN started',
                        i < j, started'[i].kind \in Change
                 PROVE  started'[j].version >= started'[i].version
      BY <1>2 DEF NoOlderTemplates
    <3>1. i \in DOMAIN started
      BY <1>7
    <3>2. CASE j = n
      BY <1>5, <1>6, <2>2, <3>1, <3>2 DEF Current
    <3>3. CASE j \in DOMAIN started
      BY <1>1, <1>5, <3>1, <3>3 DEF Versions, NoOlderTemplates
    <3> QED
      BY <1>5, <3>2, <3>3
  <2>4. device # Removed => Current(device)'
    <3> SUFFICES ASSUME device # Removed PROVE Current(device)'
      OBVIOUS
    <3>1. device \in Int /\ device >= x.info /\ Current(device)
      BY <1>1, Typed DEF NotAhead, Versions
    <3>2. device \in Nat
      BY <1>3, <3>1
    <3> DEFINE v == device
    <3>3. Current(device)' <=> Current(v)'
      BY <1>2 DEF Current
    <3>4. v \in Nat /\ v >= x.info /\ Current(v)
      BY <3>1, <3>2
    <3> QED
      BY <1>2, <2>1, <3>1, <3>2, <3>3
  <2>5. PICK d \in queue : d.id = x.id /\ d.event = x.event
    BY EventInHand
  <2>6. x.event.kind \in Change => x.info = x.event.version
    BY <1>3 DEF PhaseSound
  <2>7. ASSUME NEW i \in DOMAIN topics["device-manager"], topics["device-manager"][i].kind \in Change
        PROVE  Current(topics["device-manager"][i].version)'
    <3>1. Current(topics["device-manager"][i].version) /\ topics["device-manager"][i].version \in Nat
      BY <1>1, <2>7, Typed DEF Versions, Subject
    <3>2. x.event.kind \in Change => topics["device-manager"][i].version >= x.info
      BY <1>1, <1>3, <2>5, <2>6, <2>7, <3>1 DEF Ordered
    <3>3. PICK v \in Nat : v = topics["device-manager"][i].version
      BY <3>1
    <3>4. Current(v)'
      BY <2>1, <3>1, <3>2, <3>3
    <3> QED
      BY <1>2, <3>3, <3>4 DEF Current
  <2>8. ASSUME NEW o \in queue, o.event.kind \in Change PROVE Current(o.event.version)'
    <3>1. Current(o.event.version) /\ o.event.version \in Nat
      BY <1>1, <2>8, Typed DEF Versions
    <3>2. x.event.kind \in Change => o.event.version >= x.info
      <4>1. CASE o.id = x.id
        BY <1>3, <2>6, <4>1, EventInHand
      <4>2. CASE o.id # x.id
        <5>1. d.id < o.id
          BY <1>1, <2>5, <4>2, Typed DEF Alone
        <5> QED
          BY <1>1, <1>3, <2>5, <2>6, <2>8, <3>1, <5>1 DEF Ordered
      <4> QED
        BY <4>1, <4>2
    <3> QED
      BY <2>1, <3>1, <3>2
  <2>9. counts["refusals"] = 0 /\ redis = "ready" => Fresh(cache)'
    <3>1. counts["refusals"] = 0 /\ redis = "ready" => cache = Nothing \/ (Current(cache) /\ (x.event.kind \in Change => cache >= x.info))
      BY <1>1, <1>2 DEF Versions, Fresh
    <3> QED
      BY <1>1, <1>2, <2>1, <3>1, Typed DEF Fresh
  <2> QED
    BY <1>2, <1>3, <1>4, <2>3, <2>4, <2>7, <2>8, <2>9 DEF Versions
<1> QED
  BY <1>11, <1>14, <1>16, <1>17 DEF InTurn

\* The event leaves the queue.
LEMMA AcknowledgeTurn ==
  ASSUME Turn, NEW x \in handling, x.phase \in Over, Acknowledge(x)
  PROVE  InTurn'
<1>1. Types /\ Sound /\ Alone /\ Ordered /\ Queued /\ Remembered /\ Versions
  BY TurnFacts
<1>2. /\ UNCHANGED <<device, topics, channels, attempts, cache, redis, start, snapshot, started, failed, counts>>
      /\ handling = {x} /\ handling' = {} /\ queue' = {d \in queue : d.id # x.id}
  BY <1>1, InHand DEF Acknowledge, ingress, output, consumer
<1>3. start = "done" /\ x.phase \notin {"setting", "getting"}
  BY <1>1 DEF Sound, Over
<1>4. Alone' /\ Ordered' /\ Queued'
  BY <1>1, <1>2 DEF Alone, Ordered, Queued
<1>5. Remembered'
  <2>1. Unwritten => Unwritten'
    BY <1>2, <1>3 DEF Unwritten
  <2>2. RemovalAhead' => RemovalAhead
    BY <1>2 DEF RemovalAhead
  <2> QED
    BY <1>1, <1>2, <1>3, <2>1, <2>2 DEF Remembered, Faults
<1>6. Versions'
  <2>1. \A v : Current(v)' = Current(v) /\ Fresh(v)' = Fresh(v)
    BY <1>2 DEF Current, Fresh
  <2>2. NoOlderTemplates' = NoOlderTemplates
    BY <1>2 DEF NoOlderTemplates
  <2> QED
    BY <1>1, <1>2, <2>1, <2>2 DEF Versions
<1> QED
  BY <1>4, <1>5, <1>6 DEF InTurn

-----------------------------------------------------------------------------
(* The second half: connections come and go, the process dies *)

\* The next process finds the queue as it was.
LEMMA RestartTurn ==
  ASSUME Turn, Count({"crashes"}), Restart
  PROVE  InTurn'
<1>1. Types /\ Alone /\ Ordered /\ Queued /\ Versions
  BY TurnFacts
<1>2. /\ UNCHANGED <<device, topics, queue, cache, snapshot, started, failed>>
      /\ channels' = {} /\ attempts' = 0 /\ handling' = {} /\ redis' = "down" /\ start' = "reading"
  BY DEF Restart, ingress, output
<1>3. Faults' # 0 /\ counts'["refusals"] = counts["refusals"] /\ counts'["drops"] = counts["drops"]
  <2>1. /\ {"crashes"} \in SUBSET Counters /\ {"crashes"} \cap FaultKinds = {"crashes"}
        /\ "crashes" \in FaultKinds
        /\ "drops" \in Counters \ {"crashes"} /\ "refusals" \in Counters \ {"crashes"}
    BY DEF Counters, FaultKinds
  <2>2. Faults' = Faults + 1 /\ Faults \in Nat
        /\ counts'["refusals"] = counts["refusals"] /\ counts'["drops"] = counts["drops"]
    BY <1>1, <2>1, CountFacts, FaultsGrow, FaultsFacts
  <2> QED
    BY <2>2
<1>4. Alone' /\ Ordered' /\ Queued'
  BY <1>1, <1>2 DEF Alone, Ordered, Queued
<1>5. Remembered'
  BY <1>3 DEF Remembered
<1>6. Versions'
  <2>1. \A v : Current(v)' = Current(v)
    BY <1>2 DEF Current
  <2>2. NoOlderTemplates' = NoOlderTemplates
    BY <1>2, <1>3 DEF NoOlderTemplates
  <2> QED
    BY <1>1, <1>2, <1>3, <2>1, <2>2 DEF Versions
<1> QED
  BY <1>4, <1>5, <1>6 DEF InTurn

LEMMA RedisLostTurn ==
  ASSUME Turn, RedisLost
  PROVE  InTurn'
<1>1. Types /\ Alone /\ Ordered /\ Queued /\ Versions
  BY TurnFacts
<1>2. /\ UNCHANGED <<device, topics, queue, channels, attempts, handling, cache, start, snapshot, started, failed>>
      /\ redis' = "down" /\ Count({"losses"})
  BY DEF RedisLost, Happens, ingress, output, consumer
<1>3. Faults' # 0 /\ counts'["refusals"] = counts["refusals"] /\ counts'["drops"] = counts["drops"]
  <2>1. /\ {"losses"} \in SUBSET Counters /\ {"losses"} \cap FaultKinds = {"losses"}
        /\ "losses" \in FaultKinds
        /\ "drops" \in Counters \ {"losses"} /\ "refusals" \in Counters \ {"losses"}
    BY DEF Counters, FaultKinds
  <2>2. Faults' = Faults + 1 /\ Faults \in Nat
        /\ counts'["refusals"] = counts["refusals"] /\ counts'["drops"] = counts["drops"]
    BY <1>1, <1>2, <2>1, CountFacts, FaultsGrow, FaultsFacts
  <2> QED
    BY <2>2
<1>4. Alone' /\ Ordered' /\ Queued'
  BY <1>1, <1>2 DEF Alone, Ordered, Queued
<1>5. Remembered'
  BY <1>3 DEF Remembered
<1>6. Versions'
  <2>1. \A v : Current(v)' = Current(v) /\ Fresh(v)' = Fresh(v)
    BY <1>2 DEF Current, Fresh
  <2>2. NoOlderTemplates' = NoOlderTemplates
    BY <1>2, <1>3 DEF NoOlderTemplates
  <2> QED
    BY <1>1, <1>2, <1>3, <2>1, <2>2 DEF Versions
<1> QED
  BY <1>4, <1>5, <1>6 DEF InTurn

\* The consumer connects, for the first time in the life of the process.
LEMMA ConsumerConnectsTurn ==
  ASSUME Turn, ConsumerConnects
  PROVE  InTurn'
<1>1. Types /\ Alone /\ Ordered /\ Queued /\ Remembered /\ Versions
  BY TurnFacts
<1>2. /\ UNCHANGED <<device, topics, queue, handling, cache, redis, start, snapshot, started, failed>>
      /\ attempts > 0 /\ attempts' = attempts - 1 /\ Count({"channels"})
      /\ channels' = channels \cup {counts["channels"] + 1}
  BY DEF ConsumerConnects, ingress, output
<1>3. Faults' = Faults /\ counts'["refusals"] = counts["refusals"] /\ counts'["drops"] = counts["drops"]
  BY <1>1, <1>2, SentCounts
<1>4. attempts = 1 /\ channels = {} /\ handling = {}
  BY <1>1, <1>2 DEF Alone
<1>5. attempts' = 0 /\ channels' = {counts["channels"] + 1}
  BY <1>2, <1>4
<1>6. Alone'
  BY <1>2, <1>4, <1>5 DEF Alone
<1>7. Ordered' /\ Queued'
  BY <1>1, <1>2 DEF Ordered, Queued
<1>8. Remembered'
  BY <1>1, <1>2, <1>3 DEF Remembered, Unwritten, RemovalAhead
<1>9. Versions'
  <2>1. \A v : Current(v)' = Current(v) /\ Fresh(v)' = Fresh(v)
    BY <1>2 DEF Current, Fresh
  <2>2. NoOlderTemplates' = NoOlderTemplates
    BY <1>2, <1>3 DEF NoOlderTemplates
  <2> QED
    BY <1>1, <1>2, <1>3, <2>1, <2>2 DEF Versions
<1> QED
  BY <1>6, <1>7, <1>8, <1>9 DEF InTurn

\* The connection to Redis is back, the cache is flushed: an execution may have
\* had its answer before.
LEMMA RedisConnectsTurn ==
  ASSUME Turn, RedisConnects
  PROVE  InTurn'
<1>1. Types /\ Sound /\ Blamed /\ Alone /\ Ordered /\ Queued /\ Remembered /\ Versions
  BY TurnFacts
<1>2. /\ UNCHANGED <<device, topics, queue, channels, attempts, start, snapshot, started, failed, counts>>
      /\ redis = "down" /\ redis' = "ready" /\ cache' = Nothing
  BY DEF RedisConnects, ingress, output, consumer, Flushed
<1>3. ASSUME handling' # handling
      PROVE  \E x \in Commands : \E y :
               /\ handling' = {y} /\ handling = {x} /\ GoesOn(x, y)
               /\ y.phase \notin {"filling", "handled", "given up", "getting", "setting"}
               /\ counts["refusals"] = 0 /\ y.phase \in {"deleting", "handling"} => Current(y.info)
  <2>1. PICK early \in SUBSET Commands :
          \E held \in [early -> {cache} \cup {Leaves(x) : x \in early}] :
            handling' = (handling \ early) \cup {Replied(x, held[x]) : x \in early}
    BY DEF RedisConnects
  <2>2. PICK held \in [early -> {cache} \cup {Leaves(x) : x \in early}] :
          handling' = (handling \ early) \cup {Replied(x, held[x]) : x \in early}
    BY <2>1
  <2>3. PICK x : x \in early
    <3>1. ASSUME early = {} PROVE FALSE
      <4>1. {Replied(x, held[x]) : x \in early} = {} /\ handling \ early = handling
        BY <3>1
      <4> QED
        BY <1>3, <2>2, <4>1
    <3> QED
      BY <3>1
  <2>4. x \in Commands /\ x \in handling /\ early \subseteq handling
    BY <2>3 DEF Commands
  <2>5. handling = {x} /\ early = {x}
    BY <1>1, <2>3, <2>4, InHand
  <2>6. handling' = {Replied(x, held[x])} /\ held[x] \in {cache, Leaves(x)}
    BY <2>2, <2>5
  <2>7. held[x] \in 0..MaxVersion
    BY <2>4, <2>6, LeavesFacts DEF Turn
  <2>8. PICK y : y = Replied(x, held[x])
    OBVIOUS
  <2>9. /\ GoesOn(x, y) /\ y.phase \notin {"filling", "handled", "given up"}
        /\ y.info = IF x.phase = "getting" /\ held[x] # Nothing THEN held[x] ELSE x.info
        /\ y.phase = IF x.phase = "getting" /\ held[x] = Nothing THEN "asking"
                     ELSE IF x.phase \in {"getting", "filling"} /\ x.event.kind = "remove"
                     THEN "deleting" ELSE "handling"
    BY <2>4, <2>7, <2>8, RepliedFacts DEF Turn
  <2>10. x.phase = "getting" => held[x] = cache
    BY <2>6 DEF Leaves
  <2>11. x.phase \in {"getting", "setting", "filling", "deleting"} /\ PhaseSound(x)
    BY <2>4, ExecutionFacts DEF Commands, Turn
  <2>12. counts["refusals"] = 0 /\ y.phase \in {"deleting", "handling"} => Current(y.info)
    BY <1>1, <2>4, <2>9, <2>10, <2>11, EventInHand DEF Versions, Fresh, PhaseSound
  <2>13. y.phase \notin {"getting", "setting"}
    BY <2>9
  <2> QED
    BY <2>4, <2>5, <2>6, <2>8, <2>9, <2>12, <2>13
<1>4. Alone' /\ Ordered' /\ Queued'
  <2>1. CASE handling' = handling
    BY <1>1, <1>2, <2>1 DEF Alone, Ordered, Queued
  <2>2. CASE handling' # handling
    <3>1. PICK x \in Commands : \E y : handling' = {y} /\ handling = {x} /\ GoesOn(x, y)
      BY <1>3, <2>2
    <3>2. PICK y : handling' = {y} /\ handling = {x} /\ GoesOn(x, y)
      BY <3>1
    <3>3. y.id = x.id /\ y.via = x.via /\ x \in handling
      BY <3>2 DEF GoesOn
    <3> QED
      BY <1>1, <1>2, <3>2, <3>3, AdvanceTurn
  <2> QED
    BY <2>1, <2>2
<1>5. Remembered'
  <2> SUFFICES ASSUME Faults = 0 PROVE Remembered'
    BY <1>2 DEF Remembered, Faults
  <2>1. start # "done"
    <3>1. start = "done" => Faults >= 1
      BY <1>1, <1>2 DEF Blamed
    <3>2. ~(0 >= 1)
      OBVIOUS
    <3> QED
      BY <3>1, <3>2, Zenon
  <2>2. handling = {} /\ handling' = {}
    <3>1. handling = {}
      BY <1>1, <2>1 DEF Sound
    <3>2. ~\E x : handling = {x}
      BY <3>1
    <3> QED
      BY <1>3, <3>1, <3>2
  <2>3. queue = {} /\ cache = Nothing /\ (device > 0 \/ RemovalAhead => Unwritten \/ cache > 0)
    BY <1>1, <2>1 DEF Remembered
  <2>4. RemovalAhead' = RemovalAhead /\ Unwritten' = Unwritten
    BY <1>2, <2>2, <2>3 DEF RemovalAhead, Unwritten
  <2>5. cache' = cache
    BY <1>2, <2>3
  <2> QED
    BY <1>2, <2>2, <2>3, <2>4, <2>5 DEF Remembered
<1>6. Versions'
  <2>1. \A v : Current(v)' = Current(v)
    BY <1>2 DEF Current
  <2>2. NoOlderTemplates' = NoOlderTemplates
    BY <1>2 DEF NoOlderTemplates
  <2>3. Fresh(cache)' /\ cache' = Nothing
    BY <1>2 DEF Fresh
  <2>4. counts["refusals"] = 0 =>
          \A y \in handling' : y.phase \in {"filling", "deleting", "handling"} => Current(y.info)
    <3>1. CASE handling' = handling
      BY <1>1, <3>1 DEF Versions
    <3>2. CASE handling' # handling
      <4>1. PICK y : /\ handling' = {y} /\ y.phase # "filling"
                     /\ counts["refusals"] = 0 /\ y.phase \in {"deleting", "handling"} => Current(y.info)
        BY <1>3, <3>2
      <4> QED
        BY <4>1
    <3> QED
      BY <3>1, <3>2
  <2> QED
    BY <1>1, <1>2, <2>1, <2>2, <2>3, <2>4 DEF Versions
<1> QED
  BY <1>4, <1>5, <1>6 DEF InTurn

-----------------------------------------------------------------------------
(* The theorems *)

\* Connections lost stay counted.
LEMMA DropsStay ==
  ASSUME Types, IngestNext, counts'["drops"] = 0
  PROVE  counts["drops"] = 0 /\ ~ConsumerDropped
<1>1. counts["drops"] \in Nat /\ "drops" \in Counters
  BY FaultsFacts DEF Counters
<1>2. ASSUME NEW what \in SUBSET Counters, Count(what)
      PROVE  counts["drops"] = 0 /\ "drops" \notin what
  <2> DEFINE d == counts["drops"]
  <2>1. d' = d \/ ("drops" \notin what /\ d' = d) \/ ("drops" \in what /\ d' = d + 1)
    BY <1>1, <1>2, CountFacts
  <2>2. "drops" \in what => d' = d + 1
    BY <1>1, <1>2, CountFacts
  <2>3. d' = 0 /\ d \in Nat
    BY <1>1
  <2> HIDE DEF d
  <2>4. d = 0 /\ "drops" \notin what
    BY ONLY <2>1, <2>2, <2>3
  <2> QED
    BY <2>4 DEF d
<1>3. UNCHANGED counts \/ \E what \in SUBSET Counters : Count(what)
  <2> SUFFICES ASSUME ~UNCHANGED counts PROVE \E what \in SUBSET Counters : Count(what)
    OBVIOUS
  <2>1. \A w \in Counters : {w} \in SUBSET Counters
    OBVIOUS
  <2>2. {} \in SUBSET Counters /\ {"failures", "refused"} \in SUBSET Counters
    BY DEF Counters
  <2>3. CASE ChangeDevice \/ Configure \/ PublishReading \/ PopulateReads
    BY <2>1, <2>3 DEF ChangeDevice, Configure, PublishReading, PopulateReads, Happens, Counters
  <2>4. CASE PopulateWrites
    BY <2>1, <2>2, <2>4 DEF PopulateWrites, Counters
  <2>5. ASSUME NEW s \in Subject, Enqueue(s) \/ EnqueueFailed(s)
        PROVE  \E what \in SUBSET Counters : Count(what)
    BY <2>1, <2>2, <2>5 DEF Enqueue, EnqueueFailed, Counters
  <2>6. CASE Deliver \/ RedisConnects
    BY <2>6 DEF Deliver, RedisConnects
  <2>7. ASSUME NEW x \in handling, Step(x) PROVE \E what \in SUBSET Counters : Count(what)
    <3>1. CASE RedisReply(x) \/ DeviceManagerAnswers(x) \/ HandleEvent(x)
      BY <3>1 DEF RedisReply, DeviceManagerAnswers, HandleEvent
    <3>2. CASE Ack(x)
      BY <2>1, <3>2 DEF Ack, Acknowledge, Counters
    <3>3. CASE RedisRefuses(x) \/ DeviceManagerFails(x)
      BY <2>1, <3>3 DEF RedisRefuses, DeviceManagerFails, Happens, Counters
    <3> QED
      BY <2>7, <3>1, <3>2, <3>3 DEF Step
  <2>8. CASE ConsumerDropped \/ ConsumerConnects \/ RedisLost \/ Crash
    BY <2>1, <2>8 DEF ConsumerDropped, ConsumerConnects, RedisLost, Crash, Happens, Counters
  <2> QED
    BY <2>3, <2>4, <2>5, <2>6, <2>7, <2>8 DEF IngestNext
<1>4. counts["drops"] = 0
  BY <1>2, <1>3
<1>5. ConsumerDropped => Count({"drops"}) /\ {"drops"} \in SUBSET Counters
  BY DEF ConsumerDropped, Happens, Counters
<1> QED
  BY <1>2, <1>4, <1>5

\* The second half holds until the consumer loses its connection.
LEMMA InTurnInd ==
  ASSUME Turn, IngestNext, ~ConsumerDropped
  PROVE  InTurn'
<1>1. CASE ChangeDevice \/ Configure \/ PublishReading
  BY <1>1, ChangeDeviceTurn, ConfigureTurn, PublishReadingTurn
<1>2. CASE PopulateReads \/ PopulateWrites
  BY <1>2, PopulateReadsTurn, PopulateWritesTurn
<1>3. ASSUME NEW s \in Subject, Enqueue(s) \/ EnqueueFailed(s) PROVE InTurn'
  BY <1>3, EnqueueTurn, EnqueueFailedTurn
<1>4. CASE Deliver
  BY <1>4, DeliverTurn
<1>5. ASSUME NEW x \in handling, Step(x) PROVE InTurn'
  <2>1. CASE RedisReply(x) \/ DeviceManagerAnswers(x) \/ HandleEvent(x)
    BY <2>1, RedisReplyTurn, DeviceManagerAnswersTurn, HandleEventTurn
  <2>2. CASE Ack(x)
    BY <2>2, AcknowledgeTurn, RestartTurn DEF Ack
  <2>3. CASE RedisRefuses(x) \/ DeviceManagerFails(x)
    BY <2>3, RedisRefusesTurn, DeviceManagerFailsTurn
  <2> QED
    BY <1>5, <2>1, <2>2, <2>3 DEF Step
<1>6. CASE ConsumerConnects
  BY <1>6, ConsumerConnectsTurn
<1>7. CASE RedisLost \/ RedisConnects
  BY <1>7, RedisLostTurn, RedisConnectsTurn
<1>8. CASE Crash
  BY <1>8, RestartTurn DEF Crash, Happens
<1> QED
  BY <1>1, <1>2, <1>3, <1>4, <1>5, <1>6, <1>7, <1>8 DEF IngestNext

\* Every step keeps the invariant.
LEMMA IngestStepInd ==
  ASSUME IngestInv, [IngestNext]_ingestVars
  PROVE  IngestInv'
<1>1. Types /\ Common
  BY DEF IngestInv, Common
<1>2. CASE IngestNext
  <2>1. Common'
    BY <1>2, CommonInd
  <2>2. ASSUME counts'["drops"] = 0 PROVE InTurn'
    <3>1. counts["drops"] = 0 /\ ~ConsumerDropped
      BY <1>1, <1>2, <2>2, DropsStay
    <3> QED
      BY <1>1, <1>2, <3>1, InTurnInd DEF IngestInv, Turn
  <2> QED
    BY <2>1, <2>2 DEF IngestInv
<1>3. CASE UNCHANGED ingestVars
  <2>1. /\ UNCHANGED <<device, topics, queue, channels, attempts, handling, cache, redis, start, snapshot>>
        /\ UNCHANGED <<started, failed, counts>>
    BY <1>3 DEF ingestVars, consumer
  <2>2. Types' /\ Sound' /\ NotAhead'
    BY <1>1, <2>1 DEF Common, Types, Sound, PhaseSound, Told, Holds, NotAhead
  <2>3. Blamed' /\ NoneMissing'
    BY <1>1, <2>1 DEF Common, Blamed, LostForAReason, Faults, NoneMissing, OnTheWay
  <2>4. Repeats'
    <3>1. \A n : Given(n)' = Given(n)
      BY <2>1 DEF Given, Times, Pending
    <3> QED
      BY <1>1, <2>1, <3>1 DEF Common, Repeats, Waiting
  <2>5. InTurn => InTurn'
    <3>1. Alone' = Alone /\ Ordered' = Ordered /\ Queued' = Queued
      BY <2>1 DEF Alone, Ordered, Queued
    <3>2. Remembered' = Remembered /\ Versions' = Versions
      BY <2>1 DEF Remembered, Unwritten, RemovalAhead, Faults, Versions, Current, Fresh, NoOlderTemplates
    <3> QED
      BY <3>1, <3>2 DEF InTurn
  <2> QED
    BY <2>1, <2>2, <2>3, <2>4, <2>5 DEF IngestInv, Common
<1> QED
  BY <1>2, <1>3

\* What the invariant says of the events.
LEMMA AccountedFor == IngestInv => EventsAccountedFor
<1> SUFFICES ASSUME IngestInv PROVE EventsAccountedFor
  OBVIOUS
<1>1. Types /\ Sound /\ NotAhead /\ Blamed /\ NoneMissing /\ Repeats
  BY DEF IngestInv, Common
<1>2. IngestTypeOK
  <2>1. \A x \in handling : x.info \in 0..MaxVersion /\ (x.phase = "handling" => x.info > 0)
    BY <1>1 DEF Types, Executions, Sound, PhaseSound
  <2>2. \A x \in handling : x.via \in channels => \E d \in queue : d.id = x.id /\ d.event = x.event
    BY <1>1 DEF Sound, Holds
  <2> QED
    BY <1>1, <2>1, <2>2 DEF IngestTypeOK, Types, Sound, NotAhead
<1>3. StartedInOrder
  BY DEF StartedInOrder, IngestInv, InTurn, Queued
<1>4. StartedOnce
  <2> SUFFICES ASSUME NEW i \in DOMAIN started
               PROVE  Cardinality(Times(started[i].id)) <= 1 + counts["crashes"] + counts["drops"]
    BY DEF StartedOnce, Times
  <2> DEFINE n == started[i].id
  <2>1. n \in Nat
    BY <1>1, Typed
  <2>2. /\ Cardinality(Times(n)) \in Nat /\ Cardinality(Pending(n)) \in Nat
        /\ counts["crashes"] \in Nat /\ counts["drops"] \in Nat
    BY <1>1, TimesNumber, PendingNumber, FaultsFacts DEF Counters
  <2>3. Cardinality(Times(n)) + Cardinality(Pending(n)) <= 1 + counts["crashes"] + counts["drops"]
    BY <1>1, <2>1 DEF Repeats, Given
  <2> DEFINE t == Cardinality(Times(n))  p == Cardinality(Pending(n))
             c == counts["crashes"]  d == counts["drops"]
  <2>4. t \in Nat /\ p \in Nat /\ c \in Nat /\ d \in Nat /\ t + p <= 1 + c + d
    BY <2>2, <2>3
  <2> HIDE DEF t, p, c, d
  <2>5. t <= 1 + c + d
    BY ONLY <2>4
  <2> QED
    BY <2>5 DEF t, c, d
<1>5. LostForAReason
  BY <1>1 DEF Blamed
<1> QED
  BY <1>1, <1>2, <1>3, <1>4, <1>5 DEF EventsAccountedFor

\* For every number of versions, messages and faults, every event of the device
\* has started its flows, is still to come, or was given up for a reason; more
\* than once only after crashes and lost connections of the consumer, and in the
\* order of its queue until the first of the latter (preProcessEvent).
THEOREM EventsAreAccountedFor == IngestSpec => []EventsAccountedFor
<1>1. IngestInit => IngestInv
  BY IngestInitInd
<1>2. IngestInv /\ [IngestNext]_ingestVars => IngestInv'
  BY IngestStepInd
<1>3. IngestInv => EventsAccountedFor
  BY AccountedFor
<1> QED
  BY <1>1, <1>2, <1>3, PTL DEF IngestSpec

\* For every number of versions, messages, crashes and lost connections to
\* Redis, an event is handled with templates no older than those of the changes
\* handled before it, until Redis refuses a write or the consumer of the queue
\* loses its own connection (DeviceCache.getDeviceInfo).
THEOREM TemplatesAreCurrent == IngestSpec => []NoOlderTemplates
<1>1. IngestInit => IngestInv
  BY IngestInitInd
<1>2. IngestInv /\ [IngestNext]_ingestVars => IngestInv'
  BY IngestStepInd
<1>3. IngestInv => NoOlderTemplates
  BY DEF IngestInv, InTurn, Versions, NoOlderTemplates
<1> QED
  BY <1>1, <1>2, <1>3, PTL DEF IngestSpec
=============================================================================
