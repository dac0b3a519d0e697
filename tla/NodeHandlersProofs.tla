------------------------- MODULE NodeHandlersProofs -------------------------
(***************************************************************************)
(* The nodes that upload, schedule, publish, decide and call: what         *)
(* MCNodeHandlers checks of NodeHandlers, for any messages, jobs, rules,   *)
(* paths and answers, and any number of failures and crashes.              *)
(***************************************************************************)
EXTENDS Integers, NodeHandlers, FiniteSetTheorems, SequenceTheorems,
  WellFoundedInduction, TLAPS

-----------------------------------------------------------------------------
(* FtpNode *)

\* Two handlers have different messages in hand.
TakenOnce ==
  \A i, j \in Files!Handlers :
    i # j /\ Files!InHand(i) /\ Files!InHand(j) => runs[i].message # runs[j].message

\* Only a handler whose task runs, or was given up, is at work, and only one that
\* had come to the upload has stored its file.
AtWork ==
  /\ \A h \in Files!Handlers :
       runs[h].step \in {"accessing", "uploading"} => runs[h].task \in {"running", "given up"}
  /\ \A h \in stored : runs[h].step \notin {"accessing"} /\ file \in stored

\* A consumer that has kept its connections has one channel, or is about to.
OneChannel == (channels = {} /\ attempts = 1) \/ (channels = {ftpMade} /\ attempts = 0)

\* A task that runs is the last one's, and has its message in hand.
LastRuns ==
  \A h \in Files!Handlers : runs[h].task = "running" => Files!InHand(h) /\ h = Len(runs)

\* The messages were taken in their order, and none of the later ones is done with.
InTurn ==
  /\ \A i, j \in Files!Handlers : i < j => runs[i].message <= runs[j].message
  /\ \A h \in Files!Handlers : \A m \in queue : runs[h].message <= m

FtpInv ==
  /\ Files!TypeOK /\ TakenOnce /\ AtWork
  /\ drops = 0 => OneChannel /\ LastRuns /\ InTurn
  /\ Files!ResolvedIsStored /\ Files!OlderOnlyAfterTimeout

FtpRun(n) ==
  [message : 1..NMessages, via : 1..n,
   step : {"accessing", "uploading", "resolved", "rejected", "killed"},
   task : {"running", "done", "given up", "lost"}]

LEMMA FtpTyped ==
  ASSUME Files!TypeOK
  PROVE  /\ runs \in Seq(FtpRun(ftpMade)) /\ Files!Handlers = 1..Len(runs) /\ Len(runs) \in Nat
         /\ \A h \in Files!Handlers : runs[h] \in FtpRun(ftpMade) /\ h \in Nat
         /\ ftpMade \in Nat /\ attempts \in Nat /\ drops \in Nat /\ channels \subseteq 1..ftpMade
         /\ queue \subseteq Nat /\ stored \subseteq Files!Handlers /\ open \subseteq Files!Handlers
         /\ file \in 0..Len(runs) /\ ftpFailures \in Nat /\ ftpCrashes \in Nat
<1>1. runs \in Seq(FtpRun(ftpMade))
  BY DEF Files!TypeOK, FtpRun
<1>2. DOMAIN runs = 1..Len(runs) /\ Len(runs) \in Nat
  BY <1>1
<1>3. \A h \in DOMAIN runs : runs[h] \in FtpRun(ftpMade)
  BY <1>1, <1>2, ElementOfSeq
<1>4. queue \subseteq Nat
  <2>1. queue \subseteq 1..NMessages
    BY DEF Files!TypeOK
  <2> QED
    BY FilesAssumption, <2>1
<1>5. /\ {ftpMade, attempts, ftpFailures, drops, ftpCrashes} \subseteq Nat
      /\ channels \subseteq 1..ftpMade /\ file \in 0..Len(runs)
      /\ stored \subseteq DOMAIN runs /\ open \subseteq DOMAIN runs
  BY DEF Files!TypeOK, Files!Handlers
<1>6. \A h \in 1..Len(runs) : h \in Nat
  BY <1>2
<1> QED
  BY <1>1, <1>2, <1>3, <1>4, <1>5, <1>6 DEF Files!Handlers

LEMMA FtpInit ==
  ASSUME Files!Init
  PROVE  FtpInv
<1>1. Files!Handlers = {} /\ stored = {} /\ channels = {} /\ attempts = 1 /\ drops = 0 /\ runs = <<>>
  BY DEF Files!Init, Files!Handlers
<1>2. Files!TypeOK
  BY <1>1, FilesAssumption DEF Files!Init, Files!TypeOK
<1> QED
  BY <1>1, <1>2 DEF FtpInv, Files!ResolvedIsStored, Files!OlderOnlyAfterTimeout, TakenOnce, AtWork,
       OneChannel, LastRuns, InTurn

\* What a step leaves of the handlers: their messages and channels, and the tasks
\* that have ended.
FtpKept ==
  /\ runs' \in Seq(FtpRun(ftpMade)) /\ Len(runs') = Len(runs)
  /\ \A h \in Files!Handlers :
       /\ runs'[h].message = runs[h].message /\ runs'[h].via = runs[h].via
       /\ \/ runs'[h].task = runs[h].task
          \/ runs[h].task = "running" /\ runs'[h].task # "running"

LEMMA FtpKeeps ==
  ASSUME FtpInv, FtpKept, UNCHANGED <<config, ftpMade>>, ftpFailures' \in Nat, drops' \in Nat, ftpCrashes' \in Nat,
         drops' = 0 => drops = 0, queue' \subseteq queue, channels' \subseteq channels, attempts' \in Nat,
         open' \subseteq Files!Handlers, stored' \subseteq Files!Handlers, file' \in 0..Len(runs),
         \A h \in Files!Handlers :
           runs'[h].task = "running" /\ runs'[h].via \in channels' /\ runs[h].message \in queue
             => runs[h].message \in queue'
  PROVE  Files!TypeOK' /\ TakenOnce' /\ (drops' = 0 => InTurn')
<1>t. /\ Files!TypeOK /\ TakenOnce /\ (drops = 0 => InTurn)
      /\ runs' \in Seq(FtpRun(ftpMade)) /\ Len(runs') = Len(runs) /\ Len(runs) \in Nat
  BY FtpTyped DEF FtpInv, FtpKept
<1>1. Files!Handlers' = Files!Handlers /\ Files!Handlers = 1..Len(runs)
  <2>1. DOMAIN runs' = 1..Len(runs')
    BY <1>t
  <2> QED
    BY <2>1, <1>t, FtpTyped DEF Files!Handlers
<1>2. \A h \in Files!Handlers : Files!InHand(h)' => Files!InHand(h) /\ runs[h].message \in queue'
  <2> SUFFICES ASSUME NEW h \in Files!Handlers, Files!InHand(h)'
               PROVE  Files!InHand(h) /\ runs[h].message \in queue'
    OBVIOUS
  <2>1. runs'[h].task = "running" /\ runs'[h].via \in channels'
    BY DEF Files!InHand
  <2>2. runs[h].task = "running" /\ runs[h].via \in channels
    BY <2>1 DEF FtpKept
  <2>3. Files!InHand(h) /\ runs[h].message \in queue
    BY <1>t, <2>2 DEF Files!InHand, Files!TypeOK
  <2> QED
    BY <2>1, <2>3
<1>3. Files!TypeOK'
  <2>1. \A h \in Files!Handlers' : Files!InHand(h)' => runs'[h].message \in queue'
    BY <1>1, <1>2 DEF FtpKept
  <2>2. /\ runs' \in Seq([message : 1..NMessages, via : 1..ftpMade',
                          step : {"accessing", "uploading", "resolved", "rejected", "killed"},
                          task : {"running", "done", "given up", "lost"}])
        /\ file' \in 0..Len(runs')
    BY <1>t DEF FtpRun
  <2>3. /\ config' \in FtpConfig /\ queue' \subseteq 1..NMessages /\ channels' \subseteq 1..ftpMade'
        /\ {ftpMade', attempts', ftpFailures', drops', ftpCrashes'} \subseteq Nat
    BY <1>t DEF Files!TypeOK
  <2> QED
    BY <1>1, <2>1, <2>2, <2>3 DEF Files!TypeOK
<1>4. TakenOnce'
  BY <1>t, <1>1, <1>2 DEF TakenOnce, FtpKept
<1>5. ASSUME InTurn
      PROVE  InTurn'
  BY <1>1, <1>5 DEF InTurn, FtpKept
<1> QED
  BY <1>t, <1>3, <1>4, <1>5

LEMMA FtpStep ==
  ASSUME FtpInv, [Files!Next]_(Files!vars)
  PROVE  FtpInv'
<1>t. /\ Files!TypeOK /\ TakenOnce /\ AtWork /\ (drops = 0 => OneChannel /\ LastRuns /\ InTurn)
      /\ Files!ResolvedIsStored /\ Files!OlderOnlyAfterTimeout
      /\ runs \in Seq(FtpRun(ftpMade)) /\ Files!Handlers = 1..Len(runs) /\ Len(runs) \in Nat
      /\ \A h \in Files!Handlers : runs[h] \in FtpRun(ftpMade) /\ h \in Nat
      /\ ftpMade \in Nat /\ attempts \in Nat /\ drops \in Nat /\ channels \subseteq 1..ftpMade
      /\ queue \subseteq Nat /\ stored \subseteq Files!Handlers
  BY FtpTyped DEF FtpInv
<1>s. /\ runs \in Seq(FtpRun(ftpMade)) /\ Files!Handlers = 1..Len(runs) /\ Len(runs) \in Nat
      /\ open \subseteq Files!Handlers /\ stored \subseteq Files!Handlers
      /\ file \in 0..Len(runs) /\ ftpFailures \in Nat /\ ftpCrashes \in Nat
  BY <1>t, FtpTyped
<1>0. \A h \in Files!Handlers : /\ runs[h].message \in 1..NMessages /\ runs[h].via \in 1..ftpMade
                                /\ runs[h].step \in {"accessing", "uploading", "resolved", "rejected", "killed"}
                                /\ runs[h].task \in {"running", "done", "given up", "lost"}
  BY <1>t DEF FtpRun
<1>1. ASSUME Files!HandleMessage
      PROVE  FtpInv'
  <2>0. PICK N \in Nat : N = Len(runs) + 1
    BY <1>s
  <2>1. PICK k \in channels, m \in Files!Waiting, s \in {"accessing", "rejected"} :
          /\ Files!Free(k) /\ \A n \in Files!Waiting : m <= n
          /\ runs' = Append(runs, [message |-> m, via |-> k, task |-> "running", step |-> s])
    BY <1>1 DEF Files!HandleMessage
  <2>2. /\ open' = open \/ open' = open \cup {N}
        /\ UNCHANGED <<config, queue, channels, ftpMade, attempts, stored, file, ftpFailures, drops, ftpCrashes>>
    BY <1>1, <2>0 DEF Files!HandleMessage, Files!consumer, Files!faults
  <2>3. m \in queue /\ \A h \in Files!Handlers : Files!InHand(h) => runs[h].message # m /\ runs[h].via # k
    BY <2>1 DEF Files!Waiting, Files!Free
  <2> DEFINE new == [message |-> m, via |-> k, task |-> "running", step |-> s]
  <2>4. new \in FtpRun(ftpMade)
    BY <1>t, <2>3 DEF FtpRun, Files!TypeOK
  <2>5. /\ runs' \in Seq(FtpRun(ftpMade)) /\ Len(runs') = N /\ Files!Handlers' = 1..N
        /\ \A h \in Files!Handlers : runs'[h] = runs[h]
        /\ runs'[N] = new
    BY <1>s, <2>0, <2>1, <2>4 DEF Files!Handlers
  <2>6. /\ runs'[N].message = m /\ runs'[N].via = k /\ runs'[N].task = "running" /\ runs'[N].step = s
        /\ N \notin stored
    BY <1>s, <2>0, <2>5
  <2>7. \A h \in 1..N : h \in Files!Handlers \/ h = N
    BY <1>s, <2>0
  <2> HIDE DEF new
  <2>8. /\ \A h \in Files!Handlers : Files!InHand(h)' <=> Files!InHand(h)
        /\ Files!InHand(N)'
    BY <2>2, <2>5, <2>6 DEF Files!InHand
  <2>9. Files!TypeOK'
    <3>1. \A h \in Files!Handlers' : Files!InHand(h)' => runs'[h].message \in queue'
      BY <1>t, <2>2, <2>3, <2>5, <2>6, <2>7, <2>8 DEF Files!TypeOK
    <3>2. /\ open' \subseteq 1..N /\ file' \in 0..N /\ stored' \subseteq 1..N
      <4>1. /\ 1..Len(runs) \subseteq 1..N /\ N \in 1..N
            /\ 0..Len(runs) \subseteq 0..N
        BY <1>s, <2>0
      <4> QED
        BY <1>s, <2>2, <4>1
    <3>3. /\ config' \in FtpConfig /\ queue' \subseteq 1..NMessages /\ channels' \subseteq 1..ftpMade'
          /\ {ftpMade', attempts', ftpFailures', drops', ftpCrashes'} \subseteq Nat
      BY <1>t, <2>2 DEF Files!TypeOK
    <3>4. runs' \in Seq([message : 1..NMessages, via : 1..ftpMade',
                          step : {"accessing", "uploading", "resolved", "rejected", "killed"},
                          task : {"running", "done", "given up", "lost"}])
      BY <2>2, <2>5 DEF FtpRun
    <3> QED
      BY <2>5, <3>1, <3>2, <3>3, <3>4 DEF Files!TypeOK
  <2>10. TakenOnce'
    BY <1>t, <2>3, <2>5, <2>6, <2>7, <2>8 DEF TakenOnce
  <2>11. AtWork'
    BY <1>t, <2>2, <2>5, <2>6, <2>7 DEF AtWork
  <2>12. Files!ResolvedIsStored'
    <3> SUFFICES ASSUME NEW h \in Files!Handlers', runs'[h].step = "resolved"
                 PROVE  h \in stored' /\ h \notin open'
      BY DEF Files!ResolvedIsStored
    <3>1. h \in Files!Handlers /\ h # N
      BY <2>5, <2>6, <2>7
    <3> QED
      BY <1>t, <2>2, <2>5, <3>1 DEF Files!ResolvedIsStored
  <2>13. Files!OlderOnlyAfterTimeout'
    <3>1. stored # {} => file \in Files!Handlers
      BY <1>t DEF AtWork
    <3> QED
      BY <1>t, <2>2, <2>5, <3>1 DEF Files!OlderOnlyAfterTimeout
  <2>14. ASSUME drops' = 0
         PROVE  OneChannel' /\ LastRuns' /\ InTurn'
    <3>1. OneChannel /\ LastRuns /\ InTurn /\ channels = {k}
      BY <1>t, <2>1, <2>2, <2>14 DEF OneChannel
    <3>2. \A h \in Files!Handlers : runs[h].task # "running"
      BY <2>3, <3>1 DEF LastRuns, Files!InHand
    <3>3. OneChannel'
      BY <2>2, <3>1 DEF OneChannel
    <3>4. LastRuns'
      <4> SUFFICES ASSUME NEW h \in 1..N, runs'[h].task = "running"
                   PROVE  Files!InHand(h)' /\ h = N
        BY <2>5 DEF LastRuns
      <4>1. h = N
        BY <2>5, <2>7, <3>2
      <4> QED
        BY <2>8, <4>1
    <3>5. queue = Files!Waiting
      BY <3>2 DEF Files!Waiting, Files!InHand
    <3>6. \A h \in Files!Handlers : runs[h].message <= m
      BY <2>3, <3>1 DEF InTurn
    <3>7. ASSUME NEW i \in 1..N, NEW j \in 1..N, i < j
          PROVE  runs'[i].message <= runs'[j].message
      <4>1. i \in Files!Handlers
        BY <1>s, <2>0, <3>7
      <4> QED
        BY <2>5, <2>6, <2>7, <3>1, <3>6, <3>7, <4>1 DEF InTurn
    <3>8. \A h \in 1..N : \A n \in queue : runs'[h].message <= n
      BY <2>1, <2>5, <2>6, <2>7, <3>1, <3>5 DEF InTurn
    <3> QED
      BY <2>2, <2>5, <3>3, <3>4, <3>7, <3>8 DEF InTurn
  <2> QED
    BY <2>9, <2>10, <2>11, <2>12, <2>13, <2>14 DEF FtpInv
\* A handler that goes on.
<1>2. ASSUME NEW h \in Files!Handlers, Files!Handler(h)
      PROVE  FtpInv'
  <2>1. PICK s \in {"uploading", "resolved", "rejected"} :
          /\ runs' = [runs EXCEPT ![h] = [runs[h] EXCEPT !.step = s]]
          /\ s = "uploading" => runs[h].step = "accessing"
          /\ s = "resolved" => h \in stored /\ h \notin open'
    BY <1>2 DEF Files!Handler, Files!Accessed, Files!AccessFails, Files!Uploaded,
                Files!Answered, Files!UploadFails, Files!Go, Files!CloseAt
  <2>2. /\ runs[h].step \in {"accessing", "uploading"} /\ open' \subseteq open
        /\ UNCHANGED <<config, queue, channels, ftpMade, attempts, stored, file, drops, ftpCrashes>>
        /\ ftpFailures' = ftpFailures \/ ftpFailures' = ftpFailures + 1
    BY <1>2 DEF Files!Handler, Files!Accessed, Files!AccessFails, Files!Uploaded, Files!Answered, Files!UploadFails,
                Files!CloseAt, Files!Fails, Files!consumer, Files!faults
  <2>3. /\ Len(runs') = Len(runs) /\ runs' \in Seq(FtpRun(ftpMade))
        /\ \A i \in Files!Handlers : i # h => runs'[i] = runs[i]
        /\ runs'[h] = [runs[h] EXCEPT !.step = s]
    <3>1. [runs[h] EXCEPT !.step = s] \in FtpRun(ftpMade)
      BY <1>t DEF FtpRun
    <3> QED
      BY <1>t, <2>1, <3>1
  <2>4. /\ runs'[h].step = s /\ runs'[h].task = runs[h].task
        /\ runs'[h].message = runs[h].message /\ runs'[h].via = runs[h].via
    BY <1>t, <2>3 DEF FtpRun
  <2>5. FtpKept
    BY <2>3, <2>4 DEF FtpKept
  <2>6. Files!TypeOK' /\ TakenOnce' /\ (drops' = 0 => InTurn')
    <3>1. ftpFailures' \in Nat /\ ftpCrashes' \in Nat /\ open' \subseteq Files!Handlers /\ file' \in 0..Len(runs)
      BY <1>s, <2>2
    <3> QED
      BY <1>t, <2>2, <2>5, <3>1, FtpKeeps
  <2>7. Files!Handlers' = Files!Handlers
    BY <1>t, <2>3 DEF Files!Handlers
  <2>8. runs[h].task \in {"running", "given up"} /\ \A i \in stored : runs[i].step # "accessing" /\ file \in stored
    BY <1>t, <2>2 DEF AtWork
  <2>9. AtWork'
    BY <1>t, <2>2, <2>3, <2>4, <2>7, <2>8 DEF AtWork
  <2>10. Files!ResolvedIsStored'
    BY <1>t, <2>1, <2>2, <2>3, <2>4, <2>7 DEF Files!ResolvedIsStored
  <2>11. Files!OlderOnlyAfterTimeout'
    <3>1. \A i \in Files!Handlers : runs'[i].task = runs[i].task /\ runs'[i].message = runs[i].message
      BY <2>3, <2>4
    <3> QED
      BY <1>t, <2>2, <2>8, <3>1 DEF Files!OlderOnlyAfterTimeout
  <2>12. drops' = 0 => OneChannel' /\ LastRuns'
    <3>1. \A i \in Files!Handlers : /\ runs'[i].task = runs[i].task
                                    /\ Files!InHand(i)' <=> Files!InHand(i)
      BY <2>2, <2>3, <2>4 DEF Files!InHand
    <3> QED
      BY <1>t, <2>2, <2>3, <2>7, <3>1 DEF OneChannel, LastRuns
  <2> QED
    BY <2>6, <2>9, <2>10, <2>11, <2>12 DEF FtpInv
<1>3. ASSUME NEW h \in Files!Handlers, Files!Store(h)
      PROVE  FtpInv'
  <2>1. /\ runs[h].step = "uploading" /\ stored' = stored \cup {h} /\ file' = h
        /\ UNCHANGED <<config, queue, channels, ftpMade, attempts, runs, open, ftpFailures, drops, ftpCrashes>>
    BY <1>3 DEF Files!Store, Files!consumer, Files!faults
  <2>2. runs[h].task \in {"running", "given up"}
    BY <1>t, <2>1 DEF AtWork
  <2>3. FtpKept
    BY <1>t, <2>1 DEF FtpKept
  <2>4. Files!TypeOK' /\ TakenOnce' /\ (drops' = 0 => InTurn')
    <3>1. ftpFailures' \in Nat /\ ftpCrashes' \in Nat /\ open' \subseteq Files!Handlers /\ file' \in 0..Len(runs)
      BY <1>s, <2>1
    <3> QED
      BY <1>t, <2>1, <2>3, <3>1, FtpKeeps
  <2>5. AtWork' /\ Files!ResolvedIsStored'
    BY <1>t, <2>1 DEF AtWork, Files!ResolvedIsStored, Files!Handlers
  <2>6. Files!OlderOnlyAfterTimeout'
    <3> SUFFICES ASSUME drops = 0, NEW i \in stored \cup {h}, runs[i].message > runs[h].message, runs[h].task = "running"
                 PROVE  FALSE
      BY <2>1, <2>2 DEF Files!OlderOnlyAfterTimeout
    <3>1. LastRuns /\ InTurn /\ h = Len(runs) /\ i \in Files!Handlers
      BY <1>t DEF LastRuns
    <3>2. i = h \/ i < h
      BY <1>s, <3>1
    <3>3. runs[i].message \in Int /\ runs[h].message \in Int
      <4>1. runs[i].message \in 1..NMessages /\ runs[h].message \in 1..NMessages
        BY <1>0, <3>1
      <4> QED
        BY ONLY <4>1
    <3>4. runs[i].message <= runs[h].message
      <4>1. CASE i = h
        BY ONLY <3>3, <4>1
      <4>2. CASE i < h
        BY <3>1, <4>2 DEF InTurn
      <4> QED
        BY <3>2, <4>1, <4>2
    <3> QED
      BY ONLY <3>3, <3>4, runs[i].message > runs[h].message
  <2>7. drops' = 0 => OneChannel' /\ LastRuns'
    BY <1>t, <2>1 DEF OneChannel, LastRuns, Files!InHand, Files!Handlers
  <2> QED
    BY <2>4, <2>5, <2>6, <2>7 DEF FtpInv
\* The process dies.
<1>4. ASSUME Files!Restart, UNCHANGED <<ftpFailures, drops>>, ftpCrashes' \in Nat
      PROVE  FtpInv'
  <2>1. /\ runs' = [h \in Files!Handlers |->
                      [runs[h] EXCEPT !.step = Files!Killed(h), !.task = IF runs[h].task = "running" THEN "lost" ELSE runs[h].task]]
        /\ open' = {} /\ channels' = {} /\ attempts' = 1
        /\ UNCHANGED <<config, queue, ftpMade, stored, file>>
    BY <1>4 DEF Files!Restart
  <2>2. \A h \in Files!Handlers :
          /\ runs'[h] = [runs[h] EXCEPT !.step = Files!Killed(h), !.task = IF runs[h].task = "running" THEN "lost" ELSE runs[h].task]
          /\ Files!Killed(h) = IF runs[h].step \in {"accessing", "uploading"} THEN "killed" ELSE runs[h].step
    BY <2>1 DEF Files!Killed
  <2>3. \A h \in Files!Handlers :
          /\ runs'[h].step = Files!Killed(h)
          /\ runs'[h].task = IF runs[h].task = "running" THEN "lost" ELSE runs[h].task
          /\ runs'[h].message = runs[h].message /\ runs'[h].via = runs[h].via
          /\ runs'[h] \in FtpRun(ftpMade)
    <3> SUFFICES ASSUME NEW h \in Files!Handlers
                 PROVE  /\ runs'[h].step = Files!Killed(h)
                        /\ runs'[h].task = IF runs[h].task = "running" THEN "lost" ELSE runs[h].task
                        /\ runs'[h].message = runs[h].message /\ runs'[h].via = runs[h].via
                        /\ runs'[h] \in FtpRun(ftpMade)
      OBVIOUS
    <3> DEFINE r == runs[h]
               s == Files!Killed(h)
               t == IF runs[h].task = "running" THEN "lost" ELSE runs[h].task
    <3>1. r \in FtpRun(ftpMade)
      BY <1>t
    <3>2. /\ s \in {"accessing", "uploading", "resolved", "rejected", "killed"}
          /\ t \in {"running", "done", "given up", "lost"}
      BY <1>0, <2>2
    <3>3. runs'[h] = [r EXCEPT !.step = s, !.task = t]
      BY <2>2
    <3> HIDE DEF r, s, t
    <3>4. /\ runs'[h].step = s /\ runs'[h].task = t
          /\ runs'[h].message = r.message /\ runs'[h].via = r.via
          /\ runs'[h] \in FtpRun(ftpMade)
      BY ONLY <3>1, <3>2, <3>3 DEF FtpRun
    <3> QED
      BY <3>4 DEF r, s, t
  <2>4. Len(runs') = Len(runs) /\ runs' \in Seq(FtpRun(ftpMade)) /\ Files!Handlers' = Files!Handlers
    <3>1. runs' \in [1..Len(runs) -> FtpRun(ftpMade)]
      BY <1>t, <2>1, <2>3
    <3> QED
      BY <1>t, <3>1, SeqDef DEF Files!Handlers
  <2>5. FtpKept
    BY <2>3, <2>4 DEF FtpKept
  <2>6. Files!TypeOK' /\ TakenOnce' /\ (drops' = 0 => InTurn')
    <3>1. ftpFailures' \in Nat /\ open' \subseteq Files!Handlers /\ file' \in 0..Len(runs) /\ attempts' \in Nat
      BY <1>t, <1>4, <2>1 DEF Files!TypeOK
    <3> QED
      BY <1>t, <1>4, <2>1, <2>5, <3>1, FtpKeeps
  <2>7. AtWork'
    <3>1. \A h \in Files!Handlers : runs'[h].step \notin {"accessing", "uploading"}
      BY <2>2, <2>3
    <3> QED
      BY <1>t, <2>1, <2>4, <3>1 DEF AtWork
  <2>8. Files!ResolvedIsStored'
    BY <1>t, <2>1, <2>2, <2>3, <2>4 DEF Files!ResolvedIsStored
  <2>9. Files!OlderOnlyAfterTimeout'
    <3>1. \A h \in stored : file \in Files!Handlers
      BY <1>t DEF AtWork
    <3> QED
      BY <1>t, <1>4, <2>1, <2>3, <3>1 DEF Files!OlderOnlyAfterTimeout
  <2>10. OneChannel' /\ LastRuns'
    <3>1. \A h \in Files!Handlers : runs'[h].task # "running"
      BY <2>3
    <3> QED
      BY <2>1, <2>4, <3>1 DEF OneChannel, LastRuns
  <2> QED
    BY <2>6, <2>7, <2>8, <2>9, <2>10 DEF FtpInv
\* The executor acknowledges the message of a task that runs.
<1>5. ASSUME NEW h \in Files!Handlers, Files!TaskDone(h) \/ Files!TaskTimeout(h)
      PROVE  FtpInv'
  <2>1. CASE runs[h].via \notin channels
    <3>1. Files!Restart /\ UNCHANGED <<ftpFailures, drops, ftpCrashes>>
      BY <1>5, <2>1 DEF Files!TaskDone, Files!TaskTimeout, Files!Ack, Files!faults
    <3> QED
      BY <1>t, <1>4, <3>1 DEF Files!TypeOK
  <2>2. CASE runs[h].via \in channels
    <3>1. PICK how \in {"done", "given up"} :
            /\ runs' = [runs EXCEPT ![h] = [runs[h] EXCEPT !.task = how]]
            /\ runs[h].task = "running"
            /\ how = "done" => runs[h].step \notin {"accessing", "uploading"}
      <4>1. CASE Files!TaskDone(h)
        <5>1. runs[h].task = "running" /\ runs[h].step \in {"resolved", "rejected"} /\ Files!Ack(h, "done")
          BY <4>1 DEF Files!TaskDone
        <5>2. runs' = [runs EXCEPT ![h] = [runs[h] EXCEPT !.task = "done"]]
          BY <2>2, <5>1 DEF Files!Ack
        <5> QED
          BY <5>1, <5>2
      <4>2. CASE Files!TaskTimeout(h)
        <5>1. runs[h].task = "running" /\ Files!Ack(h, "given up")
          BY <4>2 DEF Files!TaskTimeout
        <5>2. runs' = [runs EXCEPT ![h] = [runs[h] EXCEPT !.task = "given up"]]
          BY <2>2, <5>1 DEF Files!Ack
        <5> QED
          BY <5>1, <5>2
      <4> QED
        BY <1>5, <4>1, <4>2
    <3>2. /\ queue' = queue \ {runs[h].message}
          /\ UNCHANGED <<config, channels, ftpMade, attempts, open, stored, file, ftpFailures, drops, ftpCrashes>>
      BY <1>5, <2>2 DEF Files!TaskDone, Files!TaskTimeout, Files!Ack, Files!consumer, Files!faults
    <3>3. /\ Len(runs') = Len(runs) /\ runs' \in Seq(FtpRun(ftpMade)) /\ DOMAIN runs' = DOMAIN runs
          /\ \A i \in Files!Handlers : i # h => runs'[i] = runs[i]
          /\ runs'[h] = [runs[h] EXCEPT !.task = how]
      <4> DEFINE new == [runs[h] EXCEPT !.task = how]
      <4>1. new \in FtpRun(ftpMade)
        BY <1>t DEF FtpRun
      <4>2. runs' = [runs EXCEPT ![h] = new]
        BY <3>1
      <4> HIDE DEF new
      <4>3. /\ Len(runs') = Len(runs) /\ runs' \in Seq(FtpRun(ftpMade)) /\ DOMAIN runs' = DOMAIN runs
            /\ \A i \in Files!Handlers : i # h => runs'[i] = runs[i]
            /\ runs'[h] = new
        <5>1. h \in 1..Len(runs)
          BY <1>s
        <5> DEFINE R == FtpRun(ftpMade)
        <5>2. runs \in Seq(R) /\ new \in R
          BY <1>s, <4>1
        <5> HIDE DEF R
        <5>3. /\ runs' \in Seq(R) /\ Len(runs') = Len(runs)
              /\ DOMAIN runs' = 1..Len(runs) /\ DOMAIN runs = 1..Len(runs)
              /\ \A i \in 1..Len(runs) : runs'[i] = IF i = h THEN new ELSE runs[i]
          <6>1. runs \in [1..Len(runs) -> R] /\ Len(runs) \in Nat
            BY ONLY <5>2, LenProperties
          <6>2. /\ runs' \in [1..Len(runs) -> R]
                /\ \A i \in 1..Len(runs) : runs'[i] = IF i = h THEN new ELSE runs[i]
            BY ONLY <4>2, <5>1, <5>2, <6>1
          <6>3. runs' \in Seq(R)
            BY ONLY <6>1, <6>2, SeqDef
          <6>4. DOMAIN runs' = 1..Len(runs) /\ DOMAIN runs = 1..Len(runs)
            BY ONLY <6>1, <6>2
          <6>5. Len(runs') = Len(runs)
            BY ONLY <4>2, <5>1, <5>2, ExceptSeq
          <6> QED
            BY ONLY <6>2, <6>3, <6>4, <6>5
        <5> QED
          BY <1>s, <5>1, <5>3 DEF R
      <4> QED
        BY <4>3 DEF new
    <3>4. /\ runs'[h].task = how /\ runs'[h].step = runs[h].step
          /\ runs'[h].message = runs[h].message /\ runs'[h].via = runs[h].via
      BY <1>t, <3>3 DEF FtpRun
    <3>5. FtpKept
      BY <3>1, <3>3, <3>4 DEF FtpKept
    <3>6. Files!Handlers' = Files!Handlers
      BY <3>3 DEF Files!Handlers
    <3>7. \A i \in Files!Handlers :
            runs'[i].task = "running" /\ runs'[i].via \in channels' /\ runs[i].message \in queue
              => runs[i].message \in queue'
      <4> SUFFICES ASSUME NEW i \in Files!Handlers, runs'[i].task = "running", runs'[i].via \in channels'
                   PROVE  runs[i].message # runs[h].message
        BY <3>2
      <4>1. i # h
        BY <3>4
      <4>2. Files!InHand(h)
        BY <2>2, <3>1 DEF Files!InHand
      <4>3. Files!InHand(i)
        BY <3>2, <3>3, <4>1 DEF Files!InHand
      <4> QED
        BY <1>t, <4>1, <4>2, <4>3 DEF TakenOnce
    <3>8. Files!TypeOK' /\ TakenOnce' /\ (drops' = 0 => InTurn')
      <4>1. /\ ftpFailures' \in Nat /\ ftpCrashes' \in Nat
            /\ open' \subseteq Files!Handlers /\ file' \in 0..Len(runs) /\ attempts' \in Nat
        BY <1>t, <3>2 DEF Files!TypeOK
      <4> QED
        BY <1>t, <3>2, <3>5, <3>7, <4>1, FtpKeeps
    <3>9. AtWork'
      BY <1>t, <3>1, <3>2, <3>3, <3>4, <3>6 DEF AtWork
    <3>10. Files!ResolvedIsStored'
      BY <1>t, <3>2, <3>3, <3>4, <3>6 DEF Files!ResolvedIsStored
    <3>11. Files!OlderOnlyAfterTimeout'
      <4>1. \A i \in stored : file \in Files!Handlers
        BY <1>t DEF AtWork
      <4>2. \A i \in Files!Handlers : runs[i].task = "given up" => runs'[i].task = "given up"
        BY <3>1, <3>3, <3>4
      <4>3. \A i \in Files!Handlers : runs'[i].message = runs[i].message
        BY <3>3, <3>4
      <4> QED
        BY <1>t, <3>2, <4>1, <4>2, <4>3 DEF Files!OlderOnlyAfterTimeout
    <3>12. drops' = 0 => OneChannel' /\ LastRuns'
      <4>1. \A i \in Files!Handlers : runs'[i].task = "running" => runs[i].task = "running" /\ i # h
        BY <3>1, <3>3, <3>4
      <4>2. \A i \in Files!Handlers : i # h => (Files!InHand(i)' <=> Files!InHand(i))
        BY <3>2, <3>3 DEF Files!InHand
      <4> QED
        BY <1>t, <3>2, <3>3, <3>6, <4>1, <4>2 DEF OneChannel, LastRuns
    <3> QED
      BY <3>8, <3>9, <3>10, <3>11, <3>12 DEF FtpInv
  <2> QED
    BY <2>1, <2>2
<1>6. ASSUME Files!ConsumerDropped
      PROVE  FtpInv'
  <2>1. /\ drops' = drops + 1 /\ channels' \subseteq channels
        /\ attempts' = attempts + 1 \/ attempts' = attempts + 2
        /\ UNCHANGED <<config, queue, ftpMade, runs, open, stored, file, ftpFailures, ftpCrashes>>
    BY <1>6 DEF Files!ConsumerDropped
  <2>2. drops' # 0 /\ drops' \in Nat /\ attempts' \in Nat
    BY <1>t, <2>1
  <2>3. FtpKept
    BY <1>t, <2>1 DEF FtpKept
  <2>4. Files!TypeOK' /\ TakenOnce'
    <3>1. ftpFailures' \in Nat /\ ftpCrashes' \in Nat /\ open' \subseteq Files!Handlers /\ file' \in 0..Len(runs)
      BY <1>t, <2>1 DEF Files!TypeOK
    <3> QED
      BY <1>t, <2>1, <2>2, <2>3, <3>1, FtpKeeps
  <2>5. AtWork' /\ Files!ResolvedIsStored' /\ Files!OlderOnlyAfterTimeout'
    BY <1>t, <2>1, <2>2 DEF AtWork, Files!ResolvedIsStored, Files!OlderOnlyAfterTimeout, Files!Handlers
  <2> QED
    BY <2>2, <2>4, <2>5 DEF FtpInv
<1>7. ASSUME Files!ConsumerConnects
      PROVE  FtpInv'
  <2>1. /\ attempts > 0 /\ attempts' = attempts - 1 /\ ftpMade' = ftpMade + 1
        /\ channels' = channels \cup {ftpMade + 1}
        /\ UNCHANGED <<config, queue, runs, open, stored, file, ftpFailures, drops, ftpCrashes>>
    BY <1>7 DEF Files!ConsumerConnects, Files!faults
  <2>2. 1..ftpMade \subseteq 1..ftpMade' /\ ftpMade' \in 1..ftpMade' /\ ftpMade' \in Nat /\ attempts' \in Nat
    BY <1>t, <2>1
  <2>3. Files!Handlers' = Files!Handlers
    BY <2>1 DEF Files!Handlers
  <2>4. \A h \in Files!Handlers : Files!InHand(h)' <=> Files!InHand(h)
    <3> SUFFICES ASSUME NEW h \in Files!Handlers
                 PROVE  runs[h].via \in channels' <=> runs[h].via \in channels
      BY <2>1 DEF Files!InHand
    <3>1. runs[h].via # ftpMade + 1
      <4>1. runs[h].via \in 1..ftpMade /\ ftpMade \in Nat
        BY <1>0, <1>t
      <4> QED
        BY ONLY <4>1
    <3> QED
      BY <2>1, <3>1
  <2>5. Files!TypeOK'
    <3>1. runs' \in Seq(FtpRun(ftpMade'))
      <4>1. FtpRun(ftpMade) \subseteq FtpRun(ftpMade')
        BY <2>2 DEF FtpRun
      <4>2. runs \in Seq(FtpRun(ftpMade'))
        <5>1. \A h \in 1..Len(runs) : runs[h] \in FtpRun(ftpMade')
          BY <1>t, <4>1
        <5>2. runs \in [1..Len(runs) -> FtpRun(ftpMade')]
          BY <1>t, <5>1
        <5> QED
          BY <1>t, <5>2, SeqDef
      <4> QED
        BY <2>1, <4>2
    <3>2. \A h \in Files!Handlers' : Files!InHand(h)' => runs'[h].message \in queue'
      BY <1>t, <2>1, <2>3, <2>4 DEF Files!TypeOK
    <3>3. /\ runs' \in Seq([message : 1..NMessages, via : 1..ftpMade',
                            step : {"accessing", "uploading", "resolved", "rejected", "killed"},
                            task : {"running", "done", "given up", "lost"}])
          /\ config' \in FtpConfig /\ queue' \subseteq 1..NMessages
      BY <1>t, <2>1, <3>1 DEF FtpRun, Files!TypeOK
    <3>4. channels' \subseteq 1..ftpMade' /\ {ftpMade', attempts', ftpFailures', drops', ftpCrashes'} \subseteq Nat
      BY <1>t, <2>1, <2>2 DEF Files!TypeOK
    <3>5. open' \subseteq Files!Handlers' /\ stored' \subseteq Files!Handlers' /\ file' \in 0..Len(runs')
      BY <1>t, <2>1, <2>3 DEF Files!TypeOK
    <3> QED
      BY <3>2, <3>3, <3>4, <3>5 DEF Files!TypeOK
  <2>6. TakenOnce'
    BY <1>t, <2>1, <2>3, <2>4 DEF TakenOnce
  <2>7. AtWork' /\ Files!ResolvedIsStored' /\ Files!OlderOnlyAfterTimeout'
    BY <1>t, <2>1, <2>3 DEF AtWork, Files!ResolvedIsStored, Files!OlderOnlyAfterTimeout
  <2>8. ASSUME drops' = 0
        PROVE  OneChannel' /\ LastRuns' /\ InTurn'
    <3>1. OneChannel /\ LastRuns /\ InTurn
      BY <1>t, <2>1, <2>8
    <3>2. channels = {} /\ attempts = 1
      BY <2>1, <3>1 DEF OneChannel
    <3> QED
      BY <2>1, <2>3, <2>4, <3>1, <3>2 DEF OneChannel, LastRuns, InTurn
  <2> QED
    BY <2>5, <2>6, <2>7, <2>8 DEF FtpInv
<1>8. CASE UNCHANGED Files!vars
  <2>1. UNCHANGED <<config, queue, channels, ftpMade, attempts, runs, open, stored, file, ftpFailures, drops, ftpCrashes>>
    BY <1>8 DEF Files!vars, Files!consumer, Files!faults
  <2> QED
    BY <1>t, <2>1 DEF FtpInv, Files!TypeOK, TakenOnce, AtWork, OneChannel, LastRuns, InTurn,
         Files!ResolvedIsStored, Files!OlderOnlyAfterTimeout, Files!InHand, Files!Handlers
<1>9. ASSUME Files!Crash
      PROVE  FtpInv'
  <2>1. Files!Restart /\ UNCHANGED <<ftpFailures, drops>> /\ ftpCrashes' \in Nat
    BY <1>s, <1>9 DEF Files!Crash
  <2> QED
    BY <1>4, <2>1
<1> QED
  BY <1>1, <1>2, <1>3, <1>5, <1>6, <1>7, <1>8, <1>9 DEF Files!Next, Files!Task

\* For any number of messages, of failures, lost connections and crashes: a
\* handler that resolves has its content on the server and has closed its client;
\* as long as the consumer keeps its connection, an older content is in the file
\* only after a handler was given up.
THEOREM UploadsAreAccountedFor == Files!Spec => []Files!UploadsAccountedFor
<1>1. FtpInv => Files!UploadsAccountedFor
  BY DEF FtpInv, Files!UploadsAccountedFor
<1>2. Files!Init => FtpInv
  BY FtpInit
<1>3. FtpInv /\ [Files!Next]_(Files!vars) => FtpInv'
  BY FtpStep
<1> QED
  BY <1>1, <1>2, <1>3, PTL DEF Files!Spec

-----------------------------------------------------------------------------
(* CronNodes *)

Slots(m) == 1..Size(m)

CronTyped ==
  /\ made \in Nat /\ {failures, killed} \subseteq Nat
  /\ DOMAIN msg = Message /\ msg = [m \in Message |-> msg[m]]
  /\ DOMAIN results = Message /\ results = [m \in Message |-> results[m]]
  /\ try \in [Message -> Nat]
  /\ \A m \in Message :
       /\ msg[m] = [at |-> msg[m].at, phase |-> msg[m].phase, ids |-> msg[m].ids]
       /\ msg[m].at \in {"create", "remove", "out"}
       /\ msg[m].phase \in {"queued", "running", "failed", "done"}
       /\ msg[m].ids \in [Slots(m) -> 0..made]
       /\ results[m] = [k \in Slots(m) |-> results[m][k]]
       /\ \A k \in Slots(m) : results[m][k] = [st |-> results[m][k].st, id |-> results[m][k].id]
       /\ \A k \in Slots(m) : results[m][k].id \in 0..made

\* A request that removes names the job whose identifier its message carries,
\* and its message has been delivered to the node that removes.
RequestSound(r) ==
  /\ r.m \in Message /\ r.k \in Slots(r.m) /\ r.op \in {"create", "remove"}
  /\ r = [m |-> r.m, k |-> r.k, try |-> r.try, op |-> r.op, job |-> r.job]
  /\ r.op = "create" => r.job = NoJob
  /\ r.op = "remove" =>
       /\ r.job = msg[r.m].ids[r.k]
       /\ msg[r.m].at \in {"remove", "out"}
       /\ Is(r.m, "remove", "queued") => try[r.m] # 0

\* What a message carries, and what its node has been answered.
MessageSound(m) ==
  /\ msg[m].at = "out" => msg[m].phase = "done"
  /\ msg[m].phase = "running" => try[m] # 0
  /\ msg[m].phase # "running" => \A k \in Slots(m) : results[m][k].st = "none"
  /\ \A k \in Slots(m) :
       /\ msg[m].at = "create" => msg[m].ids[k] = NoJob
       /\ results[m][k].st # "ok" \/ msg[m].at # "create" => results[m][k].id = NoJob
       /\ msg[m].at = "create" /\ results[m][k].st = "ok" =>
            [id |-> results[m][k].id, m |-> m, k |-> k] \in jobs
       /\ msg[m].at = "remove" /\ results[m][k].st = "ok" =>
            \A j \in jobs : j.id # msg[m].ids[k]

\* A job has an identifier of its own, and whoever names it names it as the job
\* of the request that created it.
JobSound(j) ==
  /\ j = [id |-> j.id, m |-> j.m, k |-> j.k]
  /\ j.id \in 1..made /\ j.m \in Message /\ j.k \in Slots(j.m)
  /\ \A m \in Message : \A k \in Slots(m) :
       j.id = msg[m].ids[k] \/ j.id = results[m][k].id => j.m = m /\ j.k = k

JobsApart == \A i, j \in jobs : i.id = j.id => i = j

\* While its node has not failed, whoever creates jobs for a message listens for
\* the answers.
Listens(m) ==
  ~Failing(m) =>
    /\ \A r \in requests : r.m = m /\ r.op = "create" => Heard(r)
    /\ msg[m].at = "create" /\ msg[m].phase = "queued" => \A j \in jobs : j.m # m

Listening == killed = 0 => \A m \in Message : Listens(m)

CronInv ==
  /\ CronTyped
  /\ \A r \in requests : RequestSound(r)
  /\ \A m \in Message : MessageSound(m)
  /\ \A j \in jobs : JobSound(j)
  /\ JobsApart
  /\ Listening
  /\ IdentifiersAreItsJobs
  /\ RemovedAreGone
  /\ NoJobForgotten

LEMMA CronInitSound ==
  ASSUME CronInit
  PROVE  CronInv
<1>1. /\ \A m \in Message : msg[m] = [at |-> "create", phase |-> "queued",
                                      ids |-> [k \in Slots(m) |-> 0]]
      /\ \A m \in Message : results[m] = [k \in Slots(m) |-> [st |-> "none", id |-> 0]]
      /\ requests = {} /\ jobs = {} /\ made = 0 /\ failures = 0 /\ killed = 0
      /\ DOMAIN msg = Message /\ msg = [m \in Message |-> msg[m]]
      /\ DOMAIN results = Message /\ results = [m \in Message |-> results[m]]
      /\ try \in [Message -> Nat] /\ \A m \in Message : try[m] = 0
  BY DEF CronInit, Nothing, NoJob, Slots
<1>2. \A m \in Message :
        /\ msg[m].at = "create" /\ msg[m].phase = "queued"
        /\ msg[m].ids = [k \in Slots(m) |-> 0]
        /\ \A k \in Slots(m) : results[m][k].st = "none" /\ results[m][k].id = 0
  BY <1>1
<1>3. CronTyped
  BY <1>1, <1>2 DEF CronTyped
<1>4. \A m \in Message : MessageSound(m)
  BY <1>1, <1>2 DEF MessageSound, NoJob
<1>5. Listening
  BY <1>1, <1>2 DEF Listening, Listens
<1>6. IdentifiersAreItsJobs /\ RemovedAreGone /\ NoJobForgotten
  BY <1>1, <1>2 DEF IdentifiersAreItsJobs, RemovedAreGone, NoJobForgotten, Is
<1> QED
  BY <1>1, <1>3, <1>4, <1>5, <1>6 DEF CronInv, JobsApart

\* A step of the node that works on m: what there is to show is about m.
RowFrame(m) ==
  /\ UNCHANGED <<jobs, made, killed>> /\ failures' \in {failures, failures + 1}
  /\ msg' = [n \in Message |-> msg'[n]] /\ results' = [n \in Message |-> results'[n]]
  /\ try' \in [Message -> Nat]
  /\ \A n \in Message \ {m} : msg'[n] = msg[n] /\ results'[n] = results[n] /\ try'[n] = try[n]

RowTyped(m) ==
  /\ msg'[m] = [at |-> msg'[m].at, phase |-> msg'[m].phase, ids |-> msg'[m].ids]
  /\ msg'[m].at \in {"create", "remove", "out"}
  /\ msg'[m].phase \in {"queued", "running", "failed", "done"}
  /\ msg'[m].ids = [k \in Slots(m) |-> msg'[m].ids[k]]
  /\ results'[m] = [k \in Slots(m) |-> results'[m][k]]
  /\ \A k \in Slots(m) :
       /\ results'[m][k] = [st |-> results'[m][k].st, id |-> results'[m][k].id]
       /\ msg'[m].ids[k] \in {NoJob, msg[m].ids[k], results[m][k].id}
       /\ results'[m][k].id \in {NoJob, results[m][k].id}

RowListens(m) ==
  killed = 0 /\ ~Failing(m)' =>
    /\ \A r \in requests' : r.m = m /\ r.op = "create" => Heard(r)'
    /\ msg'[m].at = "create" /\ msg'[m].phase = "queued" => \A j \in jobs : j.m # m
    /\ \A j \in jobs : j.m = m => j.id \in {msg'[m].ids[j.k], results'[m][j.k].id}

LEMMA CronRow ==
  ASSUME CronInv, NEW m \in Message, RowFrame(m), RowTyped(m), MessageSound(m)', RowListens(m),
         \A r \in requests' : (r \in requests /\ r.m # m) \/ RequestSound(r)',
         \A r \in requests' : r.m # m => r \in requests,
         Is(m, "remove", "queued")' /\ try'[m] = 0 =>
           \A k \in Slots(m) : [id |-> msg'[m].ids[k], m |-> m, k |-> k] \in jobs,
         msg'[m].at = "out" => \A j \in jobs : \A k \in Slots(m) : j.id # msg'[m].ids[k]
  PROVE  CronInv'
<1>0. CronTyped /\ UNCHANGED <<jobs, made, killed>> /\ failures' \in Nat
  BY DEF CronInv, CronTyped, RowFrame
<1>1. /\ \A n \in Message \ {m} : msg'[n] = msg[n] /\ results'[n] = results[n] /\ try'[n] = try[n]
      /\ \A n \in Message \ {m} : Failing(n)' <=> Failing(n)
  BY <1>0 DEF RowFrame, Failing, AnyFailed
<1>2. CronTyped'
  <2>1. \A k \in Slots(m) : msg'[m].ids[k] \in 0..made /\ results'[m][k].id \in 0..made
    <3>1. made \in Nat /\ \A k \in Slots(m) : msg[m].ids[k] \in 0..made
      BY <1>0 DEF CronTyped
    <3>2. \A k \in Slots(m) : results[m][k].id \in 0..made
      BY <1>0 DEF CronTyped
    <3>3. 0 \in 0..made
      BY <3>1
    <3> QED
      BY <3>1, <3>2, <3>3 DEF RowTyped, NoJob
  <2>2. msg'[m].ids \in [Slots(m) -> 0..made]
    BY <2>1 DEF RowTyped
  <2>3. \A n \in Message :
          /\ msg'[n] = [at |-> msg'[n].at, phase |-> msg'[n].phase, ids |-> msg'[n].ids]
          /\ msg'[n].at \in {"create", "remove", "out"}
          /\ msg'[n].phase \in {"queued", "running", "failed", "done"}
          /\ msg'[n].ids \in [Slots(n) -> 0..made]
    BY <1>0, <1>1, <2>2 DEF CronTyped, RowTyped
  <2>4. \A n \in Message :
          /\ results'[n] = [k \in Slots(n) |-> results'[n][k]]
          /\ \A k \in Slots(n) : results'[n][k] = [st |-> results'[n][k].st, id |-> results'[n][k].id]
          /\ \A k \in Slots(n) : results'[n][k].id \in 0..made
    BY <1>0, <1>1, <2>1 DEF CronTyped, RowTyped
  <2>5. DOMAIN msg' = Message /\ DOMAIN results' = Message
    BY DEF RowFrame
  <2> QED
    BY <1>0, <2>3, <2>4, <2>5 DEF CronTyped, RowFrame
<1>3. ASSUME NEW r \in requests'
      PROVE  RequestSound(r)'
  <2>1. CASE r \in requests /\ r.m # m
    <3>1. RequestSound(r)
      BY <2>1 DEF CronInv
    <3> QED
      BY <1>1, <2>1, <3>1 DEF RequestSound, Is
  <2> QED
    BY <2>1
<1>4. ASSUME NEW n \in Message
      PROVE  MessageSound(n)'
  <2>1. CASE n # m
    <3>1. MessageSound(n)
      BY DEF CronInv
    <3> QED
      BY <1>0, <1>1, <2>1, <3>1 DEF MessageSound
  <2> QED
    BY <2>1
<1>5. ASSUME NEW j \in jobs'
      PROVE  JobSound(j)'
  <2>1. JobSound(j)
    BY <1>0 DEF CronInv
  <2>2. ASSUME NEW n \in Message, NEW k \in Slots(n),
               j.id = msg'[n].ids[k] \/ j.id = results'[n][k].id
        PROVE  j.m = n /\ j.k = k
    <3>1. CASE n = m
      <4>1. j.id # NoJob
        BY <1>0, <2>1 DEF JobSound, NoJob, CronTyped
      <4>2. j.id = msg[m].ids[k] \/ j.id = results[m][k].id
        BY <2>2, <3>1, <4>1 DEF RowTyped
      <4> QED
        BY <2>1, <3>1, <4>2 DEF JobSound
    <3>2. CASE n # m
      BY <1>1, <2>1, <2>2, <3>2 DEF JobSound
    <3> QED
      BY <3>1, <3>2
  <2> QED
    BY <1>0, <2>1, <2>2 DEF JobSound
<1>6. Listening'
  <2> SUFFICES ASSUME killed = 0, NEW n \in Message, ~Failing(n)'
               PROVE  /\ \A r \in requests' : r.m = n /\ r.op = "create" => Heard(r)'
                      /\ msg'[n].at = "create" /\ msg'[n].phase = "queued" => \A j \in jobs : j.m # n
    BY <1>0 DEF Listening, Listens
  <2>1. CASE n # m
    <3>1. Listens(n) /\ ~Failing(n)
      BY <1>1, <2>1 DEF Listening, CronInv
    <3>2. ASSUME NEW r \in requests', r.m = n, r.op = "create"
          PROVE  Heard(r)'
      <4>1. Heard(r)
        BY <2>1, <3>1, <3>2 DEF Listens
      <4> QED
        BY <1>1, <2>1, <3>2, <4>1 DEF Heard, Is
    <3> QED
      BY <1>1, <2>1, <3>1, <3>2 DEF Listens
  <2>2. CASE n = m
    BY <2>2 DEF RowListens
  <2> QED
    BY <2>1, <2>2
<1>7. IdentifiersAreItsJobs'
  <2> SUFFICES ASSUME NEW n \in Message, Is(n, "remove", "queued")', try'[n] = 0,
                      NEW k \in Slots(n)
               PROVE  [id |-> msg'[n].ids[k], m |-> n, k |-> k] \in jobs
    BY <1>0 DEF IdentifiersAreItsJobs, Slots
  <2>1. CASE n # m
    <3>1. Is(n, "remove", "queued") /\ try[n] = 0 /\ IdentifiersAreItsJobs
      BY <1>1, <2>1 DEF CronInv, Is
    <3> QED
      BY <1>1, <2>1, <3>1 DEF IdentifiersAreItsJobs, Slots
  <2> QED
    BY <2>1
<1>8. RemovedAreGone'
  <2>1. RemovedAreGone
    BY DEF CronInv
  <2> QED
    BY <1>0, <1>1, <2>1 DEF RemovedAreGone, Slots
<1>9. NoJobForgotten'
  <2> SUFFICES ASSUME killed = 0, NEW j \in jobs, ~Failing(j.m)'
               PROVE  j.id \in {msg'[j.m].ids[j.k], results'[j.m][j.k].id}
    BY <1>0 DEF NoJobForgotten
  <2>1. CASE j.m = m
    BY <2>1 DEF RowListens
  <2>2. CASE j.m # m
    <3>1. JobSound(j) /\ j.m \in Message
      BY DEF CronInv, JobSound
    <3>2. j.id \in {msg[j.m].ids[j.k], results[j.m][j.k].id}
      BY <1>1, <2>2, <3>1 DEF CronInv, NoJobForgotten
    <3> QED
      BY <1>1, <2>2, <3>1, <3>2 DEF JobSound
  <2> QED
    BY <2>1, <2>2
<1>10. JobsApart'
  BY <1>0 DEF CronInv, JobsApart
<1> QED
  BY <1>2, <1>3, <1>4, <1>5, <1>6, <1>7, <1>8, <1>9, <1>10 DEF CronInv

\* A node starts on a message.
LEMMA CronHandle ==
  ASSUME CronInv, NEW m \in Message, HandleMessage(m)
  PROVE  CronInv'
<1>0. CronTyped /\ MessageSound(m) /\ msg[m].phase = "queued"
  BY DEF CronInv, HandleMessage
<1>1. RowFrame(m) /\ try'[m] = try[m] + 1
  <2>1. try' \in [Message -> Nat] /\ try' = [try EXCEPT ![m] = try[m] + 1]
    BY <1>0 DEF HandleMessage, CronTyped
  <2>2. /\ msg' = [n \in Message |-> msg'[n]] /\ results' = [n \in Message |-> results'[n]]
        /\ \A n \in Message \ {m} : msg'[n] = msg[n] /\ results'[n] = results[n]
    BY <1>0 DEF HandleMessage, CronTyped
  <2>3. UNCHANGED <<jobs, made, failures, killed>>
    BY DEF HandleMessage
  <2>4. try'[m] = try[m] + 1 /\ \A n \in Message \ {m} : try'[n] = try[n]
    BY <1>0, <2>1 DEF CronTyped
  <2> QED
    BY <2>1, <2>2, <2>3, <2>4 DEF RowFrame
<1>2. msg'[m] = [msg[m] EXCEPT !.phase = "running"]
  BY <1>0 DEF HandleMessage, CronTyped
<1>3. /\ msg'[m].at = msg[m].at /\ msg'[m].phase = "running" /\ msg'[m].ids = msg[m].ids
      /\ msg'[m] = [at |-> msg'[m].at, phase |-> msg'[m].phase, ids |-> msg'[m].ids]
  BY <1>0, <1>2 DEF CronTyped
<1>4. results'[m] = [k \in Slots(m) |-> [st |-> "sent", id |-> NoJob]]
  BY <1>0 DEF HandleMessage, CronTyped, Slots
<1>5. \A k \in Slots(m) : results'[m][k].st = "sent" /\ results'[m][k].id = NoJob
  BY <1>4
<1>6. requests' = requests \cup
        {[m |-> m, k |-> k, try |-> try[m] + 1, op |-> msg[m].at, job |-> msg[m].ids[k]] : k \in Slots(m)}
  BY DEF HandleMessage, Slots
<1>7. msg[m].at # "out" /\ try[m] \in Nat
  BY <1>0 DEF MessageSound, CronTyped
<1>8. RowTyped(m)
  <2>1. msg[m].ids = [k \in Slots(m) |-> msg[m].ids[k]] /\ msg[m].at \in {"create", "remove", "out"}
    BY <1>0 DEF CronTyped
  <2>2. results'[m] = [k \in Slots(m) |-> results'[m][k]]
    BY <1>4
  <2>3. ASSUME NEW k \in Slots(m)
        PROVE  /\ results'[m][k] = [st |-> results'[m][k].st, id |-> results'[m][k].id]
               /\ msg'[m].ids[k] \in {NoJob, msg[m].ids[k], results[m][k].id}
               /\ results'[m][k].id \in {NoJob, results[m][k].id}
    BY <1>3, <1>4, <1>5
  <2>4. /\ msg'[m] = [at |-> msg'[m].at, phase |-> msg'[m].phase, ids |-> msg'[m].ids]
        /\ msg'[m].ids = [k \in Slots(m) |-> msg'[m].ids[k]]
        /\ msg'[m].at \in {"create", "remove", "out"}
        /\ msg'[m].phase \in {"queued", "running", "failed", "done"}
    BY <1>3, <2>1
  <2> QED
    BY <2>2, <2>3, <2>4 DEF RowTyped
<1>9. MessageSound(m)'
  <2>1. try'[m] # 0
    BY <1>1, <1>7
  <2>2. \A k \in Slots(m) : msg[m].at = "create" => msg[m].ids[k] = NoJob
    BY <1>0 DEF MessageSound
  <2> QED
    BY <1>3, <1>5, <1>7, <2>1, <2>2 DEF MessageSound
<1>10. ASSUME NEW r \in requests', r \notin requests
       PROVE  r.m = m /\ RequestSound(r)' /\ Heard(r)'
  <2>1. PICK k \in Slots(m) :
          r = [m |-> m, k |-> k, try |-> try[m] + 1, op |-> msg[m].at, job |-> msg[m].ids[k]]
    BY <1>6, <1>10
  <2>2. /\ r.m = m /\ r.k = k /\ r.try = try[m] + 1 /\ r.op = msg[m].at /\ r.job = msg[m].ids[k]
        /\ r = [m |-> r.m, k |-> r.k, try |-> r.try, op |-> r.op, job |-> r.job]
    BY <2>1
  <2>3. /\ msg[m].at \in {"create", "remove"}
        /\ msg[m].at = "create" => msg[m].ids[k] = NoJob
    BY <1>0, <1>7 DEF CronTyped, MessageSound
  <2>4. ~Is(m, "remove", "queued")'
    BY <1>3 DEF Is
  <2>5. Heard(r)'
    BY <1>1, <1>3, <1>5, <2>2 DEF Heard, Is
  <2> QED
    BY <1>3, <2>2, <2>3, <2>4, <2>5 DEF RequestSound
<1>11. ASSUME NEW r \in requests, r.m = m
       PROVE  RequestSound(r)'
  <2>1. RequestSound(r)
    BY DEF CronInv
  <2> QED
    BY <1>3, <1>11, <2>1 DEF RequestSound, Is
<1>12. RowListens(m)
  <2> SUFFICES ASSUME killed = 0
               PROVE  /\ \A r \in requests' : r.m = m /\ r.op = "create" => Heard(r)'
                      /\ \A j \in jobs : j.m = m =>
                           j.id \in {msg'[m].ids[j.k], results'[m][j.k].id}
    BY <1>1, <1>3, <1>5 DEF RowListens
  <2>0. ~Failing(m)
    BY <1>0 DEF Failing, AnyFailed, MessageSound, Slots
  <2>1. Listens(m) /\ NoJobForgotten
    BY DEF CronInv, Listening
  <2>2. ASSUME NEW r \in requests, r.m = m, r.op = "create"
        PROVE  FALSE
    BY <1>0, <2>0, <2>1, <2>2 DEF Listens, Heard, Is
  <2>3. ASSUME NEW j \in jobs, j.m = m
        PROVE  j.id = msg[m].ids[j.k]
    <3>1. JobSound(j) /\ j.id \in {msg[m].ids[j.k], results[m][j.k].id}
      BY <2>0, <2>1, <2>3 DEF CronInv, NoJobForgotten
    <3>2. msg[m].at # "create" /\ j.k \in Slots(m)
      BY <1>0, <2>0, <2>1, <2>3, <3>1 DEF Listens, JobSound
    <3>3. results[m][j.k].id = NoJob
      BY <1>0, <3>2 DEF MessageSound
    <3>4. j.id # NoJob
      BY <1>0, <3>1 DEF JobSound, CronTyped, NoJob
    <3> QED
      BY <3>1, <3>3, <3>4
  <2> QED
    BY <1>3, <1>10, <2>2, <2>3
<1>13. msg'[m].at # "out" /\ ~Is(m, "remove", "queued")'
  BY <1>3, <1>7 DEF Is
<1> QED
  BY <1>1, <1>6, <1>8, <1>9, <1>10, <1>11, <1>12, <1>13, CronRow

\* A reset row has no answers.
LEMMA NothingAnswered ==
  ASSUME NEW m, NEW row, row = Nothing(m)
  PROVE  /\ row = [k \in Slots(m) |-> row[k]]
         /\ \A k \in Slots(m) :
              /\ row[k] = [st |-> row[k].st, id |-> row[k].id]
              /\ row[k].st = "none" /\ row[k].id = NoJob
<1>1. row = [k \in Slots(m) |-> [st |-> "none", id |-> NoJob]]
  BY DEF Nothing, Slots
<1> QED
  BY <1>1

\* Unless it fails, the node that is past the creation has nobody to wait for, and
\* knows its jobs by its message.
LEMMA PastCreation ==
  ASSUME CronInv, killed = 0, NEW m \in Message, ~Failing(m), msg[m].at # "create"
  PROVE  /\ \A r \in requests : r.m = m => r.op # "create"
         /\ \A j \in jobs : j.m = m => j.id = msg[m].ids[j.k]
<1>1. Listens(m) /\ NoJobForgotten /\ MessageSound(m) /\ CronTyped
  BY DEF CronInv, Listening
<1>2. ASSUME NEW r \in requests, r.m = m, r.op = "create"
      PROVE  FALSE
  BY <1>1, <1>2 DEF Listens, Heard, Is
<1>3. ASSUME NEW j \in jobs, j.m = m
      PROVE  j.id = msg[m].ids[j.k]
  <2>1. JobSound(j) /\ j.id \in {msg[m].ids[j.k], results[m][j.k].id}
    BY <1>1, <1>3 DEF CronInv, NoJobForgotten
  <2>2. j.k \in Slots(m) /\ j.id # NoJob
    BY <1>1, <1>3, <2>1 DEF JobSound, CronTyped, NoJob
  <2>3. results[m][j.k].id = NoJob
    BY <1>1, <2>2 DEF MessageSound
  <2> QED
    BY <2>1, <2>2, <2>3
<1> QED
  BY <1>2, <1>3

LEMMA CronSucceed ==
  ASSUME CronInv, NEW m \in Message, Succeed(m)
  PROVE  CronInv'
<1>0. CronTyped /\ MessageSound(m) /\ msg[m].phase = "running" /\ Complete(m)
  BY DEF CronInv, Succeed
<1>1. RowFrame(m) /\ try'[m] = 0 /\ requests' = requests
  <2>1. try' \in [Message -> Nat] /\ try' = [try EXCEPT ![m] = 0]
    BY <1>0 DEF Succeed, CronTyped
  <2>2. /\ msg' = [n \in Message |-> msg'[n]] /\ results' = [n \in Message |-> results'[n]]
        /\ \A n \in Message \ {m} : msg'[n] = msg[n] /\ results'[n] = results[n]
    BY <1>0 DEF Succeed, CronTyped
  <2>3. UNCHANGED <<jobs, made, failures, killed, requests>>
    BY DEF Succeed
  <2>4. try'[m] = 0 /\ \A n \in Message \ {m} : try'[n] = try[n]
    BY <1>0, <2>1 DEF CronTyped
  <2> QED
    BY <2>1, <2>2, <2>3, <2>4 DEF RowFrame
<1>2. results'[m] = Nothing(m)
  BY <1>0 DEF Succeed, CronTyped
<1>3. /\ results'[m] = [k \in Slots(m) |-> results'[m][k]]
      /\ \A k \in Slots(m) :
           /\ results'[m][k] = [st |-> results'[m][k].st, id |-> results'[m][k].id]
           /\ results'[m][k].st = "none" /\ results'[m][k].id = NoJob
  BY <1>2, NothingAnswered
<1>4. /\ \A k \in Slots(m) : results[m][k].st = "ok"
      /\ ~Failing(m)
  BY <1>0 DEF Complete, Slots, Failing, AnyFailed
<1>5. CASE msg[m].at = "create"
  <2>1. msg'[m] = [at |-> "remove", phase |-> "queued", ids |-> [k \in Slots(m) |-> results[m][k].id]]
    BY <1>0, <1>5 DEF Succeed, Identifiers, CronTyped, Slots
  <2>2. /\ msg'[m].at = "remove" /\ msg'[m].phase = "queued"
        /\ msg'[m].ids = [k \in Slots(m) |-> results[m][k].id]
        /\ msg'[m] = [at |-> msg'[m].at, phase |-> msg'[m].phase, ids |-> msg'[m].ids]
    BY <2>1
  <2>3. \A k \in Slots(m) : msg'[m].ids[k] = results[m][k].id
    BY <2>2
  <2>4. RowTyped(m)
    <3>1. msg'[m].ids = [k \in Slots(m) |-> msg'[m].ids[k]]
      BY <2>2
    <3> QED
      BY <1>3, <2>2, <2>3, <3>1 DEF RowTyped
  <2>5. MessageSound(m)'
    BY <1>3, <2>2 DEF MessageSound
  <2>6. RowListens(m)
    <3> SUFFICES ASSUME killed = 0
                 PROVE  /\ \A r \in requests : r.m = m /\ r.op = "create" => Heard(r)'
                        /\ \A j \in jobs : j.m = m => j.id \in {msg'[m].ids[j.k], results'[m][j.k].id}
      BY <1>1, <2>2 DEF RowListens
    <3>1. ASSUME NEW r \in requests, r.m = m, r.op = "create"
          PROVE  FALSE
      <4>1. Heard(r) /\ r.k \in Slots(m)
        BY <1>4, <3>1 DEF CronInv, Listening, Listens, RequestSound
      <4> QED
        BY <1>4, <3>1, <4>1 DEF Heard
    <3>2. ASSUME NEW j \in jobs, j.m = m
          PROVE  j.id = msg'[m].ids[j.k]
      <4>1. JobSound(j) /\ j.id \in {msg[m].ids[j.k], results[m][j.k].id}
        BY <1>4, <3>2 DEF CronInv, NoJobForgotten
      <4>2. j.k \in Slots(m) /\ j.id # NoJob
        BY <1>0, <3>2, <4>1 DEF JobSound, CronTyped, NoJob
      <4>3. msg[m].ids[j.k] = NoJob
        BY <1>0, <1>5, <4>2 DEF MessageSound
      <4> QED
        BY <2>3, <4>1, <4>2, <4>3
    <3> QED
      BY <3>1, <3>2
  <2>7. ASSUME NEW r \in requests, r.m = m
        PROVE  RequestSound(r)'
    <3>1. RequestSound(r)
      BY DEF CronInv
    <3>2. r.op = "create"
      BY <1>5, <2>7, <3>1 DEF RequestSound
    <3> QED
      BY <3>1, <3>2 DEF RequestSound
  <2>8. \A k \in Slots(m) : [id |-> msg'[m].ids[k], m |-> m, k |-> k] \in jobs
    BY <1>0, <1>4, <1>5, <2>3 DEF MessageSound
  <2> QED
    BY <1>1, <2>2, <2>4, <2>5, <2>6, <2>7, <2>8, CronRow
<1>6. CASE msg[m].at # "create"
  <2>1. msg[m].at = "remove"
    BY <1>0, <1>6 DEF CronTyped, MessageSound
  <2>2. msg'[m] = [msg[m] EXCEPT !.at = "out", !.phase = "done"]
    BY <1>0, <1>6 DEF Succeed, CronTyped
  <2>3. /\ msg'[m].at = "out" /\ msg'[m].phase = "done" /\ msg'[m].ids = msg[m].ids
        /\ msg'[m] = [at |-> msg'[m].at, phase |-> msg'[m].phase, ids |-> msg'[m].ids]
    BY <1>0, <2>2 DEF CronTyped
  <2>4. RowTyped(m)
    <3>1. msg'[m].ids = [k \in Slots(m) |-> msg'[m].ids[k]]
      BY <1>0, <2>3 DEF CronTyped
    <3>2. \A k \in Slots(m) : msg'[m].ids[k] = msg[m].ids[k]
      BY <2>3
    <3> QED
      BY <1>3, <2>3, <3>1, <3>2 DEF RowTyped
  <2>5. MessageSound(m)'
    BY <1>3, <2>3 DEF MessageSound
  <2>6. RowListens(m)
    BY <1>1, <1>4, <1>6, <2>3, PastCreation DEF RowListens
  <2>7. ASSUME NEW r \in requests, r.m = m
        PROVE  RequestSound(r)'
    <3>1. RequestSound(r)
      BY DEF CronInv
    <3> QED
      BY <2>3, <2>7, <3>1 DEF RequestSound, Is
  <2>8. \A j \in jobs : \A k \in Slots(m) : j.id # msg'[m].ids[k]
    BY <1>0, <1>4, <2>1, <2>3 DEF MessageSound
  <2>9. ~Is(m, "remove", "queued")'
    BY <2>3 DEF Is
  <2> QED
    BY <1>1, <2>4, <2>5, <2>6, <2>7, <2>8, <2>9, CronRow
<1> QED
  BY <1>5, <1>6

LEMMA CronFail ==
  ASSUME CronInv, NEW m \in Message, Fail(m) \/ TaskTimeout(m)
  PROVE  CronInv'
<1>0. CronTyped /\ MessageSound(m) /\ msg[m].phase = "running" /\ End(m)
  BY DEF CronInv, Fail, TaskTimeout
<1>1. RowFrame(m) /\ try' = try /\ requests' = requests
  <2>1. /\ msg' = [n \in Message |-> msg'[n]] /\ results' = [n \in Message |-> results'[n]]
        /\ \A n \in Message \ {m} : msg'[n] = msg[n] /\ results'[n] = results[n]
    BY <1>0 DEF End, CronTyped
  <2>2. UNCHANGED <<jobs, made, failures, killed, requests, try>>
    BY <1>0 DEF End
  <2> QED
    BY <1>0, <2>1, <2>2 DEF RowFrame, CronTyped
<1>2. results'[m] = Nothing(m) /\ msg'[m] = [msg[m] EXCEPT !.phase = "failed"]
  BY <1>0 DEF End, CronTyped
<1>3. /\ results'[m] = [k \in Slots(m) |-> results'[m][k]]
      /\ \A k \in Slots(m) :
           /\ results'[m][k] = [st |-> results'[m][k].st, id |-> results'[m][k].id]
           /\ results'[m][k].st = "none" /\ results'[m][k].id = NoJob
  BY <1>2, NothingAnswered
<1>4. /\ msg'[m].at = msg[m].at /\ msg'[m].phase = "failed" /\ msg'[m].ids = msg[m].ids
      /\ msg'[m] = [at |-> msg'[m].at, phase |-> msg'[m].phase, ids |-> msg'[m].ids]
  BY <1>0, <1>2 DEF CronTyped
<1>5. RowTyped(m)
  <2>1. msg'[m].ids = [k \in Slots(m) |-> msg'[m].ids[k]] /\ msg'[m].at \in {"create", "remove", "out"}
    BY <1>0, <1>4 DEF CronTyped
  <2>2. \A k \in Slots(m) : msg'[m].ids[k] = msg[m].ids[k]
    BY <1>4
  <2> QED
    BY <1>3, <1>4, <2>1, <2>2 DEF RowTyped
<1>6. msg[m].at # "out"
  BY <1>0 DEF MessageSound
<1>7. MessageSound(m)'
  <2>1. \A k \in Slots(m) : msg[m].at = "create" => msg[m].ids[k] = NoJob
    BY <1>0 DEF MessageSound
  <2> QED
    BY <1>3, <1>4, <1>6, <2>1 DEF MessageSound
<1>8. RowListens(m)
  BY <1>4 DEF RowListens, Failing
<1>9. ASSUME NEW r \in requests, r.m = m
      PROVE  RequestSound(r)'
  <2>1. RequestSound(r)
    BY DEF CronInv
  <2> QED
    BY <1>4, <1>9, <2>1 DEF RequestSound, Is
<1>10. msg'[m].at # "out" /\ ~Is(m, "remove", "queued")'
  BY <1>4, <1>6 DEF Is
<1> QED
  BY <1>1, <1>5, <1>7, <1>8, <1>9, <1>10, CronRow

\* What m and its requests stand at is left alone, but for an answer that is a
\* failure to a node that waits for it: then m fails.
LEMMA CronAnswerFailed ==
  ASSUME CronInv, NEW m \in Message, NEW k \in Slots(m),
         UNCHANGED <<msg, jobs, made, try, killed>>, failures' = failures + 1, requests' \subseteq requests,
         \/ results' = results
         \/ /\ results' = [results EXCEPT ![m] = [@ EXCEPT ![k] = [st |-> "failed", id |-> NoJob]]]
            /\ msg[m].phase = "running"
  PROVE  CronInv'
<1>0. CronTyped /\ MessageSound(m)
  BY DEF CronInv
<1>1. /\ results' = [n \in Message |-> results'[n]]
      /\ \A n \in Message \ {m} : results'[n] = results[n]
      /\ results'[m] = results[m] \/
           results'[m] = [results[m] EXCEPT ![k] = [st |-> "failed", id |-> NoJob]]
  BY <1>0 DEF CronTyped
<1>2. results[m] = [i \in Slots(m) |-> results[m][i]]
  BY <1>0 DEF CronTyped
<1>3. /\ results'[m] = [i \in Slots(m) |-> results'[m][i]]
      /\ \A i \in Slots(m) :
           results'[m][i] = results[m][i] \/ results'[m][i] = [st |-> "failed", id |-> NoJob]
  BY <1>1, <1>2
<1>4. RowFrame(m)
  BY <1>0, <1>1 DEF RowFrame, CronTyped
<1>5. \A i \in Slots(m) :
        /\ results'[m][i] = [st |-> results'[m][i].st, id |-> results'[m][i].id]
        /\ results'[m][i].id \in {NoJob, results[m][i].id}
        /\ \/ results'[m][i].st = "failed" /\ results'[m][i].id = NoJob
           \/ results'[m][i].st = results[m][i].st /\ results'[m][i].id = results[m][i].id
  <2>1. \A i \in Slots(m) : results[m][i] = [st |-> results[m][i].st, id |-> results[m][i].id]
    BY <1>0 DEF CronTyped
  <2> QED
    BY <1>3, <2>1
<1>6. RowTyped(m)
  <2>1. /\ msg[m] = [at |-> msg[m].at, phase |-> msg[m].phase, ids |-> msg[m].ids]
        /\ msg[m].at \in {"create", "remove", "out"}
        /\ msg[m].phase \in {"queued", "running", "failed", "done"}
        /\ msg[m].ids = [i \in Slots(m) |-> msg[m].ids[i]]
    BY <1>0 DEF CronTyped
  <2> QED
    BY <1>3, <1>5, <2>1 DEF RowTyped
<1>7. MessageSound(m)'
  <2>1. msg[m].phase # "running" => results' = results
    OBVIOUS
  <2> QED
    BY <1>0, <1>5, <2>1 DEF MessageSound
<1>8. RowListens(m)
  <2>1. CASE results' = results
    <3> SUFFICES ASSUME killed = 0, ~Failing(m)'
                 PROVE  /\ \A r \in requests' : r.m = m /\ r.op = "create" => Heard(r)'
                        /\ msg[m].at = "create" /\ msg[m].phase = "queued" => \A j \in jobs : j.m # m
                        /\ \A j \in jobs : j.m = m => j.id \in {msg[m].ids[j.k], results[m][j.k].id}
      BY <2>1 DEF RowListens
    <3>1. Listens(m) /\ NoJobForgotten /\ ~Failing(m)
      BY <2>1 DEF CronInv, Listening, Failing, AnyFailed
    <3>2. \A r \in requests : Heard(r) => Heard(r)'
      BY <2>1 DEF Heard, Is
    <3> QED
      BY <3>1, <3>2 DEF Listens, NoJobForgotten
  <2>2. CASE results' = [results EXCEPT ![m] = [@ EXCEPT ![k] = [st |-> "failed", id |-> NoJob]]]
    <3>1. results'[m] = [results[m] EXCEPT ![k] = [st |-> "failed", id |-> NoJob]]
      BY <1>0, <2>2 DEF CronTyped
    <3>2. results'[m][k] = [st |-> "failed", id |-> NoJob]
      BY <1>2, <3>1
    <3>3. Failing(m)'
      BY <3>2 DEF Failing, AnyFailed, Slots
    <3> QED
      BY <3>3 DEF RowListens
  <2> QED
    BY <2>1, <2>2
<1>9. ASSUME NEW r \in requests'
      PROVE  r \in requests /\ RequestSound(r)'
  <2>1. RequestSound(r)
    BY DEF CronInv
  <2> QED
    BY <2>1 DEF RequestSound, Is
<1>10. Is(m, "remove", "queued")' /\ try'[m] = 0 =>
         \A i \in Slots(m) : [id |-> msg'[m].ids[i], m |-> m, k |-> i] \in jobs
  BY DEF CronInv, IdentifiersAreItsJobs, Is, Slots
<1>11. msg'[m].at = "out" => \A j \in jobs : \A i \in Slots(m) : j.id # msg'[m].ids[i]
  BY DEF CronInv, RemovedAreGone, Slots
<1> QED
  BY <1>4, <1>6, <1>7, <1>8, <1>9, <1>10, <1>11, CronRow

LEMMA CronGiveUp ==
  ASSUME CronInv, NEW m \in Message, NEW k \in Slots(m), GiveUp(m, k)
  PROVE  CronInv'
<1>1. CronTyped /\ MessageSound(m) /\ results[m][k].st = "sent" /\ msg[m].phase = "running"
  BY DEF CronInv, GiveUp
<1>2. results[m][k] = [st |-> "sent", id |-> NoJob]
  <2>1. results[m][k] = [st |-> results[m][k].st, id |-> results[m][k].id]
    BY <1>1 DEF CronTyped
  <2>2. results[m][k].id = NoJob
    BY <1>1 DEF MessageSound
  <2> QED
    BY <1>1, <2>1, <2>2
<1>3. [results[m][k] EXCEPT !.st = "failed"] = [st |-> "failed", id |-> NoJob]
  BY <1>2
<1>4. results' = [results EXCEPT ![m] = [@ EXCEPT ![k] = [st |-> "failed", id |-> NoJob]]]
  <2>1. results' = [results EXCEPT ![m][k] = [results[m][k] EXCEPT !.st = "failed"]]
    <3>1. results' = [results EXCEPT ![m][k].st = "failed"]
      BY DEF GiveUp
    <3>2. results[m] = [i \in Slots(m) |-> results[m][i]] /\ DOMAIN results = Message
      BY <1>1 DEF CronTyped
    <3> QED
      BY <3>1, <3>2
  <2> QED
    BY <1>3, <2>1
<1> QED
  BY <1>1, <1>4, CronAnswerFailed DEF GiveUp, Fails

LEMMA CronRefuse ==
  ASSUME CronInv, NEW r \in requests, Refuse(r)
  PROVE  CronInv'
<1>1. r.m \in Message /\ r.k \in Slots(r.m)
  BY DEF CronInv, RequestSound
<1>2. \/ results' = results
      \/ /\ results' = [results EXCEPT ![r.m] = [@ EXCEPT ![r.k] = [st |-> "failed", id |-> NoJob]]]
         /\ msg[r.m].phase = "running"
  BY DEF Refuse, Answer, Refused, Heard, Is
<1>3. requests' \subseteq requests /\ failures' = failures + 1 /\ UNCHANGED <<msg, jobs, made, try, killed>>
  BY DEF Refuse, Fails
<1> QED
  BY <1>1, <1>2, <1>3, CronAnswerFailed

\* What the process worked on when it was killed is delivered again.
LEMMA CronDies ==
  ASSUME CronInv, Dies
  PROVE  CronInv'
<1>0. CronTyped /\ killed' # 0 /\ {failures', killed'} \subseteq Nat /\ UNCHANGED <<requests, jobs, made, try>>
  BY DEF CronInv, CronTyped, Dies
<1>1. /\ msg' = [n \in Message |-> IF msg[n].phase = "running" THEN [msg[n] EXCEPT !.phase = "queued"] ELSE msg[n]]
      /\ results' = [n \in Message |-> Nothing(n)]
  BY DEF Dies
<1>2. \A n \in Message :
        /\ msg'[n] = [at |-> msg'[n].at, phase |-> msg'[n].phase, ids |-> msg'[n].ids]
        /\ msg'[n].at = msg[n].at /\ msg'[n].ids = msg[n].ids
        /\ \/ msg'[n].phase = msg[n].phase /\ msg[n].phase # "running"
           \/ msg'[n].phase = "queued" /\ msg[n].phase = "running"
  <2> SUFFICES ASSUME NEW n \in Message
               PROVE  /\ msg'[n] = [at |-> msg'[n].at, phase |-> msg'[n].phase, ids |-> msg'[n].ids]
                      /\ msg'[n].at = msg[n].at /\ msg'[n].ids = msg[n].ids
                      /\ \/ msg'[n].phase = msg[n].phase /\ msg[n].phase # "running"
                         \/ msg'[n].phase = "queued" /\ msg[n].phase = "running"
    OBVIOUS
  <2>1. msg[n] = [at |-> msg[n].at, phase |-> msg[n].phase, ids |-> msg[n].ids]
    BY <1>0 DEF CronTyped
  <2> QED
    BY <1>1, <2>1
<1>3. \A n \in Message :
        /\ results'[n] = [k \in Slots(n) |-> results'[n][k]]
        /\ \A k \in Slots(n) :
             /\ results'[n][k] = [st |-> results'[n][k].st, id |-> results'[n][k].id]
             /\ results'[n][k].st = "none" /\ results'[n][k].id = NoJob
  BY <1>1, NothingAnswered
<1>4. \A n \in Message : msg[n].phase = "running" => try[n] # 0
  BY DEF CronInv, MessageSound
<1>5. CronTyped'
  <2>1. \A n \in Message :
          /\ msg'[n].at \in {"create", "remove", "out"}
          /\ msg'[n].phase \in {"queued", "running", "failed", "done"}
          /\ msg'[n].ids \in [Slots(n) -> 0..made]
    BY <1>0, <1>2 DEF CronTyped
  <2>0. NoJob \in 0..made
    BY <1>0 DEF CronTyped, NoJob
  <2>2. \A n \in Message : \A k \in Slots(n) : results'[n][k].id \in 0..made
    BY <1>3, <2>0
  <2>3. /\ DOMAIN msg' = Message /\ msg' = [n \in Message |-> msg'[n]]
        /\ DOMAIN results' = Message /\ results' = [n \in Message |-> results'[n]]
    BY <1>1
  <2> QED
    BY <1>0, <1>2, <1>3, <2>1, <2>2, <2>3 DEF CronTyped
<1>6. ASSUME NEW r \in requests'
      PROVE  RequestSound(r)'
  <2>1. RequestSound(r)
    BY <1>0 DEF CronInv
  <2> QED
    BY <1>0, <1>2, <1>4, <2>1 DEF RequestSound, Is
<1>7. ASSUME NEW n \in Message
      PROVE  MessageSound(n)'
  <2>1. MessageSound(n)
    BY DEF CronInv
  <2>2. /\ msg'[n].at = msg[n].at /\ msg'[n].ids = msg[n].ids /\ msg'[n].phase # "running"
        /\ msg[n].at = "out" => msg'[n].phase = "done"
    BY <1>2, <2>1 DEF MessageSound
  <2>3. ASSUME NEW k \in Slots(n)
        PROVE  /\ results'[n][k].st = "none" /\ results'[n][k].id = NoJob
               /\ msg[n].at = "create" => msg[n].ids[k] = NoJob
    BY <1>3, <2>1 DEF MessageSound
  <2> QED
    BY ONLY <2>2, <2>3 DEF MessageSound
<1>8. ASSUME NEW j \in jobs'
      PROVE  JobSound(j)'
  <2>1. JobSound(j)
    BY <1>0 DEF CronInv
  <2>2. j.id # NoJob
    BY <1>0, <2>1 DEF JobSound, CronTyped, NoJob
  <2>3. ASSUME NEW n \in Message, NEW k \in Slots(n),
               j.id = msg'[n].ids[k] \/ j.id = results'[n][k].id
        PROVE  j.m = n /\ j.k = k
    <3>1. j.id = msg[n].ids[k]
      BY <1>2, <1>3, <2>2, <2>3
    <3> QED
      BY <2>1, <3>1 DEF JobSound
  <2> QED
    BY <1>0, <2>1, <2>3 DEF JobSound
<1>9. JobsApart' /\ Listening' /\ NoJobForgotten'
  BY <1>0 DEF CronInv, JobsApart, Listening, NoJobForgotten
<1>10. IdentifiersAreItsJobs'
  <2> SUFFICES ASSUME NEW n \in Message, Is(n, "remove", "queued")', try[n] = 0, NEW k \in Slots(n)
               PROVE  [id |-> msg'[n].ids[k], m |-> n, k |-> k] \in jobs
    BY <1>0 DEF IdentifiersAreItsJobs, Slots
  <2>1. Is(n, "remove", "queued") /\ msg'[n].ids = msg[n].ids
    BY <1>2, <1>4 DEF Is
  <2>2. IdentifiersAreItsJobs
    BY DEF CronInv
  <2>3. [id |-> msg[n].ids[k], m |-> n, k |-> k] \in jobs
    BY <2>1, <2>2 DEF IdentifiersAreItsJobs, Slots
  <2> QED
    BY <2>1, <2>3
<1>11. RemovedAreGone'
  <2> SUFFICES ASSUME NEW n \in Message, msg'[n].at = "out", NEW j \in jobs, NEW k \in Slots(n)
               PROVE  j.id # msg'[n].ids[k]
    BY <1>0 DEF RemovedAreGone, Slots
  <2>1. RemovedAreGone
    BY DEF CronInv
  <2>2. msg[n].at = "out" /\ msg'[n].ids = msg[n].ids
    BY <1>2
  <2>3. j.id # msg[n].ids[k]
    BY <2>1, <2>2 DEF RemovedAreGone, Slots
  <2> QED
    BY <2>2, <2>3
<1> QED
  BY <1>5, <1>6, <1>7, <1>8, <1>9, <1>10, <1>11 DEF CronInv


\* An answer to r changes what its node has been answered at r.k, if anything.
LEMMA CronAnswered ==
  ASSUME CronTyped, NEW r, RequestSound(r), NEW st, NEW id, Answer(r, st, id)
  PROVE  /\ DOMAIN results' = Message /\ results' = [n \in Message |-> results'[n]]
         /\ \A n \in Message : results'[n] = [k \in Slots(n) |-> results'[n][k]]
         /\ ~Heard(r) => results' = results
         /\ Heard(r) =>
              /\ results'[r.m][r.k].st = st /\ results'[r.m][r.k].id = id
              /\ results'[r.m][r.k] = [st |-> results'[r.m][r.k].st, id |-> results'[r.m][r.k].id]
         /\ \A n \in Message : \A k \in Slots(n) :
              ~(Heard(r) /\ n = r.m /\ k = r.k) => results'[n][k] = results[n][k]
<1>0. r.m \in Message /\ r.k \in Slots(r.m)
  BY DEF RequestSound
<1>1. CASE Heard(r)
  <2>1. results' = [results EXCEPT ![r.m] = [@ EXCEPT ![r.k] = [st |-> st, id |-> id]]]
    BY <1>1 DEF Answer
  <2>2. results[r.m] = [k \in Slots(r.m) |-> results[r.m][k]]
    BY <1>0 DEF CronTyped
  <2>3. /\ DOMAIN results' = Message /\ results' = [n \in Message |-> results'[n]]
        /\ \A n \in Message \ {r.m} : results'[n] = results[n]
        /\ results'[r.m] = [results[r.m] EXCEPT ![r.k] = [st |-> st, id |-> id]]
    BY <1>0, <2>1 DEF CronTyped
  <2>4. results'[r.m] = [k \in Slots(r.m) |-> results'[r.m][k]]
    BY <2>2, <2>3
  <2>5. results'[r.m][r.k] = [st |-> st, id |-> id]
    BY <1>0, <2>2, <2>3
  <2>6. \A k \in Slots(r.m) \ {r.k} : results'[r.m][k] = results[r.m][k]
    BY <2>2, <2>3
  <2>7. \A n \in Message : results[n] = [k \in Slots(n) |-> results[n][k]]
    BY DEF CronTyped
  <2>8. ASSUME NEW n \in Message
        PROVE  results'[n] = [k \in Slots(n) |-> results'[n][k]]
    <3>1. CASE n = r.m
      BY <2>4, <3>1
    <3>2. CASE n # r.m
      BY <2>3, <2>7, <3>2
    <3> QED
      BY <3>1, <3>2
  <2>9. results'[r.m][r.k].st = st /\ results'[r.m][r.k].id = id
        /\ results'[r.m][r.k] = [st |-> results'[r.m][r.k].st, id |-> results'[r.m][r.k].id]
    BY <2>5
  <2>10. ASSUME NEW n \in Message, NEW k \in Slots(n), ~(n = r.m /\ k = r.k)
         PROVE  results'[n][k] = results[n][k]
    BY <2>3, <2>6, <2>10
  <2> QED
    BY <1>1, <2>3, <2>8, <2>9, <2>10
<1>2. CASE ~Heard(r)
  <2>1. results' = results
    BY <1>2 DEF Answer
  <2>2. /\ DOMAIN results = Message /\ results = [n \in Message |-> results[n]]
        /\ \A n \in Message : results[n] = [k \in Slots(n) |-> results[n][k]]
    BY DEF CronTyped
  <2> QED
    BY <1>2, <2>1, <2>2
<1> QED
  BY <1>1, <1>2

\* The service creates a job and answers its identifier to whoever still waits.
LEMMA CronServeCreate ==
  ASSUME CronInv, NEW r \in requests, r.op = "create", Serve(r)
  PROVE  CronInv'
<1> DEFINE J == [id |-> made + 1, m |-> r.m, k |-> r.k]
<1>0. /\ CronTyped /\ RequestSound(r) /\ made \in Nat
      /\ jobs' = jobs \cup {J} /\ made' = made + 1 /\ requests' = requests \ {r}
      /\ Answer(r, "ok", made + 1) /\ UNCHANGED <<msg, try, failures, killed>>
  BY DEF CronInv, CronTyped, Serve
<1>1. /\ J.id = made + 1 /\ J.m = r.m /\ J.k = r.k /\ J = [id |-> J.id, m |-> J.m, k |-> J.k]
      /\ r.m \in Message /\ r.k \in Slots(r.m)
  BY <1>0 DEF RequestSound
<1>2. /\ DOMAIN results' = Message /\ results' = [n \in Message |-> results'[n]]
      /\ \A n \in Message : results'[n] = [k \in Slots(n) |-> results'[n][k]]
      /\ Heard(r) =>
           /\ results'[r.m][r.k].st = "ok" /\ results'[r.m][r.k].id = made + 1
           /\ results'[r.m][r.k] = [st |-> results'[r.m][r.k].st, id |-> results'[r.m][r.k].id]
      /\ \A n \in Message : \A k \in Slots(n) :
           ~(Heard(r) /\ n = r.m /\ k = r.k) => results'[n][k] = results[n][k]
  BY <1>0, CronAnswered
<1>3. Heard(r) => msg[r.m].at = "create" /\ msg[r.m].phase = "running" /\ results[r.m][r.k].st = "sent"
  BY <1>0 DEF Heard, Is
<1> HIDE DEF J
<1>4. \A n \in Message : \A k \in Slots(n) :
        msg[n].ids[k] \in 0..made /\ results[n][k].id \in 0..made
        /\ results[n][k] = [st |-> results[n][k].st, id |-> results[n][k].id]
  BY <1>0 DEF CronTyped
<1>f. \A i \in 0..made : i \in 0..made + 1 /\ i # made + 1
  BY <1>0
<1>5. \A n \in Message : \A k \in Slots(n) : msg[n].ids[k] \in 0..made + 1 /\ msg[n].ids[k] # made + 1
  BY <1>4, <1>f
<1>6. \A n \in Message : \A k \in Slots(n) : results[n][k].id \in 0..made + 1 /\ results[n][k].id # made + 1
  BY <1>4, <1>f
<1>7. made + 1 \in 0..made + 1 /\ made + 1 \in 1..made + 1 /\ made + 1 # 0 /\ made + 1 \in Nat
  BY <1>0
<1>8. CronTyped'
  <2>1. \A n \in Message : msg[n].ids \in [Slots(n) -> 0..made + 1]
    <3>1. \A n \in Message : msg[n].ids \in [Slots(n) -> 0..made]
      BY <1>0 DEF CronTyped
    <3> QED
      BY <1>0, <1>5, <3>1
  <2>2. ASSUME NEW n \in Message, NEW k \in Slots(n)
        PROVE  /\ results'[n][k] = [st |-> results'[n][k].st, id |-> results'[n][k].id]
               /\ results'[n][k].id \in 0..made + 1
    <3>1. CASE Heard(r) /\ n = r.m /\ k = r.k
      BY <1>2, <1>7, <3>1
    <3>2. CASE ~(Heard(r) /\ n = r.m /\ k = r.k)
      <4>1. results'[n][k] = results[n][k]
        BY <1>2, <3>2
      <4> QED
        BY <1>4, <1>6, <4>1
    <3> QED
      BY <3>1, <3>2
  <2> QED
    BY <1>0, <1>2, <1>7, <2>1, <2>2 DEF CronTyped
<1>9. ASSUME NEW q \in requests'
      PROVE  RequestSound(q)'
  <2>1. RequestSound(q)
    BY <1>0 DEF CronInv
  <2> QED
    BY <1>0, <2>1 DEF RequestSound, Is
<1>10. ASSUME NEW n \in Message
       PROVE  MessageSound(n)'
  <2>1. MessageSound(n)
    BY DEF CronInv
  <2>2. ASSUME NEW k \in Slots(n)
        PROVE  /\ msg[n].at = "create" => msg[n].ids[k] = NoJob
               /\ msg[n].phase # "running" => results'[n][k].st = "none"
               /\ results'[n][k].st # "ok" \/ msg[n].at # "create" => results'[n][k].id = NoJob
               /\ msg[n].at = "create" /\ results'[n][k].st = "ok" =>
                    [id |-> results'[n][k].id, m |-> n, k |-> k] \in jobs'
               /\ msg[n].at = "remove" /\ results'[n][k].st = "ok" =>
                    \A j \in jobs' : j.id # msg[n].ids[k]
    <3>1. CASE Heard(r) /\ n = r.m /\ k = r.k
      BY <1>0, <1>2, <1>3, <2>1, <3>1 DEF MessageSound, J
    <3>2. CASE ~(Heard(r) /\ n = r.m /\ k = r.k)
      <4>1. results'[n][k] = results[n][k]
        BY <1>2, <3>2
      <4> QED
        BY <1>0, <1>1, <1>5, <2>1, <4>1 DEF MessageSound
    <3> QED
      BY <3>1, <3>2
  <2> QED
    BY <1>0, <2>1, <2>2 DEF MessageSound
<1>11. ASSUME NEW j \in jobs'
       PROVE  JobSound(j)'
  <2>1. CASE j \in jobs
    <3>1. JobSound(j) /\ j.id \in 1..made + 1 /\ j.id # made + 1
      BY <1>0, <2>1 DEF CronInv, JobSound
    <3>2. ASSUME NEW n \in Message, NEW k \in Slots(n),
                 j.id = msg[n].ids[k] \/ j.id = results'[n][k].id
          PROVE  j.m = n /\ j.k = k
      <4>1. j.id = msg[n].ids[k] \/ j.id = results[n][k].id
        BY <1>2, <3>1, <3>2
      <4> QED
        BY <3>1, <4>1 DEF JobSound
    <3> QED
      BY <1>0, <3>1, <3>2 DEF JobSound
  <2>2. CASE j = J
    <3>1. ASSUME NEW n \in Message, NEW k \in Slots(n),
                 j.id = msg[n].ids[k] \/ j.id = results'[n][k].id
          PROVE  j.m = n /\ j.k = k
      <4>1. results'[n][k].id = made + 1
        BY <1>1, <1>5, <2>2, <3>1
      <4>2. results'[n][k] # results[n][k]
        BY <1>6, <4>1
      <4> QED
        BY <1>1, <1>2, <2>2, <4>2
    <3> QED
      BY <1>0, <1>1, <1>7, <2>2, <3>1 DEF JobSound
  <2> QED
    BY <1>0, <2>1, <2>2
<1>12. JobsApart'
  <2>1. \A j \in jobs : j.id # made + 1
    BY <1>0 DEF CronInv, JobSound
  <2> QED
    BY <1>0, <1>1, <2>1 DEF CronInv, JobsApart
<1>13. \A n \in Message : Failing(n) => Failing(n)'
  <2> SUFFICES ASSUME NEW n \in Message, NEW k \in Slots(n), results[n][k].st = "failed"
               PROVE  results'[n][k].st = "failed"
    BY <1>0 DEF Failing, AnyFailed, Slots
  <2> QED
    BY <1>2, <1>3
<1>14. Listening'
  <2> SUFFICES ASSUME killed = 0, NEW n \in Message, ~Failing(n)
               PROVE  /\ \A q \in requests' : q.m = n /\ q.op = "create" => Heard(q)'
                      /\ msg[n].at = "create" /\ msg[n].phase = "queued" => \A j \in jobs' : j.m # n
    BY <1>0, <1>13 DEF Listening, Listens
  <2>0. Listens(n)
    BY DEF Listening, CronInv
  <2>1. ASSUME NEW q \in requests', q.m = n, q.op = "create"
        PROVE  Heard(q)'
    <3>1. Heard(q) /\ RequestSound(q) /\ q # r
      BY <1>0, <2>0, <2>1 DEF Listens, CronInv
    <3>2. ~(q.m = r.m /\ q.k = r.k)
      <4>1. q.m = r.m => q.try = r.try
        BY <1>0, <2>0, <2>1, <3>1 DEF Listens, Heard
      <4>2. q.job = r.job /\ q.op = r.op
        BY <1>0, <2>1, <3>1 DEF RequestSound
      <4> QED
        BY <1>0, <3>1, <4>1, <4>2 DEF RequestSound
    <3>3. results'[q.m][q.k] = results[q.m][q.k]
      BY <1>2, <3>1, <3>2 DEF RequestSound
    <3> QED
      BY <1>0, <3>1, <3>3 DEF Heard, Is
  <2>2. ASSUME msg[n].at = "create", msg[n].phase = "queued"
        PROVE  \A j \in jobs' : j.m # n
    <3>1. r.m # n
      BY <1>3, <2>0, <2>2 DEF Listens
    <3> QED
      BY <1>0, <1>1, <2>0, <2>2, <3>1 DEF Listens
  <2> QED
    BY <2>1, <2>2
<1>15. NoJobForgotten'
  <2> SUFFICES ASSUME killed = 0, NEW j \in jobs', ~Failing(j.m)'
               PROVE  j.id \in {msg[j.m].ids[j.k], results'[j.m][j.k].id}
    BY <1>0 DEF NoJobForgotten
  <2>0. j.m \in Message /\ ~Failing(j.m)
    <3>1. j.m \in Message
      BY <1>11 DEF JobSound
    <3> QED
      BY <1>13, <3>1
  <2>1. CASE j = J
    <3>1. Listens(r.m)
      BY <1>1 DEF CronInv, Listening
    <3>2. Heard(r)
      BY <1>1, <2>0, <2>1, <3>1 DEF Listens
    <3> QED
      BY <1>1, <1>2, <2>1, <3>2
  <2>2. CASE j \in jobs
    <3>1. JobSound(j) /\ j.id # NoJob /\ j.id \in {msg[j.m].ids[j.k], results[j.m][j.k].id}
      BY <1>0, <2>0, <2>2 DEF CronInv, JobSound, NoJobForgotten, NoJob
    <3>2. Heard(r) => results[r.m][r.k].id = NoJob
      <4>1. MessageSound(r.m)
        BY <1>1 DEF CronInv
      <4> QED
        BY <1>1, <1>3, <4>1 DEF MessageSound
    <3>3. ~(Heard(r) /\ j.m = r.m /\ j.k = r.k) => results'[j.m][j.k] = results[j.m][j.k]
      BY <1>2, <3>1 DEF JobSound
    <3> QED
      BY <3>1, <3>2, <3>3
  <2> QED
    BY <1>0, <2>1, <2>2
<1>16. IdentifiersAreItsJobs'
  BY <1>0 DEF CronInv, IdentifiersAreItsJobs, Is
<1>17. RemovedAreGone'
  BY <1>0, <1>1, <1>5 DEF CronInv, RemovedAreGone, Slots
<1> QED
  BY <1>8, <1>9, <1>10, <1>11, <1>12, <1>14, <1>15, <1>16, <1>17 DEF CronInv

\* The service removes the job a message names, which is that message's job.
LEMMA CronServeRemove ==
  ASSUME CronInv, NEW r \in requests, r.op = "remove", Serve(r)
  PROVE  CronInv'
<1>0. /\ CronTyped /\ RequestSound(r)
      /\ jobs' = {j \in jobs : j.id # r.job} /\ made' = made /\ requests' = requests \ {r}
      /\ UNCHANGED <<msg, try, failures, killed>>
  BY DEF CronInv, Serve
<1>1. PICK st : st \in {"failed", "ok"} /\ Answer(r, st, NoJob)
  BY <1>0 DEF Serve
<1>2. /\ DOMAIN results' = Message /\ results' = [n \in Message |-> results'[n]]
      /\ \A n \in Message : results'[n] = [k \in Slots(n) |-> results'[n][k]]
      /\ Heard(r) =>
           /\ results'[r.m][r.k].st = st /\ results'[r.m][r.k].id = NoJob
           /\ results'[r.m][r.k] = [st |-> results'[r.m][r.k].st, id |-> results'[r.m][r.k].id]
      /\ \A n \in Message : \A k \in Slots(n) :
           ~(Heard(r) /\ n = r.m /\ k = r.k) => results'[n][k] = results[n][k]
  BY <1>0, <1>1, CronAnswered
<1>3. Heard(r) => msg[r.m].at = "remove" /\ msg[r.m].phase = "running" /\ results[r.m][r.k].st = "sent"
  BY <1>0 DEF Heard, Is
<1>4. /\ r.m \in Message /\ r.k \in Slots(r.m) /\ r.job = msg[r.m].ids[r.k]
      /\ msg[r.m].at \in {"remove", "out"}
      /\ Is(r.m, "remove", "queued") => try[r.m] # 0
  BY <1>0 DEF RequestSound
<1>5. \A j \in jobs : j.id = r.job => j.m = r.m
  BY <1>4 DEF CronInv, JobSound
<1>6. jobs' \subseteq jobs /\ \A j \in jobs : JobSound(j) /\ j.id # NoJob
  BY <1>0 DEF CronInv, JobSound, CronTyped, NoJob
<1>7. CronTyped'
  <2>0. NoJob \in 0..made
    BY <1>0 DEF CronTyped, NoJob
  <2>1. ASSUME NEW n \in Message, NEW k \in Slots(n)
        PROVE  /\ results'[n][k] = [st |-> results'[n][k].st, id |-> results'[n][k].id]
               /\ results'[n][k].id \in 0..made
    <3>1. CASE Heard(r) /\ n = r.m /\ k = r.k
      BY <1>2, <2>0, <3>1
    <3>2. CASE ~(Heard(r) /\ n = r.m /\ k = r.k)
      <4>1. results'[n][k] = results[n][k]
        BY <1>2, <3>2
      <4>2. /\ results[n][k] = [st |-> results[n][k].st, id |-> results[n][k].id]
            /\ results[n][k].id \in 0..made
        BY <1>0 DEF CronTyped
      <4> QED
        BY <4>1, <4>2
    <3> QED
      BY <3>1, <3>2
  <2> QED
    BY <1>0, <1>2, <2>1 DEF CronTyped
<1>8. ASSUME NEW q \in requests'
      PROVE  RequestSound(q)'
  <2>1. RequestSound(q)
    BY <1>0 DEF CronInv
  <2> QED
    BY <1>0, <2>1 DEF RequestSound, Is
<1>9. ASSUME NEW n \in Message
      PROVE  MessageSound(n)'
  <2>1. MessageSound(n)
    BY DEF CronInv
  <2>2. ASSUME NEW k \in Slots(n)
        PROVE  /\ msg[n].phase # "running" => results'[n][k].st = "none"
               /\ results'[n][k].st # "ok" \/ msg[n].at # "create" => results'[n][k].id = NoJob
               /\ msg[n].at = "create" /\ results'[n][k].st = "ok" =>
                    [id |-> results'[n][k].id, m |-> n, k |-> k] \in jobs'
               /\ msg[n].at = "remove" /\ results'[n][k].st = "ok" =>
                    \A j \in jobs' : j.id # msg[n].ids[k]
    <3>1. CASE Heard(r) /\ n = r.m /\ k = r.k
      BY <1>0, <1>2, <1>3, <1>4, <3>1
    <3>2. CASE ~(Heard(r) /\ n = r.m /\ k = r.k)
      <4>1. results'[n][k] = results[n][k]
        BY <1>2, <3>2
      <4>2. ASSUME msg[n].at = "create", results[n][k].st = "ok"
            PROVE  [id |-> results[n][k].id, m |-> n, k |-> k] \in jobs'
        <5>1. [id |-> results[n][k].id, m |-> n, k |-> k] \in jobs
          BY <2>1, <4>2 DEF MessageSound
        <5>2. n # r.m
          BY <1>4, <4>2
        <5> QED
          BY <1>0, <1>5, <5>1, <5>2
      <4> QED
        BY <1>6, <2>1, <4>1, <4>2 DEF MessageSound
    <3> QED
      BY <3>1, <3>2
  <2> QED
    BY <1>0, <2>1, <2>2 DEF MessageSound
<1>10. ASSUME NEW j \in jobs'
       PROVE  JobSound(j)'
  <2>1. JobSound(j) /\ j.id # NoJob
    BY <1>6
  <2>2. ASSUME NEW n \in Message, NEW k \in Slots(n),
               j.id = msg[n].ids[k] \/ j.id = results'[n][k].id
        PROVE  j.m = n /\ j.k = k
    <3>1. j.id = msg[n].ids[k] \/ j.id = results[n][k].id
      BY <1>2, <2>1, <2>2
    <3> QED
      BY <2>1, <3>1 DEF JobSound
  <2> QED
    BY <1>0, <2>1, <2>2 DEF JobSound
<1>11. JobsApart'
  BY <1>6 DEF CronInv, JobsApart
<1>f. \A n \in Message : Failing(n) => Failing(n)'
  <2> SUFFICES ASSUME NEW n \in Message, NEW k \in Slots(n), results[n][k].st = "failed"
               PROVE  results'[n][k].st = "failed"
    BY <1>0 DEF Failing, AnyFailed, Slots
  <2> QED
    BY <1>2, <1>3
<1>12. Listening'
  <2> SUFFICES ASSUME killed = 0, NEW n \in Message, ~Failing(n)
               PROVE  /\ \A q \in requests' : q.m = n /\ q.op = "create" => Heard(q)'
                      /\ msg[n].at = "create" /\ msg[n].phase = "queued" => \A j \in jobs' : j.m # n
    BY <1>0, <1>f DEF Listening, Listens
  <2>1. Listens(n)
    BY DEF CronInv, Listening
  <2>2. ASSUME NEW q \in requests', q.m = n, q.op = "create"
        PROVE  Heard(q)'
    <3>1. Heard(q) /\ RequestSound(q)
      BY <1>0, <2>1, <2>2 DEF Listens, CronInv
    <3>2. ~(Heard(r) /\ q.m = r.m)
      BY <1>3, <2>2, <3>1 DEF Heard, Is
    <3>3. results'[q.m][q.k] = results[q.m][q.k]
      BY <1>2, <3>1, <3>2 DEF RequestSound
    <3> QED
      BY <1>0, <3>1, <3>3 DEF Heard, Is
  <2> QED
    BY <1>6, <2>1, <2>2 DEF Listens
<1>13. NoJobForgotten'
  <2> SUFFICES ASSUME killed = 0, NEW j \in jobs', ~Failing(j.m)'
               PROVE  j.id \in {msg[j.m].ids[j.k], results'[j.m][j.k].id}
    BY <1>0 DEF NoJobForgotten
  <2>0. JobSound(j) /\ j \in jobs /\ j.id # NoJob /\ j.m \in Message
    BY <1>6 DEF JobSound
  <2>1. j.id \in {msg[j.m].ids[j.k], results[j.m][j.k].id}
    BY <1>f, <2>0 DEF CronInv, NoJobForgotten
  <2>2. Heard(r) => results[r.m][r.k].id = NoJob
    <3>1. MessageSound(r.m)
      BY <1>4 DEF CronInv
    <3> QED
      BY <1>3, <1>4, <3>1 DEF MessageSound
  <2>3. ~(Heard(r) /\ j.m = r.m /\ j.k = r.k) => results'[j.m][j.k] = results[j.m][j.k]
    BY <1>2, <2>0 DEF JobSound
  <2> QED
    BY <2>0, <2>1, <2>2, <2>3
<1>14. IdentifiersAreItsJobs'
  <2> SUFFICES ASSUME NEW n \in Message, Is(n, "remove", "queued"), try[n] = 0, NEW k \in Slots(n)
               PROVE  [id |-> msg[n].ids[k], m |-> n, k |-> k] \in jobs'
    BY <1>0 DEF IdentifiersAreItsJobs, Is, Slots
  <2>1. [id |-> msg[n].ids[k], m |-> n, k |-> k] \in jobs
    BY DEF CronInv, IdentifiersAreItsJobs, Slots
  <2>2. n # r.m
    BY <1>4
  <2> QED
    BY <1>0, <1>5, <2>1, <2>2
<1>15. RemovedAreGone'
  BY <1>0, <1>6 DEF CronInv, RemovedAreGone
<1> QED
  BY <1>7, <1>8, <1>9, <1>10, <1>11, <1>12, <1>13, <1>14, <1>15 DEF CronInv

LEMMA CronStep ==
  ASSUME CronInv, [CronNext]_cronVars
  PROVE  CronInv'
<1>1. ASSUME NEW m \in Message, HandleMessage(m)
      PROVE  CronInv'
  BY <1>1, CronHandle
<1>2. ASSUME NEW m \in Message, Succeed(m)
      PROVE  CronInv'
  BY <1>2, CronSucceed
<1>3. ASSUME NEW m \in Message, Fail(m) \/ TaskTimeout(m)
      PROVE  CronInv'
  BY <1>3, CronFail
<1>4. ASSUME Dies
      PROVE  CronInv'
  BY <1>4, CronDies
<1>5. ASSUME NEW m \in Message, NEW k \in Slots(m), GiveUp(m, k)
      PROVE  CronInv'
  BY <1>5, CronGiveUp
<1>6. ASSUME NEW r \in requests, Serve(r)
      PROVE  CronInv'
  <2>1. r.op \in {"create", "remove"}
    BY DEF CronInv, RequestSound
  <2> QED
    BY <1>6, <2>1, CronServeCreate, CronServeRemove
<1>7. ASSUME NEW r \in requests, Refuse(r)
      PROVE  CronInv'
  BY <1>7, CronRefuse
<1>8. CASE UNCHANGED cronVars
  <2> USE <1>8 DEF cronVars
  <2>1. CronTyped' /\ JobsApart'
    BY DEF CronInv, CronTyped, JobsApart
  <2>2. \A r \in requests' : RequestSound(r)'
    BY DEF CronInv, RequestSound, Is
  <2>3. \A m \in Message : MessageSound(m)'
    BY DEF CronInv, MessageSound
  <2>4. \A j \in jobs' : JobSound(j)'
    BY DEF CronInv, JobSound
  <2>5. Listening'
    BY DEF CronInv, Listening, Listens, Heard, Is, Failing, AnyFailed
  <2>6. IdentifiersAreItsJobs' /\ RemovedAreGone' /\ NoJobForgotten'
    BY DEF CronInv, IdentifiersAreItsJobs, Is, RemovedAreGone, NoJobForgotten, Failing, AnyFailed
  <2> QED
    BY <2>1, <2>2, <2>3, <2>4, <2>5, <2>6 DEF CronInv
<1> QED
  BY <1>1, <1>2, <1>3, <1>4, <1>5, <1>6, <1>7, <1>8 DEF CronNext, Slots

\* The jobs of the cron service are those the messages carry the identifiers
\* of, however requests are refused, given up, answered late or sent again and
\* tasks are given up (nodes/cron/cron.js, nodes/cron-batch/cron-batch.js): for
\* any messages, any of them batches of any size, and any number of failures and
\* deaths of the process.
THEOREM JobsAreAccountedFor == CronSpec => []JobsAccountedFor
<1>1. CronInit => CronInv
  BY CronInitSound
<1>2. CronInv /\ [CronNext]_cronVars => CronInv'
  BY CronStep
<1>3. CronInv => JobsAccountedFor
  BY DEF CronInv, JobsAccountedFor
<1> QED
  BY <1>1, <1>2, <1>3, PTL DEF CronSpec

-----------------------------------------------------------------------------
(* OutputNodes *)

\* A set of naturals that has 0 and, with a number, its successor, has them all.
LEMMA SetInduction ==
  ASSUME NEW S, 0 \in S, \A n \in Nat : n \in S => n + 1 \in S
  PROVE  Nat \subseteq S
<1> SUFFICES ASSUME Nat \ S # {}
             PROVE  FALSE
  OBVIOUS
<1> DEFINE R == OpToRel(<, Nat)
<1>1. IsWellFoundedOn(R, Nat)
  BY ONLY NatLessThanWellFounded
<1>2. R = {ss \in Nat \X Nat : ss[1] < ss[2]}
  BY ONLY DEF OpToRel, R
<1> HIDE DEF R
<1>3. PICK x \in Nat \ S : \A y \in Nat \ S : ~(<<y, x>> \in R)
  BY <1>1, WFMin
<1>4. x # 0 /\ x - 1 \in Nat /\ x - 1 < x /\ x - 1 + 1 = x
  BY <1>3
<1>5. x - 1 \in S
  BY <1>2, <1>3, <1>4
<1> QED
  BY <1>3, <1>4, <1>5

\* The devices so far, each once: what the loop over the first n leaves.
IsLoop(f, devices, L) ==
  f = [n \in 0..L |->
         IF n = 0 THEN <<>>
         ELSE IF Contains(f[n - 1], devices[n]) THEN f[n - 1]
              ELSE Append(f[n - 1], devices[n])]

LEMMA LoopExists ==
  ASSUME NEW devices, NEW L \in Nat
  PROVE  \E f : IsLoop(f, devices, L)
<1> DEFINE S == {n \in Nat : \E f : IsLoop(f, devices, n)}
<1>1. 0 \in S
  <2>1. IsLoop([n \in 0..0 |-> <<>>], devices, 0)
    BY DEF IsLoop
  <2> QED
    BY <2>1
<1>2. ASSUME NEW n \in Nat, n \in S
      PROVE  n + 1 \in S
  <2>1. PICK f : IsLoop(f, devices, n)
    BY <1>2
  <2> DEFINE last == IF Contains(f[n], devices[n + 1]) THEN f[n] ELSE Append(f[n], devices[n + 1])
             g == [i \in 0..(n + 1) |-> IF i = n + 1 THEN last ELSE f[i]]
  <2>2. g[n] = f[n] /\ g[n + 1] = last /\ \A i \in 0..n : g[i] = f[i]
    OBVIOUS
  <2>3. \A i \in 0..n : f[i] = IF i = 0 THEN <<>>
                               ELSE IF Contains(f[i - 1], devices[i]) THEN f[i - 1]
                                    ELSE Append(f[i - 1], devices[i])
    BY <2>1 DEF IsLoop
  <2>4. \A i \in 0..(n + 1) : g[i] = IF i = 0 THEN <<>>
                               ELSE IF Contains(g[i - 1], devices[i]) THEN g[i - 1]
                                    ELSE Append(g[i - 1], devices[i])
    <3> SUFFICES ASSUME NEW i \in 0..(n + 1)
                 PROVE  g[i] = IF i = 0 THEN <<>>
                               ELSE IF Contains(g[i - 1], devices[i]) THEN g[i - 1]
                                    ELSE Append(g[i - 1], devices[i])
      OBVIOUS
    <3>1. CASE i = n + 1
      <4>1. i # 0 /\ i - 1 = n
        BY <3>1
      <4> QED
        BY <2>2, <3>1, <4>1
    <3>2. CASE i # n + 1
      <4>1. i \in 0..n /\ (i # 0 => i - 1 \in 0..n)
        BY <3>2
      <4> QED
        BY <2>2, <2>3, <4>1
    <3> QED
      BY <3>1, <3>2
  <2>5. g = [i \in 0..(n + 1) |-> g[i]]
    OBVIOUS
  <2> HIDE DEF g
  <2>6. IsLoop(g, devices, n + 1)
    BY <2>4, <2>5 DEF IsLoop
  <2> QED
    BY <2>6
<1> HIDE DEF S
<1>3. L \in S
  BY <1>1, <1>2, SetInduction
<1> QED
  BY <1>3 DEF S

LEMMA DistinctIsLoop ==
  ASSUME NEW devices, Len(devices) \in Nat
  PROVE  \E f : IsLoop(f, devices, Len(devices)) /\ Distinct(devices) = f[Len(devices)]
<1> DEFINE f == CHOOSE g : IsLoop(g, devices, Len(devices))
<1>1. IsLoop(f, devices, Len(devices))
  BY LoopExists
<1>2. Distinct(devices) = f[Len(devices)]
  BY DEF Distinct, IsLoop
<1> QED
  BY <1>1, <1>2

\* What the loop leaves: the devices of the first n, each once.
LEMMA LoopSound ==
  ASSUME NEW D, NEW devices \in Seq(D), NEW f, IsLoop(f, devices, Len(devices))
  PROVE  \A n \in 0..Len(devices) :
           /\ f[n] \in Seq(D)
           /\ \A d : Contains(f[n], d) <=> \E i \in 1..n : devices[i] = d
           /\ \A i, j \in 1..Len(f[n]) : f[n][i] = f[n][j] => i = j
<1> DEFINE L == Len(devices)
           Sound(n) == /\ f[n] \in Seq(D)
                       /\ \A d : Contains(f[n], d) <=> \E i \in 1..n : devices[i] = d
                       /\ \A i, j \in 1..Len(f[n]) : f[n][i] = f[n][j] => i = j
           S == {n \in Nat : n \in 0..L => Sound(n)}
<1>0. L \in Nat
  OBVIOUS
<1>1. f[0] = <<>> /\ \A n \in 0..L : n + 1 \in 0..L =>
        f[n + 1] = IF Contains(f[n], devices[n + 1]) THEN f[n] ELSE Append(f[n], devices[n + 1])
  <2>1. \A n \in 0..L : f[n] = IF n = 0 THEN <<>>
                               ELSE IF Contains(f[n - 1], devices[n]) THEN f[n - 1]
                                    ELSE Append(f[n - 1], devices[n])
    BY DEF IsLoop
  <2>2. f[0] = <<>>
    BY <1>0, <2>1
  <2>3. ASSUME NEW n \in 0..L, n + 1 \in 0..L
        PROVE  f[n + 1] = IF Contains(f[n], devices[n + 1]) THEN f[n] ELSE Append(f[n], devices[n + 1])
    <3>1. n + 1 # 0 /\ n + 1 - 1 = n
      BY <2>3
    <3> QED
      BY <2>1, <2>3, <3>1
  <2> QED
    BY <2>2, <2>3
<1>2. 0 \in S
  <2>1. Sound(0)
    BY <1>1 DEF Contains
  <2> QED
    BY <2>1
<1>3. ASSUME NEW n \in Nat, n \in S
      PROVE  n + 1 \in S
  <2> SUFFICES ASSUME n + 1 \in 0..L
               PROVE  Sound(n + 1)
    OBVIOUS
  <2>1. n \in 0..L /\ devices[n + 1] \in D
    BY <1>0
  <2>2. Sound(n)
    BY <1>3, <2>1
  <2> DEFINE d == devices[n + 1]
             s == f[n]
  <2>3. s \in Seq(D) /\ d \in D
    BY <2>1, <2>2
  <2>4. \A e : (\E i \in 1..(n + 1) : devices[i] = e) <=> (\E i \in 1..n : devices[i] = e) \/ e = d
    <3>1. 1..(n + 1) = 1..n \cup {n + 1}
      BY <2>1
    <3> QED
      BY <3>1
  <2>5. CASE Contains(s, d)
    <3>1. f[n + 1] = s
      BY <1>1, <2>1, <2>5
    <3> QED
      BY <2>2, <2>4, <2>5, <3>1
  <2>6. CASE ~Contains(s, d)
    <3>1. f[n + 1] = Append(s, d)
      BY <1>1, <2>1, <2>6
    <3> HIDE DEF d, s
    <3>2. /\ Append(s, d) \in Seq(D) /\ Len(Append(s, d)) = Len(s) + 1 /\ Len(s) \in Nat
          /\ Append(s, d)[Len(s) + 1] = d /\ \A i \in 1..Len(s) : Append(s, d)[i] = s[i]
      BY <2>3
    <3>3. 1..Len(Append(s, d)) = 1..Len(s) \cup {Len(s) + 1}
      BY <3>2
    <3>4. \A e : Contains(Append(s, d), e) <=> Contains(s, e) \/ e = d
      BY <3>2, <3>3 DEF Contains
    <3>5. \A i, j \in 1..Len(Append(s, d)) : Append(s, d)[i] = Append(s, d)[j] => i = j
      <4>1. \A i \in 1..Len(s) : s[i] # d
        BY <2>6 DEF Contains
      <4>2. \A i, j \in 1..Len(s) : s[i] = s[j] => i = j
        BY <2>2 DEF s
      <4> QED
        BY <3>2, <3>3, <4>1, <4>2
    <3>6. \A e : Contains(s, e) <=> \E i \in 1..n : devices[i] = e
      BY <2>2 DEF s
    <3> QED
      BY <2>4, <3>1, <3>2, <3>4, <3>5, <3>6
  <2> QED
    BY <2>5, <2>6
<1> HIDE DEF S
<1>4. Nat \subseteq S
  BY <1>2, <1>3, SetInduction
<1>5. \A n \in 0..L : n \in S
  BY <1>0, <1>4
<1> QED
  BY <1>5 DEF S

LEMMA DistinctSound ==
  ASSUME NEW D, NEW devices \in Seq(D)
  PROVE  /\ Distinct(devices) \in Seq(D)
         /\ ToSet(Distinct(devices)) = ToSet(devices)
         /\ \A i, j \in 1..Len(Distinct(devices)) :
              Distinct(devices)[i] = Distinct(devices)[j] => i = j
<1>1. Len(devices) \in Nat /\ DOMAIN devices = 1..Len(devices)
  OBVIOUS
<1>2. PICK f : IsLoop(f, devices, Len(devices)) /\ Distinct(devices) = f[Len(devices)]
  BY <1>1, DistinctIsLoop
<1> DEFINE s == Distinct(devices)
<1>3. /\ s \in Seq(D)
      /\ \A d : Contains(s, d) <=> \E i \in 1..Len(devices) : devices[i] = d
      /\ \A i, j \in 1..Len(s) : s[i] = s[j] => i = j
  <2>0. IsLoop(f, devices, Len(devices)) /\ devices \in Seq(D)
    BY <1>2
  <2>1. \A n \in 0..Len(devices) :
          /\ f[n] \in Seq(D)
          /\ \A d : Contains(f[n], d) <=> \E i \in 1..n : devices[i] = d
          /\ \A i, j \in 1..Len(f[n]) : f[n][i] = f[n][j] => i = j
    BY ONLY <2>0, LoopSound
  <2>2. Len(devices) \in 0..Len(devices)
    BY <1>1
  <2> QED
    BY <1>2, <2>1, <2>2
<1> HIDE DEF s
<1>4. DOMAIN s = 1..Len(s)
  BY <1>3
<1>5. ToSet(s) = ToSet(devices)
  <2>1. \A d : (\E i \in 1..Len(s) : s[i] = d) <=> \E i \in 1..Len(devices) : devices[i] = d
    BY <1>3 DEF Contains
  <2>2. ToSet(s) = {s[i] : i \in 1..Len(s)} /\ ToSet(devices) = {devices[i] : i \in 1..Len(devices)}
    BY <1>1, <1>4 DEF ToSet
  <2>3. ASSUME NEW d
        PROVE  d \in ToSet(s) <=> d \in ToSet(devices)
    <3>1. d \in ToSet(s) <=> \E i \in 1..Len(s) : s[i] = d
      BY ONLY <2>2
    <3>2. d \in ToSet(devices) <=> \E i \in 1..Len(devices) : devices[i] = d
      BY ONLY <2>2
    <3> QED
      BY ONLY <2>1, <3>1, <3>2
  <2> QED
    BY ONLY <2>3
<1> QED
  BY <1>3, <1>5 DEF s

\* A sequence of one element at most is empty or its head.
LEMMA AtMostOne ==
  ASSUME NEW S, NEW s \in Seq(S), Len(s) <= 1
  PROVE  s = <<>> \/ s = <<Head(s)>>
<1> SUFFICES ASSUME s # <<>>
             PROVE  s = <<Head(s)>>
  OBVIOUS
<1>1. Len(s) \in Nat /\ Len(s) # 0
  BY LenProperties, EmptySeq
<1>2. Len(s) = 1
  <2> DEFINE n == Len(s)
  <2>1. n \in Nat /\ n # 0 /\ n <= 1
    BY <1>1
  <2> HIDE DEF n
  <2>2. n = 1
    BY ONLY <2>1
  <2> QED
    BY <2>2 DEF n
<1>3. Head(s) = s[1] /\ s[1] \in S
  BY <1>2, ElementOfSeq
<1>4. <<s[1]>> \in Seq(S) /\ Len(<<s[1]>>) = 1 /\ <<s[1]>>[1] = s[1]
  BY <1>3
<1>5. \A i \in 1..Len(s) : s[i] = <<s[1]>>[i]
  BY <1>2, <1>4
<1> QED
  BY <1>2, <1>3, <1>4, <1>5, SeqEqual

\* The records of a well-formed node go to those it names, to each one record.
LEMMA TargetsSound ==
  ASSUME NEW c, WellFormed(c)
  PROVE  /\ Targets(c) \in Seq(Named(c))
         /\ ToSet(Targets(c)) = Named(c)
         /\ \A i, j \in 1..Len(Targets(c)) :
              Targets(c)[i] = Targets(c)[j] => i = j
<1> DEFINE t == Targets(c)
           Sound == /\ t \in Seq(ToSet(t))
                    /\ ToSet(t) = Named(c)
                    /\ \A i, j \in 1..Len(t) : t[i] = t[j] => i = j
<1> SUFFICES Sound
  OBVIOUS
\* Nothing, one record.
<1>1. ASSUME t = <<>>, Named(c) = {}
      PROVE  Sound
  BY <1>1 DEF ToSet
<1>2. ASSUME NEW d, t = <<d>>, Named(c) = {d}
      PROVE  Sound
  <2>1. DOMAIN <<d>> = {1} /\ <<d>>[1] = d /\ Len(<<d>>) = 1
    OBVIOUS
  <2>2. ToSet(t) = {d}
    BY <1>2, <2>1 DEF ToSet
  <2>3. t \in Seq({d})
    BY <1>2
  <2> QED
    BY <1>2, <2>1, <2>2, <2>3
<1>3. CASE c.kind = "notification"
  BY <1>1, <1>2, <1>3 DEF WellFormed, Targets, Named,
       SingleKinds, MultiKinds, NotificationRefused
<1>4. CASE c.kind = "publish-ftp"
  BY <1>1, <1>2, <1>4 DEF Targets, Named,
       SingleKinds, MultiKinds, FtpRefused
<1>5. CASE c.kind \in SingleKinds \cup MultiKinds /\ c.attrs # "there"
  BY <1>1, <1>5 DEF Targets, Named, SingleKinds, MultiKinds
<1>6. ASSUME c.kind \in SingleKinds \cup MultiKinds
      PROVE  /\ c.configured \in Seq(STRING) /\ (c.kind \in SingleKinds => Len(c.configured) <= 1)
             /\ c.dynamic[1] \in {"unset", "absent", "one", "list"}
             /\ c.dynamic[1] \in {"one", "list"} => c.dynamic[2] \in Seq(STRING)
             /\ c.dynamic[1] = "one" => Len(c.dynamic[2]) = 1
  BY <1>6 DEF WellFormed, SingleKinds, MultiKinds
<1>7. \A s \in Seq(STRING) : Len(s) <= 1 => s = <<>> \/ s = <<Head(s)>>
  BY AtMostOne
<1>8. ToSet(<<>>) = {} /\ \A d : ToSet(<<d>>) = {d}
  BY DEF ToSet
<1>9. CASE c.kind \in SingleKinds /\ c.attrs = "there"
  <2>1. t = SingleDevices(c)
    BY <1>9 DEF Targets, SingleKinds, MultiKinds
  <2>2. c.kind \notin {"notification", "publish-ftp"}
    BY <1>9 DEF SingleKinds
  <2>3. CASE c.source = "configured"
    <3>1. c.configured = <<>> \/ c.configured = <<Head(c.configured)>>
      BY <1>6, <1>7, <1>9
    <3>2. Named(c) = ToSet(c.configured)
      BY <1>9, <2>2, <2>3 DEF Named
    <3>3. t = IF c.configured = <<>> THEN <<>> ELSE <<Head(c.configured)>>
      BY <2>1, <2>3 DEF SingleDevices
    <3> QED
      BY <1>1, <1>2, <1>8, <3>1, <3>2, <3>3
  <2>4. CASE c.source = "self"
    <3>1. t = <<c.origin>> /\ Named(c) = {c.origin}
      BY <1>9, <2>1, <2>2, <2>4 DEF SingleDevices, Named
    <3> QED
      BY <1>2, <3>1
  <2>5. CASE c.source = "dynamic" /\ c.dynamic[1] = "one"
    <3>1. t = c.dynamic[2] /\ Named(c) = ToSet(c.dynamic[2])
      BY <1>9, <2>1, <2>2, <2>5 DEF SingleDevices, Named
    <3>2. c.dynamic[2] = <<>> \/ c.dynamic[2] = <<Head(c.dynamic[2])>>
      BY <1>6, <1>7, <1>9, <2>5
    <3> QED
      BY <1>1, <1>2, <1>8, <3>1, <3>2
  <2>6. CASE c.source = "dynamic" /\ c.dynamic[1] = "list"
    <3>1. t = <<c.dynamic[2]>> /\ Named(c) = {c.dynamic[2]}
      BY <1>9, <2>1, <2>2, <2>6 DEF SingleDevices, Named
    <3> QED
      BY <1>2, <3>1
  <2>7. CASE c.source = "dynamic" /\ c.dynamic[1] \in {"unset", "absent"}
    <3>1. t = <<>> /\ Named(c) = {}
      BY <1>9, <2>1, <2>2, <2>7 DEF SingleDevices, Named
    <3> QED
      BY <1>1, <3>1
  <2>8. CASE c.source \notin {"configured", "self", "dynamic"}
    <3>1. t = <<>> /\ Named(c) = {}
      BY <1>9, <2>1, <2>2, <2>8 DEF SingleDevices, Named
    <3> QED
      BY <1>1, <3>1
  <2> QED
    BY <1>6, <1>9, <2>3, <2>4, <2>5, <2>6, <2>7, <2>8
<1>10. CASE c.kind \in MultiKinds /\ c.attrs = "there"
  <2>1. c.kind \notin {"notification", "publish-ftp"} /\ c.kind \notin SingleKinds
    BY <1>10 DEF MultiKinds, SingleKinds
  <2>2. t = Distinct(DeviceIds(c))
    BY <1>10, <2>1 DEF Targets, SingleKinds, MultiKinds
  <2>3. DeviceIds(c) \in Seq(STRING \cup {c.origin})
        /\ Named(c) = ToSet(DeviceIds(c))
    <3>0. \A s \in Seq(STRING) : s \in Seq(STRING \cup {c.origin})
      OBVIOUS
    <3>1. CASE c.source = "configured"
      BY <1>6, <1>10, <2>1, <3>0, <3>1 DEF DeviceIds, Named
    <3>2. CASE c.source = "self"
      <4>1. DeviceIds(c) = <<c.origin>> /\ Named(c) = {c.origin}
        BY <1>10, <2>1, <3>2 DEF DeviceIds, Named
      <4> QED
        BY <1>8, <4>1
    <3>3. CASE c.source = "dynamic" /\ c.dynamic[1] \in {"one", "list"}
      BY <1>6, <1>10, <2>1, <3>0, <3>3 DEF DeviceIds, Named
    <3>4. CASE ~(c.source = "dynamic" /\ c.dynamic[1] \in {"one", "list"}) /\ c.source \notin {"configured", "self"}
      <4>1. DeviceIds(c) = <<>> /\ Named(c) = {}
        BY <1>6, <1>10, <2>1, <3>4 DEF DeviceIds, Named
      <4> QED
        BY <1>8, <4>1
    <3> QED
      BY <3>1, <3>2, <3>3, <3>4
  <2>4. /\ t \in Seq(STRING \cup {c.origin})
        /\ ToSet(t) = Named(c)
        /\ \A i, j \in 1..Len(t) : t[i] = t[j] => i = j
    BY <2>2, <2>3, DistinctSound
  <2> HIDE DEF t
  <2>5. t \in Seq(ToSet(t))
    BY <2>4 DEF ToSet
  <2> QED
    BY <2>4, <2>5
<1> QED
  BY <1>3, <1>4, <1>5, <1>9, <1>10 DEF WellFormed

-----------------------------------------------------------------------------
(* The task and the messenger. *)

Record == [to : Named(node), attempt : Nat]

OutputTyped ==
  /\ node \in Config /\ acked \in BOOLEAN
  /\ attempt \in Nat /\ 1 <= attempt /\ attempt <= crashes + 1
  /\ crashes \in 0..MaxCrashes /\ throws \in 0..MaxThrows
  /\ answer \in {"none", "resolved", "rejected"}
  /\ buffer \in Seq(Record) /\ log \in Seq(Record) /\ lost \in 0..MaxLost

\* No two records are the same: a delivery has one for each it names.
Apart(records) == \A i, j \in 1..Len(records) : records[i] = records[j] => i = j

\* A record is of this delivery or an earlier one, and of an earlier one as long
\* as this one has no answer.
OfDeliveries(records) ==
  \A i \in 1..Len(records) :
    /\ records[i].attempt \in 1..attempt
    /\ answer = "none" => records[i].attempt # attempt

\* What the answer tells, as long as the process lives and no record is dropped.
Told(records) ==
  crashes = 0 =>
    /\ answer = "none" => records = <<>>
    /\ answer = "resolved" =>
         /\ Named(node) # {}
         /\ lost = 0 => \A to \in Named(node) :
              \E i \in 1..Len(records) : records[i] = [to |-> to, attempt |-> attempt]
    /\ answer = "rejected" /\ throws = 0 => records = <<>> /\ Named(node) = {}

OutputInv ==
  /\ OutputTyped
  /\ acked => answer # "none"
  /\ Apart(Records) /\ OfDeliveries(Records) /\ Told(Records)

LEMMA OutputStarts ==
  ASSUME OutputInit
  PROVE  OutputInv
<1>1. Records = <<>> /\ Len(<<>>) = 0
  BY DEF OutputInit, Records
<1>2. OutputTyped
  <2>1. <<>> \in Seq(Record)
    BY EmptySeq
  <2>2. 0 \in 0..MaxCrashes /\ 0 \in 0..MaxThrows /\ 0 \in 0..MaxLost /\ 1 <= 0 + 1
    BY MaxThrowsAssumption, MaxCrashesAssumption, MaxLostAssumption
  <2>3. /\ node \in Config /\ attempt = 1 /\ answer = "none" /\ acked = FALSE
        /\ buffer = <<>> /\ log = <<>> /\ throws = 0 /\ crashes = 0 /\ lost = 0
    BY DEF OutputInit
  <2>4. acked \in BOOLEAN
    BY <2>3
  <2>5. attempt \in Nat /\ 1 <= attempt /\ attempt <= crashes + 1
    BY <2>3
  <2> QED
    BY <2>1, <2>2, <2>3, <2>4, <2>5 DEF OutputTyped
<1> QED
  BY <1>1, <1>2 DEF OutputInit, OutputInv, Apart, OfDeliveries, Told

\* A record that leaves the process is still a record.
LEMMA FlushKeeps ==
  ASSUME NEW S, NEW s \in Seq(S), NEW t \in Seq(S), t # <<>>
  PROVE  /\ Append(s, Head(t)) \in Seq(S) /\ Tail(t) \in Seq(S)
         /\ Append(s, Head(t)) \o Tail(t) = s \o t
<1> DEFINE a == Append(s, Head(t))
           b == Tail(t)
<1>1. Len(s) \in Nat /\ Len(t) \in Nat \ {0}
  BY LenProperties, EmptySeq
<1>2. /\ Head(t) \in S /\ b \in Seq(S) /\ Len(b) = Len(t) - 1
      /\ \A i \in 1..Len(b) : b[i] = t[i + 1]
  BY HeadTailProperties
<1>3. Head(t) = t[1]
  OBVIOUS
<1>4. /\ a \in Seq(S) /\ Len(a) = Len(s) + 1
      /\ \A i \in 1..Len(s) : a[i] = s[i]
      /\ a[Len(s) + 1] = t[1]
  BY <1>2, <1>3, AppendProperties
<1> HIDE DEF a, b
<1>5. /\ a \o b \in Seq(S) /\ Len(a \o b) = Len(a) + Len(b)
      /\ \A i \in 1..Len(a) + Len(b) : (a \o b)[i] = IF i <= Len(a) THEN a[i] ELSE b[i - Len(a)]
  BY <1>2, <1>4, ConcatProperties
<1>6. /\ s \o t \in Seq(S) /\ Len(s \o t) = Len(s) + Len(t)
      /\ \A i \in 1..Len(s) + Len(t) : (s \o t)[i] = IF i <= Len(s) THEN s[i] ELSE t[i - Len(s)]
  BY ConcatProperties
<1>7. Len(a \o b) = Len(s \o t)
  BY <1>1, <1>2, <1>4, <1>5, <1>6
<1>8. ASSUME NEW i \in 1..Len(a \o b)
      PROVE  (a \o b)[i] = (s \o t)[i]
  <2>0. i \in 1..Len(a) + Len(b) /\ i \in 1..Len(s) + Len(t)
    BY <1>5, <1>6, <1>7
  <2>1. CASE i <= Len(s)
    <3>1. i \in 1..Len(s) /\ i <= Len(a)
      BY <1>1, <1>4, <2>0, <2>1
    <3> QED
      BY <1>4, <1>5, <1>6, <2>0, <2>1, <3>1
  <2>2. CASE i = Len(s) + 1
    <3>1. i <= Len(a) /\ ~(i <= Len(s)) /\ i - Len(s) = 1
      BY <1>1, <1>4, <2>2
    <3> QED
      BY <1>4, <1>5, <1>6, <2>0, <2>2, <3>1
  <2>3. CASE i > Len(s) + 1
    <3>1. /\ ~(i <= Len(a)) /\ ~(i <= Len(s))
          /\ i - Len(a) \in 1..Len(b) /\ i - Len(a) + 1 = i - Len(s)
      BY <1>1, <1>2, <1>4, <2>0, <2>3
    <3> QED
      BY <1>2, <1>5, <1>6, <2>0, <3>1
  <2> QED
    BY <1>1, <2>0, <2>1, <2>2, <2>3
<1>9. a \o b = s \o t
  BY <1>5, <1>6, <1>7, <1>8, SeqEqual
<1> QED
  BY <1>2, <1>4, <1>9 DEF a, b

\* The records of a delivery come after those there are.
LEMMA ConcatFacts ==
  ASSUME NEW S, NEW s \in Seq(S), NEW t \in Seq(S)
  PROVE  /\ s \o t \in Seq(S) /\ Len(s) \in Nat /\ Len(t) \in Nat
         /\ \A i \in 1..Len(s) : i \in 1..Len(s \o t) /\ (s \o t)[i] = s[i]
         /\ \A i \in 1..Len(t) : Len(s) + i \in 1..Len(s \o t) /\ (s \o t)[Len(s) + i] = t[i]
         /\ \A k \in 1..Len(s \o t) :
              \/ k \in 1..Len(s)
              \/ \E i \in 1..Len(t) : k = Len(s) + i
<1>1. Len(s) \in Nat /\ Len(t) \in Nat
  BY LenProperties
<1>2. /\ s \o t \in Seq(S) /\ Len(s \o t) = Len(s) + Len(t)
      /\ \A i \in 1..Len(s) + Len(t) : (s \o t)[i] = IF i <= Len(s) THEN s[i] ELSE t[i - Len(s)]
  BY ConcatProperties
<1>3. ASSUME NEW i \in 1..Len(s)
      PROVE  i \in 1..Len(s \o t) /\ (s \o t)[i] = s[i]
  BY <1>1, <1>2
<1>4. ASSUME NEW i \in 1..Len(t)
      PROVE  Len(s) + i \in 1..Len(s \o t) /\ (s \o t)[Len(s) + i] = t[i]
  <2>1. Len(s) + i \in 1..Len(s) + Len(t) /\ ~(Len(s) + i <= Len(s)) /\ Len(s) + i - Len(s) = i
    BY <1>1
  <2> QED
    BY <1>2, <2>1
<1>5. ASSUME NEW k \in 1..Len(s \o t), k \notin 1..Len(s)
      PROVE  \E i \in 1..Len(t) : k = Len(s) + i
  <2>1. k - Len(s) \in 1..Len(t) /\ k = Len(s) + (k - Len(s))
    BY <1>1, <1>2, <1>5
  <2> QED
    BY <2>1
<1> QED
  BY <1>1, <1>2, <1>3, <1>4, <1>5

LEMMA OutputHandle ==
  ASSUME OutputInv, HandleOutput
  PROVE  OutputInv'
<1> DEFINE targets == Targets(node)
           R == Records
<1>0. /\ OutputTyped /\ answer = "none" /\ ~acked
      /\ UNCHANGED <<node, attempt, acked, log, lost, crashes>>
  BY DEF OutputInv, HandleOutput
<1>1. /\ targets \in Seq(Named(node)) /\ ToSet(targets) = Named(node)
      /\ \A i, j \in 1..Len(targets) : targets[i] = targets[j] => i = j
  BY <1>0, ConfigAssumption, TargetsSound DEF OutputTyped
<1>2. PICK n \in 0..Len(targets) :
        /\ buffer' = buffer \o Published(targets, n)
        /\ answer' = AnswerOf(targets, n)
        /\ n = Len(targets) => throws' = throws
        /\ n # Len(targets) => throws < MaxThrows /\ throws' = throws + 1
  BY DEF HandleOutput
<1> DEFINE P == Published(targets, n)
<1>3. Len(targets) \in Nat /\ DOMAIN targets = 1..Len(targets) /\ n \in Nat
  BY <1>1, <1>2
<1>4. /\ P \in Seq(Record) /\ Len(P) = n
      /\ \A i \in 1..n : i \in 1..Len(targets) /\ P[i] = [to |-> targets[i], attempt |-> attempt]
  <2>0. \A i \in 1..n : i \in 1..Len(targets)
    BY <1>3
  <2>1. \A i \in 1..n : i \in 1..Len(targets) /\ targets[i] \in Named(node)
    BY <1>1, <2>0, ElementOfSeq
  <2>2. P = [i \in 1..n |-> [to |-> targets[i], attempt |-> attempt]]
    BY DEF Published
  <2>3. \A i \in 1..n : [to |-> targets[i], attempt |-> attempt] \in Record
    BY <1>0, <2>1 DEF Record, OutputTyped
  <2>4. P \in [1..n -> Record]
    BY <2>2, <2>3
  <2> HIDE DEF P
  <2> QED
    BY <1>3, <2>1, <2>2, <2>4
<1> HIDE DEF P, targets
<1>5. R \in Seq(Record) /\ R' = R \o P
  <2>1. log \in Seq(Record) /\ buffer \in Seq(Record)
    BY <1>0 DEF OutputTyped
  <2>2. R' = log \o (buffer \o P)
    BY <1>0, <1>2 DEF Records, P
  <2> QED
    <3>1. R = log \o buffer /\ R \in Seq(Record)
      BY <2>1, ConcatProperties DEF Records
    <3>2. log \o (buffer \o P) = (log \o buffer) \o P
      BY <1>4, <2>1, ConcatAssociative
    <3> QED
      BY <2>2, <3>1, <3>2
<1> HIDE DEF R
<1>6. /\ R' \in Seq(Record) /\ Len(R) \in Nat /\ Len(P) \in Nat
      /\ \A i \in 1..Len(R) : i \in 1..Len(R') /\ R'[i] = R[i]
      /\ \A i \in 1..Len(P) : Len(R) + i \in 1..Len(R') /\ R'[Len(R) + i] = P[i]
      /\ \A k \in 1..Len(R') : k \in 1..Len(R) \/ \E i \in 1..Len(P) : k = Len(R) + i
  <2>1. P \in Seq(Record) /\ R \in Seq(Record)
    BY <1>4, <1>5
  <2>2. /\ R \o P \in Seq(Record) /\ Len(R) \in Nat /\ Len(P) \in Nat
        /\ \A i \in 1..Len(R) : i \in 1..Len(R \o P) /\ (R \o P)[i] = R[i]
        /\ \A i \in 1..Len(P) : Len(R) + i \in 1..Len(R \o P) /\ (R \o P)[Len(R) + i] = P[i]
        /\ \A k \in 1..Len(R \o P) :
             \/ k \in 1..Len(R)
             \/ \E i \in 1..Len(P) : k = Len(R) + i
    BY ONLY <2>1, ConcatFacts
  <2> QED
    BY <1>5, <2>2
<1>7. Apart(R) /\ OfDeliveries(R) /\ Told(R)
  BY DEF OutputInv, R
<1>8. answer' \in {"resolved", "rejected"} /\ attempt \in 1..attempt
  BY <1>0, <1>2 DEF AnswerOf, OutputTyped
<1>9. OutputTyped'
  <2>1. buffer' \in Seq(Record)
    BY <1>0, <1>2, <1>4, ConcatProperties DEF OutputTyped, P
  <2>2. throws' \in 0..MaxThrows
    BY <1>0, <1>2, MaxThrowsAssumption DEF OutputTyped
  <2>3. Record' = Record
    BY <1>0 DEF Record
  <2> QED
    BY <1>0, <1>8, <2>1, <2>2, <2>3 DEF OutputTyped
<1>10. OfDeliveries(R)'
  <2>1. ASSUME NEW k \in 1..Len(R')
        PROVE  R'[k].attempt \in 1..attempt
    <3>1. CASE k \in 1..Len(R)
      BY <1>6, <1>7, <3>1 DEF OfDeliveries
    <3>2. ASSUME NEW i \in 1..Len(P), k = Len(R) + i
          PROVE  R'[k].attempt \in 1..attempt
      <4>1. R'[k] = P[i] /\ i \in 1..n
        BY <1>4, <1>6, <3>2
      <4>2. P[i].attempt = attempt
        BY <1>4, <4>1
      <4> QED
        BY <1>8, <4>1, <4>2
    <3> QED
      BY <1>6, <3>1, <3>2
  <2> QED
    BY <1>0, <1>8, <2>1 DEF OfDeliveries
<1>11. Apart(R)'
  <2>1. \A i \in 1..Len(P) : P[i].attempt = attempt /\ P[i].to = targets[i]
    BY <1>4
  <2>2. \A i, j \in 1..Len(P) : P[i] = P[j] => i = j
    BY <1>1, <1>4, <2>1
  <2>3. \A i \in 1..Len(R), j \in 1..Len(P) : R[i] # P[j]
    BY <1>0, <1>7, <2>1 DEF OfDeliveries
  <2> SUFFICES ASSUME NEW k \in 1..Len(R'), NEW l \in 1..Len(R'), R'[k] = R'[l]
               PROVE  k = l
    BY DEF Apart
  <2>4. CASE k \in 1..Len(R) /\ l \in 1..Len(R)
    BY <1>6, <1>7, <2>4 DEF Apart
  <2>5. ASSUME NEW i \in 1..Len(P), k = Len(R) + i, l \in 1..Len(R)
        PROVE  FALSE
    BY <1>6, <2>3, <2>5
  <2>6. ASSUME NEW j \in 1..Len(P), l = Len(R) + j, k \in 1..Len(R)
        PROVE  FALSE
    BY <1>6, <2>3, <2>6
  <2>7. ASSUME NEW i \in 1..Len(P), k = Len(R) + i, NEW j \in 1..Len(P), l = Len(R) + j
        PROVE  k = l
    BY <1>6, <2>2, <2>7
  <2> QED
    BY <1>6, <2>4, <2>5, <2>6, <2>7
<1>12. Told(R)'
  <2> SUFFICES ASSUME crashes = 0
               PROVE  /\ answer' = "resolved" =>
                           /\ Named(node) # {}
                           /\ \A to \in Named(node) :
                                \E k \in 1..Len(R') : R'[k] = [to |-> to, attempt |-> attempt]
                      /\ answer' = "rejected" /\ throws' = 0 => R' = <<>> /\ Named(node) = {}
    <3>1. Named(node)' = Named(node)
      BY <1>0
    <3> QED
      BY <1>0, <1>8, <3>1 DEF Told
  <2>0. R = <<>>
    BY <1>0, <1>7 DEF Told
  <2>1. Named(node) = {targets[i] : i \in 1..Len(targets)}
    BY <1>1, <1>3 DEF ToSet
  <2>2. ASSUME answer' = "resolved"
        PROVE  /\ Named(node) # {}
               /\ \A to \in Named(node) :
                    \E k \in 1..Len(R') : R'[k] = [to |-> to, attempt |-> attempt]
    <3>1. n = Len(targets) /\ targets # <<>>
      BY <1>2, <2>2 DEF AnswerOf, targets
    <3>2. Len(targets) # 0
      BY <1>1, <3>1, EmptySeq
    <3>3. 1 \in 1..Len(targets)
      BY <1>3, <3>2
    <3>4. ASSUME NEW i \in 1..Len(targets)
          PROVE  \E k \in 1..Len(R') : R'[k] = [to |-> targets[i], attempt |-> attempt]
      <4>1. i \in 1..Len(P) /\ P[i] = [to |-> targets[i], attempt |-> attempt]
        BY <1>4, <3>1
      <4> QED
        BY <1>6, <4>1
    <3> QED
      BY <2>1, <3>3, <3>4
  <2>3. ASSUME answer' = "rejected", throws' = 0
        PROVE  R' = <<>> /\ Named(node) = {}
    <3>1. n = Len(targets)
      BY <1>0, <1>2, <2>3 DEF OutputTyped
    <3>2. targets = <<>>
      BY <1>2, <2>3, <3>1 DEF AnswerOf, targets
    <3>3. Len(targets) = 0 /\ Len(P) = 0
      BY <1>4, <3>1, <3>2
    <3>4. P = <<>>
      BY <1>4, <3>3, EmptySeq
    <3>5. R' = <<>>
      BY <1>5, <2>0, <3>4
    <3> QED
      BY <2>1, <3>3, <3>5
  <2> QED
    BY <2>2, <2>3
<1>13. (acked => answer # "none")'
  BY <1>8
<1> QED
  BY <1>9, <1>10, <1>11, <1>12, <1>13 DEF OutputInv, R

LEMMA OutputCrash ==
  ASSUME OutputInv, Crash
  PROVE  OutputInv'
<1>0. /\ OutputTyped /\ crashes < MaxCrashes /\ crashes' = crashes + 1 /\ buffer' = <<>>
      /\ UNCHANGED <<node, acked, log, lost, throws>>
      /\ acked => UNCHANGED <<attempt, answer>>
      /\ ~acked => attempt' = attempt + 1 /\ answer' = "none"
      /\ acked => answer # "none"
  BY DEF OutputInv, Crash
<1>1. log \in Seq(Record) /\ buffer \in Seq(Record)
  BY <1>0 DEF OutputTyped
<1>2. Records' = log
  BY <1>0, <1>1, ConcatEmptySeq DEF Records
<1>3. \A i \in 1..Len(log) : i \in 1..Len(Records) /\ Records[i] = log[i]
  BY <1>1, ConcatFacts DEF Records
<1>4. OutputTyped'
  <2>1. Record' = Record
    BY <1>0 DEF Record
  <2>2. crashes' \in 0..MaxCrashes /\ attempt' \in Nat /\ 1 <= attempt' /\ attempt' <= crashes' + 1
    BY <1>0, MaxCrashesAssumption DEF OutputTyped
  <2>3. answer' \in {"none", "resolved", "rejected"}
    BY <1>0 DEF OutputTyped
  <2> QED
    BY <1>0, <2>1, <2>2, <2>3 DEF OutputTyped
<1>5. Apart(log)
  BY <1>3 DEF OutputInv, Apart
<1>6. ASSUME NEW i \in 1..Len(log)
      PROVE  log[i].attempt \in 1..attempt' /\ (answer' = "none" => log[i].attempt # attempt')
  <2>1. log[i].attempt \in 1..attempt /\ attempt \in Nat
    BY <1>0, <1>3 DEF OutputInv, OfDeliveries, OutputTyped
  <2> QED
    BY <1>0, <2>1
<1>7. crashes' # 0
  BY <1>0 DEF OutputTyped
<1>8. Apart(Records)' /\ OfDeliveries(Records)' /\ Told(Records)'
  BY <1>2, <1>5, <1>6, <1>7 DEF Apart, OfDeliveries, Told
<1> QED
  BY <1>0, <1>4, <1>8 DEF OutputInv

\* Where a record stands among those there were before one was dropped.
Before(i, n) == IF i <= n THEN i ELSE i + 1

LEMMA DropKeeps ==
  ASSUME NEW S, NEW s \in Seq(S), NEW t \in Seq(S), t # <<>>
  PROVE  /\ Tail(t) \in Seq(S) /\ s \o Tail(t) \in Seq(S) /\ s \o t # <<>>
         /\ \A i \in 1..Len(s \o Tail(t)) :
              /\ Before(i, Len(s)) \in 1..Len(s \o t)
              /\ (s \o Tail(t))[i] = (s \o t)[Before(i, Len(s))]
         /\ \A i, j \in 1..Len(s \o Tail(t)) : Before(i, Len(s)) = Before(j, Len(s)) => i = j
<1> DEFINE b == Tail(t)
<1>1. Len(s) \in Nat /\ Len(t) \in Nat \ {0}
  BY LenProperties, EmptySeq
<1>2. /\ b \in Seq(S) /\ Len(b) = Len(t) - 1
      /\ \A i \in 1..Len(b) : b[i] = t[i + 1]
  BY HeadTailProperties
<1> HIDE DEF b
<1>3. /\ s \o b \in Seq(S) /\ Len(s \o b) = Len(s) + Len(b)
      /\ \A i \in 1..Len(s) + Len(b) : (s \o b)[i] = IF i <= Len(s) THEN s[i] ELSE b[i - Len(s)]
  BY <1>2, ConcatProperties
<1>4. /\ s \o t \in Seq(S) /\ Len(s \o t) = Len(s) + Len(t)
      /\ \A i \in 1..Len(s) + Len(t) : (s \o t)[i] = IF i <= Len(s) THEN s[i] ELSE t[i - Len(s)]
  BY ConcatProperties
<1>5. s \o t # <<>>
  <2>1. Len(s \o t) # 0
    BY <1>1, <1>4
  <2> QED
    BY <2>1, EmptySeq
<1>6. ASSUME NEW i \in 1..Len(s \o b)
      PROVE  Before(i, Len(s)) \in 1..Len(s \o t) /\ (s \o b)[i] = (s \o t)[Before(i, Len(s))]
  <2>1. i \in 1..Len(s) + Len(b) /\ i \in Nat
    BY <1>1, <1>2, <1>3
  <2>2. CASE i <= Len(s)
    <3>1. Before(i, Len(s)) = i /\ i \in 1..Len(s) + Len(t)
      BY <1>1, <1>2, <2>1, <2>2 DEF Before
    <3> QED
      BY <1>3, <1>4, <2>1, <2>2, <3>1
  <2>3. CASE ~(i <= Len(s))
    <3>1. Before(i, Len(s)) = i + 1
      BY <2>3 DEF Before
    <3>2. /\ i + 1 \in 1..Len(s) + Len(t) /\ ~(i + 1 <= Len(s))
          /\ i - Len(s) \in 1..Len(b) /\ i + 1 - Len(s) = i - Len(s) + 1
      BY <1>1, <1>2, <2>1, <2>3
    <3>3. (s \o b)[i] = t[i - Len(s) + 1]
      BY <1>2, <1>3, <2>1, <2>3, <3>2
    <3> QED
      BY <1>4, <3>1, <3>2, <3>3
  <2> QED
    BY <2>2, <2>3
<1>7. ASSUME NEW i \in 1..Len(s \o b), NEW j \in 1..Len(s \o b), Before(i, Len(s)) = Before(j, Len(s))
      PROVE  i = j
  <2>1. i \in Nat /\ j \in Nat
    BY <1>1, <1>2, <1>3
  <2> QED
    BY <1>1, <1>7, <2>1 DEF Before
<1> QED
  BY <1>2, <1>3, <1>5, <1>6, <1>7 DEF b

LEMMA OutputLose ==
  ASSUME OutputInv, Lose
  PROVE  OutputInv'
<1>0. /\ OutputTyped /\ buffer # <<>> /\ lost < MaxLost /\ buffer' = Tail(buffer) /\ lost' = lost + 1
      /\ UNCHANGED <<node, attempt, answer, acked, log, throws, crashes>>
      /\ Apart(Records) /\ OfDeliveries(Records) /\ Told(Records) /\ (acked => answer # "none")
  BY DEF OutputInv, Lose
<1> DEFINE R == Records
           N == Len(log)
<1>1. log \in Seq(Record) /\ buffer \in Seq(Record) /\ R = log \o buffer /\ R' = log \o Tail(buffer)
  BY <1>0 DEF OutputTyped, Records
<1>2. /\ Tail(buffer) \in Seq(Record) /\ R # <<>>
      /\ \A i \in 1..Len(R') : Before(i, N) \in 1..Len(R) /\ R'[i] = R[Before(i, N)]
      /\ \A i, j \in 1..Len(R') : Before(i, N) = Before(j, N) => i = j
  <2>1. /\ Tail(buffer) \in Seq(Record) /\ log \o buffer # <<>>
        /\ \A i \in 1..Len(log \o Tail(buffer)) :
             /\ Before(i, Len(log)) \in 1..Len(log \o buffer)
             /\ (log \o Tail(buffer))[i] = (log \o buffer)[Before(i, Len(log))]
        /\ \A i, j \in 1..Len(log \o Tail(buffer)) : Before(i, Len(log)) = Before(j, Len(log)) => i = j
    <3>1. buffer # <<>>
      BY <1>0
    <3> QED
      BY ONLY <1>1, <3>1, DropKeeps
  <2> HIDE DEF R
  <2> QED
    BY <1>1, <2>1
<1> HIDE DEF R
<1>3. OutputTyped'
  <2>1. Record' = Record
    BY <1>0 DEF Record
  <2>2. lost' \in 0..MaxLost
    BY <1>0, MaxLostAssumption DEF OutputTyped
  <2> QED
    BY <1>0, <1>2, <2>1, <2>2 DEF OutputTyped
<1>4. Apart(R) /\ OfDeliveries(R) /\ Told(R)
  BY <1>0 DEF R
<1>5. Apart(R)'
  BY <1>2, <1>4 DEF Apart
<1>6. OfDeliveries(R)'
  BY <1>0, <1>2, <1>4 DEF OfDeliveries
<1>7. Told(R)'
  <2>1. lost' # 0
    BY <1>0 DEF OutputTyped
  <2>2. Named(node)' = Named(node)
    BY <1>0
  <2> QED
    BY <1>0, <1>2, <1>4, <2>1, <2>2 DEF Told
<1> QED
  BY <1>0, <1>3, <1>5, <1>6, <1>7 DEF OutputInv, R

LEMMA OutputStep ==
  ASSUME OutputInv, [OutputNext]_outputVars
  PROVE  OutputInv'
\* A step that keeps the records and what they are judged by.
<1>1. ASSUME UNCHANGED <<node, attempt, answer, throws, crashes, lost>>, Records' = Records,
             OutputTyped', acked' => answer # "none"
      PROVE  OutputInv'
  <2>1. Apart(Records)' /\ OfDeliveries(Records)'
    BY <1>1 DEF OutputInv, Apart, OfDeliveries
  <2>2. Told(Records)'
    BY <1>1 DEF OutputInv, Told
  <2> QED
    BY <1>1, <2>1, <2>2 DEF OutputInv
<1>2. OutputTyped /\ (acked => answer # "none") /\ (UNCHANGED node => Record' = Record)
  BY DEF OutputInv, Record
<1>3. CASE HandleOutput
  BY <1>3, OutputHandle
<1>4. CASE Ack
  <2>1. Records' = Records /\ OutputTyped'
    BY <1>2, <1>4 DEF Ack, Records, OutputTyped
  <2> QED
    BY <1>1, <1>4, <2>1 DEF Ack
<1>5. CASE Flush
  <2>1. log \in Seq(Record) /\ buffer \in Seq(Record) /\ buffer # <<>>
        /\ log' = Append(log, Head(buffer)) /\ buffer' = Tail(buffer)
        /\ UNCHANGED <<node, attempt, answer, acked, throws, crashes, lost>>
    BY <1>2, <1>5 DEF OutputTyped, Flush
  <2>2. log' \in Seq(Record) /\ buffer' \in Seq(Record) /\ log' \o buffer' = log \o buffer
    BY <2>1, FlushKeeps
  <2>3. Records' = Records
    BY <2>2 DEF Records
  <2>4. OutputTyped'
    BY <1>2, <2>1, <2>2 DEF OutputTyped
  <2> QED
    BY <1>1, <1>2, <2>1, <2>3, <2>4
<1>6. CASE Crash
  BY <1>6, OutputCrash
<1>8. CASE Lose
  BY <1>8, OutputLose
<1>7. CASE UNCHANGED outputVars
  <2>1. UNCHANGED <<node, attempt, answer, acked, buffer, log, throws, crashes, lost>>
    BY <1>7 DEF outputVars
  <2>2. Records' = Records /\ OutputTyped'
    BY <1>2, <2>1 DEF Records, OutputTyped
  <2> QED
    BY <1>1, <1>2, <2>1, <2>2
<1> QED
  BY <1>3, <1>4, <1>5, <1>6, <1>7, <1>8 DEF OutputNext

LEMMA OutputSafe ==
  ASSUME OutputInv
  PROVE  RecordsAccountedFor
<1> DEFINE R == Records
<1>0. OutputTyped /\ Apart(R) /\ OfDeliveries(R) /\ Told(R)
  BY DEF OutputInv
<1>1. R \in Seq(Record) /\ DOMAIN R = 1..Len(R)
  <2>1. R \in Seq(Record)
    BY <1>0, ConcatProperties DEF OutputTyped, Records
  <2> QED
    BY <2>1, LenProperties
<1> HIDE DEF R
<1>2. \A i \in 1..Len(R) : R[i] \in Record /\ R[i] = [to |-> R[i].to, attempt |-> R[i].attempt]
                             /\ R[i].to \in Named(node)
  <2>1. \A i \in 1..Len(R) : R[i] \in Record
    BY <1>1, ElementOfSeq
  <2> QED
    BY <2>1 DEF Record
\* One record is one copy.
<1>3. ASSUME NEW i \in 1..Len(R)
      PROVE  Copies(R[i].to, R[i].attempt) = 1
  <2>1. ASSUME NEW k \in 1..Len(R), R[k].to = R[i].to, R[k].attempt = R[i].attempt
        PROVE  k = i
    <3>1. R[k] = R[i]
      BY <1>2, <2>1
    <3> QED
      BY <1>0, <3>1 DEF Apart
  <2>2. {k \in DOMAIN R : R[k].to = R[i].to /\ R[k].attempt = R[i].attempt} = {i}
    BY <1>1, <2>1
  <2>3. Copies(R[i].to, R[i].attempt)
          = Cardinality({k \in DOMAIN R : R[k].to = R[i].to /\ R[k].attempt = R[i].attempt})
    BY DEF Copies, R
  <2> QED
    BY <2>2, <2>3, FS_Singleton
<1>4. OncePerDelivery
  BY <1>1, <1>2, <1>3 DEF OncePerDelivery, R
<1>5. TypeOK
  <2>1. attempt \in 1..(MaxCrashes + 1)
    BY <1>0, MaxCrashesAssumption DEF OutputTyped
  <2>2. \A i \in DOMAIN R : R[i].attempt \in 1..attempt
    BY <1>0, <1>1 DEF OfDeliveries
  <2> QED
    BY <1>0, <2>1, <2>2 DEF TypeOK, OutputTyped, R
<1>6. AnswerTellsRecords
  <2> SUFFICES ASSUME crashes = 0
               PROVE  /\ answer = "resolved" =>
                           /\ Named(node) # {}
                           /\ lost = 0 => \A to \in Named(node) : Copies(to, attempt) = 1
                      /\ answer = "rejected" /\ throws = 0 =>
                           Records = <<>> /\ Named(node) = {}
    BY DEF AnswerTellsRecords
  <2>1. ASSUME answer = "resolved", lost = 0, NEW to \in Named(node)
        PROVE  Copies(to, attempt) = 1
    <3>1. PICK i \in 1..Len(R) : R[i] = [to |-> to, attempt |-> attempt]
      BY <1>0, <2>1 DEF Told
    <3>2. R[i].to = to /\ R[i].attempt = attempt
      BY <3>1
    <3> QED
      BY <1>3, <3>2
  <2> QED
    BY <1>0, <2>1 DEF Told, R
<1> QED
  BY <1>4, <1>5, <1>6 DEF RecordsAccountedFor

\* One delivery of a task publishes at most one record for a device, for
\* nobody who is not named, and the executor is told what was published
\* (nodes/multi-device-out, multi-actuate, device-out, actuate, notification,
\* publish-ftp): for any nodes and messages of the forms the editor stores and
\* _get finds, and any number of failures, records dropped and crashes.
THEOREM RecordsAreAccountedFor == OutputSpec => []RecordsAccountedFor
<1>1. OutputInit => OutputInv
  BY OutputStarts
<1>2. OutputInv /\ [OutputNext]_outputVars => OutputInv'
  BY OutputStep
<1>3. OutputInv => RecordsAccountedFor
  BY OutputSafe
<1> QED
  BY <1>1, <1>2, <1>3, PTL DEF OutputSpec

-----------------------------------------------------------------------------
(* SwitchNode *)

\* The states of the loop.
Loop(st, c, m) ==
  /\ st[0] = Switch!Start
  /\ \A k \in 1..Len(c.rules) :
       st[k] = Switch!TryRule(c, Switch!Get(c.property, m), m, st[k - 1], c.rules[k])
  /\ Switch!Tried(c, m) = st[Len(c.rules)]

LEMMA LoopRuns ==
  ASSUME NEW c, NEW m, Len(c.rules) \in Nat
  PROVE  \E st : Loop(st, c, m)
<1> DEFINE L == Len(c.rules)
           prop == Switch!Get(c.property, m)
           Try(s, k) == Switch!TryRule(c, prop, m, s, c.rules[k])
           IsRun(n, f) ==
             f = [k \in 0..n |-> IF k = 0 THEN Switch!Start ELSE Try(f[k - 1], k)]
           st == CHOOSE f : IsRun(L, f)
           T == {n \in Nat : \E f : IsRun(n, f)}
<1>1. Switch!Tried(c, m) = st[L]
  BY DEF Switch!Tried
<1> HIDE DEF prop, Try, L
<1>2. 0 \in T
  <2> DEFINE f == [k \in 0..0 |-> Switch!Start]
  <2>1. f = [k \in 0..0 |-> IF k = 0 THEN Switch!Start ELSE Try(f[k - 1], k)]
    OBVIOUS
  <2> QED
    BY <2>1
<1>3. ASSUME NEW n \in Nat, n \in T
      PROVE  n + 1 \in T
  <2>1. PICK f : IsRun(n, f)
    BY <1>3
  <2>2. \A k \in 0..n : f[k] = IF k = 0 THEN Switch!Start ELSE Try(f[k - 1], k)
    BY <2>1
  <2> HIDE DEF IsRun
  <2> DEFINE g == [k \in 0..(n + 1) |-> IF k = n + 1 THEN Try(f[n], n + 1) ELSE f[k]]
  <2>3. ASSUME NEW k \in 0..(n + 1)
        PROVE  g[k] = IF k = 0 THEN Switch!Start ELSE Try(g[k - 1], k)
    <3>1. CASE k = n + 1
      <4>1. k # 0 /\ k - 1 = n /\ n \in 0..(n + 1) /\ n # n + 1
        BY <3>1
      <4> QED
        BY <3>1, <4>1
    <3>2. CASE k # n + 1 /\ k # 0
      <4>1. k \in 0..n /\ k - 1 \in 0..(n + 1) /\ k - 1 # n + 1
        BY <3>2
      <4> QED
        BY <2>2, <3>2, <4>1
    <3>3. CASE k = 0
      <4>1. 0 \in 0..n /\ 0 # n + 1
        OBVIOUS
      <4> QED
        BY <2>2, <3>3, <4>1
    <3> QED
      BY <3>1, <3>2, <3>3
  <2>4. g = [k \in 0..(n + 1) |-> g[k]]
    OBVIOUS
  <2> HIDE DEF g
  <2>5. g = [k \in 0..(n + 1) |-> IF k = 0 THEN Switch!Start ELSE Try(g[k - 1], k)]
    BY <2>3, <2>4
  <2> QED
    BY <2>5 DEF IsRun
<1>4. L \in T
  <2> HIDE DEF T
  <2>1. L \in Nat
    BY DEF L
  <2> QED
    BY <1>2, <1>3, <2>1, SetInduction
<1>5. IsRun(L, st)
  BY <1>4
<1> HIDE DEF st
<1>6. \A k \in 0..L : st[k] = IF k = 0 THEN Switch!Start ELSE Try(st[k - 1], k)
  BY <1>5
<1>7. L \in Nat
  BY DEF L
<1>8. st[0] = Switch!Start /\ \A k \in 1..L : st[k] = Try(st[k - 1], k)
  BY <1>6, <1>7
<1> QED
  BY <1>1, <1>8 DEF Loop, L, Try, prop

\* An output so far has the message.
Sent(s) == \E i \in 1..Len(s.onward) : s.onward[i]

OneElse == \A i, j \in Switch!Elses : i = j

\* What the loop has found after k rules.
Found(s, k, V) ==
  /\ s.onward \in Seq(V) /\ s.flag \in BOOLEAN /\ s.done \in BOOLEAN
  /\ Len(s.onward) <= k /\ (~s.done => Len(s.onward) = k)
  /\ s.done => config.checkall = "false" /\ Sent(s)
  /\ config.checkall = "false" =>
       /\ ~s.done => ~Sent(s)
       /\ \A i, j \in 1..Len(s.onward) : s.onward[i] /\ s.onward[j] => i = j
  /\ ~s.flag => Sent(s)
  /\ k \in Switch!Elses => Sent(s)

\* The flag is set as long as no rule has matched, until the otherwise rule.
FlagSays(s, k) ==
  ~s.done /\ (\A j \in 1..k : j \notin Switch!Elses) =>
    (s.flag <=> \A j \in 1..k : ~Switch!Matches(j))

FollowsRules(s) == \A i \in 1..Len(s.onward) : s.onward[i] <=> Switch!Applies(i)

\* The test of rule k + 1.
Test(s, k) ==
  LET rule == config.rules[k + 1]
  IN  Switch!Passes(rule, IF rule.t = "else" THEN Switch!Bool(s.flag) ELSE Switch!Prop, message)

LEMMA TestIs ==
  ASSUME NEW s, s.flag \in BOOLEAN, NEW k \in 0..(Len(config.rules) - 1),
         Len(config.rules) \in Nat, DOMAIN config.rules = 1..Len(config.rules)
  PROVE  IF k + 1 \in Switch!Elses THEN Test(s, k) <=> s.flag ELSE Test(s, k) = Switch!Matches(k + 1)
<1> DEFINE rule == config.rules[k + 1]
<1>1. k + 1 \in Switch!Elses <=> rule.t = "else"
  BY DEF Switch!Elses, Switch!RuleAt
<1>2. CASE rule.t = "else"
  <2>1. Test(s, k) = Switch!Passes(rule, Switch!Bool(s.flag), message)
    BY <1>2 DEF Test
  <2>2. Test(s, k) <=> Switch!Bool(s.flag) = Switch!Bool(TRUE)
    BY <1>2, <2>1 DEF Switch!Passes, Switch!Holds
  <2>3. Switch!Bool(s.flag) = Switch!Bool(TRUE) <=> s.flag
    BY DEF Switch!Bool
  <2> QED
    BY <1>1, <1>2, <2>2, <2>3
<1>3. CASE rule.t # "else"
  <2>1. Test(s, k) = Switch!Passes(rule, Switch!Prop, message)
    BY <1>3 DEF Test
  <2> QED
    BY <1>1, <1>3, <2>1 DEF Switch!Matches, Switch!RuleAt
<1> QED
  BY <1>2, <1>3

LEMMA FoundNext ==
  ASSUME NEW V, NEW k \in 0..(Len(config.rules) - 1), NEW s, NEW r, Found(s, k, V),
         Len(config.rules) \in Nat, DOMAIN config.rules = 1..Len(config.rules),
         r = Switch!TryRule(config, Switch!Prop, message, s, config.rules[k + 1]),
         Test(s, k) \in V, OneElse => FlagSays(s, k) /\ FollowsRules(s)
  PROVE  Found(r, k + 1, V) /\ (OneElse => FlagSays(r, k + 1) /\ FollowsRules(r))
<1>0. k \in Nat /\ k + 1 \in 1..Len(config.rules)
  OBVIOUS
<1>1. CASE s.done
  <2>1. r = s
    BY <1>1 DEF Switch!TryRule
  <2>2. Sent(s) /\ Len(s.onward) <= k /\ Len(s.onward) \in Nat
    BY <1>1 DEF Found
  <2>3. Len(s.onward) <= k + 1
    BY ONLY <1>0, <2>2
  <2>4. Found(s, k + 1, V)
    BY <1>1, <2>2, <2>3 DEF Found
  <2>5. OneElse => FlagSays(s, k + 1) /\ FollowsRules(s)
    BY <1>1 DEF FlagSays
  <2> QED
    BY <2>1, <2>4, <2>5
<1>2. CASE ~s.done
  <2> DEFINE passed == Test(s, k)
             rule == config.rules[k + 1]
             o == s.onward
             q == Append(o, passed)
  <2>1. /\ r.onward = q /\ r.flag = Switch!ElseFlag(s.flag, rule, passed)
        /\ r.done = Switch!Stops(config, passed)
    BY <1>2 DEF Switch!TryRule, Test
  <2>2. /\ o \in Seq(V) /\ Len(o) = k /\ s.flag \in BOOLEAN
        /\ config.checkall = "false" => ~Sent(s)
        /\ ~s.flag => Sent(s)
    BY <1>2 DEF Found
  <2>3. IF k + 1 \in Switch!Elses THEN passed <=> s.flag ELSE passed = Switch!Matches(k + 1)
    BY <2>2, TestIs
  <2>4. k + 1 \in Switch!Elses <=> rule.t = "else"
    BY <1>0 DEF Switch!Elses, Switch!RuleAt
  <2>5. /\ r.flag \in BOOLEAN /\ r.done \in BOOLEAN
        /\ r.flag <=> ~passed /\ (s.flag \/ k + 1 \in Switch!Elses)
        /\ r.done <=> config.checkall = "false" /\ passed
    BY <2>1, <2>4 DEF Switch!ElseFlag, Switch!Stops
  <2>6. /\ q \in Seq(V) /\ Len(q) = k + 1 /\ q[k + 1] = passed
        /\ \A i \in 1..k : q[i] = o[i]
    BY <2>2
  <2> HIDE DEF q, passed, rule
  <2>7. Sent(r) <=> Sent(s) \/ passed
    <3>1. \A i \in 1..(k + 1) : i \in 1..k \/ i = k + 1
      BY ONLY <1>0
    <3>2. 1..k \subseteq 1..(k + 1) /\ k + 1 \in 1..(k + 1)
      BY ONLY <1>0
    <3> QED
      BY <2>1, <2>2, <2>6, <3>1, <3>2 DEF Sent
  <2>8. ASSUME config.checkall = "false", NEW i \in 1..(k + 1), NEW j \in 1..(k + 1), q[i], q[j]
        PROVE  i = j
    <3>1. \A l \in 1..k : ~q[l]
      BY <2>2, <2>6, <2>8 DEF Sent
    <3>2. i = k + 1 /\ j = k + 1
      BY <1>0, <2>8, <3>1
    <3> QED
      BY <3>2
  <2>9. k + 1 \in Switch!Elses => Sent(r)
    BY <2>2, <2>3, <2>7
  <2>10. ~r.flag => Sent(r)
    BY <2>2, <2>5, <2>7
  <2>11. Found(r, k + 1, V)
    BY <1>0, <2>1, <2>2, <2>5, <2>6, <2>7, <2>8, <2>9, <2>10 DEF Found
  <2>12. ASSUME OneElse
         PROVE  FlagSays(r, k + 1) /\ FollowsRules(r)
    <3>1. passed <=> Switch!Applies(k + 1)
      <4>1. CASE k + 1 \in Switch!Elses
        <5>1. \A j \in 1..k : j \notin Switch!Elses
          <6>1. \A j \in 1..k : j # k + 1
            BY ONLY <1>0
          <6> QED
            BY <2>12, <4>1, <6>1 DEF OneElse
        <5>2. s.flag <=> \A j \in 1..k : ~Switch!Matches(j)
          BY <1>2, <2>12, <5>1 DEF FlagSays
        <5>3. k + 1 - 1 = k
          BY ONLY <1>0
        <5> QED
          BY <2>3, <4>1, <5>2, <5>3 DEF Switch!Applies
      <4>2. CASE k + 1 \notin Switch!Elses
        BY <2>3, <4>2 DEF Switch!Applies
      <4> QED
        BY <4>1, <4>2
    <3>2. FollowsRules(r)
      <4>1. ASSUME NEW i \in 1..(k + 1)
            PROVE  q[i] <=> Switch!Applies(i)
        <5>1. CASE i \in 1..k
          BY <2>2, <2>6, <2>12, <5>1 DEF FollowsRules
        <5>2. CASE i = k + 1
          BY <2>6, <3>1, <5>2
        <5>3. i \in 1..k \/ i = k + 1
          BY ONLY <1>0, i \in 1..(k + 1)
        <5> QED
          BY <5>1, <5>2, <5>3
      <4> QED
        BY <2>1, <2>6, <4>1 DEF FollowsRules
    <3>3. ASSUME ~r.done, \A j \in 1..(k + 1) : j \notin Switch!Elses
          PROVE  r.flag <=> \A j \in 1..(k + 1) : ~Switch!Matches(j)
      <4>1. \A j \in 1..(k + 1) : j \in 1..k \/ j = k + 1
        BY ONLY <1>0
      <4>2. 1..k \subseteq 1..(k + 1) /\ k + 1 \in 1..(k + 1)
        BY ONLY <1>0
      <4>3. s.flag <=> \A j \in 1..k : ~Switch!Matches(j)
        BY <1>2, <2>12, <3>3, <4>2 DEF FlagSays
      <4>4. r.flag <=> ~Switch!Matches(k + 1) /\ s.flag
        BY <2>3, <2>5, <3>3, <4>2
      <4> QED
        BY <4>1, <4>2, <4>3, <4>4
    <3> QED
      BY <3>2, <3>3 DEF FlagSays
  <2> QED
    BY <2>11, <2>12
<1> QED
  BY <1>1, <1>2

LEMMA LoopFinds ==
  ASSUME config.rules \in Seq(SwitchRules)
  PROVE  \E s, V : /\ s = Switch!Tried(config, message)
                   /\ Found(s, Len(config.rules), V)
                   /\ OneElse => FollowsRules(s)
<1> DEFINE L == Len(config.rules)
<1>1. L \in Nat /\ DOMAIN config.rules = 1..L
  OBVIOUS
<1>2. PICK st : Loop(st, config, message)
  BY <1>1, LoopRuns
<1> DEFINE V == {Test(st[k - 1], k - 1) : k \in 1..L}
           T == {k \in Nat : k \in 0..L =>
                   /\ Found(st[k], k, V)
                   /\ OneElse => FlagSays(st[k], k) /\ FollowsRules(st[k])}
<1>3. 0 \in T
  <2>1. st[0] = Switch!Start
    BY <1>2 DEF Loop
  <2>2. st[0].onward = <<>> /\ st[0].flag = TRUE /\ st[0].done = FALSE
    BY <2>1 DEF Switch!Start
  <2>3. 0 \notin Switch!Elses
    BY <1>1 DEF Switch!Elses
  <2>4. Found(st[0], 0, V)
    <3>1. <<>> \in Seq(V) /\ Len(<<>>) = 0
      OBVIOUS
    <3> HIDE DEF V, L, T
    <3>2. ~Sent(st[0])
      BY ONLY <2>2, <3>1 DEF Sent
    <3>3. \A i \in 1..Len(st[0].onward) : FALSE
      BY ONLY <2>2, <3>1
    <3>4. st[0].onward \in Seq(V) /\ Len(st[0].onward) = 0
      BY ONLY <2>2, <3>1
    <3>5. /\ st[0].flag \in BOOLEAN /\ st[0].done \in BOOLEAN
          /\ st[0].flag /\ ~st[0].done
      BY ONLY <2>2
    <3>6. Len(st[0].onward) <= 0
      BY ONLY <3>4
    <3>7. \A i, j \in 1..Len(st[0].onward) : st[0].onward[i] /\ st[0].onward[j] => i = j
      BY ONLY <3>3
    <3> QED
      BY ONLY <2>3, <3>2, <3>4, <3>5, <3>6, <3>7 DEF Found
  <2>5. FlagSays(st[0], 0) /\ FollowsRules(st[0])
    BY <2>2 DEF FlagSays, FollowsRules
  <2> QED
    BY <2>4, <2>5
<1>4. ASSUME NEW k \in Nat, k \in T
      PROVE  k + 1 \in T
  <2> SUFFICES ASSUME k + 1 \in 0..L
               PROVE  /\ Found(st[k + 1], k + 1, V)
                      /\ OneElse => FlagSays(st[k + 1], k + 1) /\ FollowsRules(st[k + 1])
    OBVIOUS
  <2>1. k \in 0..L /\ k \in 0..(L - 1) /\ k + 1 \in 1..L /\ k + 1 - 1 = k
    <3> HIDE DEF L
    <3> QED
      BY ONLY <1>1, k \in Nat, k + 1 \in 0..L
  <2>2. st[k + 1] = Switch!TryRule(config, Switch!Prop, message, st[k], config.rules[k + 1])
    BY <1>2, <2>1 DEF Loop, Switch!Prop
  <2>3. Test(st[k], k) \in V
    BY <2>1
  <2>4. Found(st[k], k, V) /\ (OneElse => FlagSays(st[k], k) /\ FollowsRules(st[k]))
    BY <1>4, <2>1
  <2> HIDE DEF V, T
  <2> QED
    BY ONLY <1>1, <2>1, <2>2, <2>3, <2>4, FoundNext
<1>5. L \in T
  <2> HIDE DEF T
  <2> QED
    BY <1>1, <1>3, <1>4, SetInduction
<1>6. Found(st[L], L, V) /\ (OneElse => FollowsRules(st[L]))
  <2>1. L \in 0..L
    <3> HIDE DEF L
    <3> QED
      BY ONLY <1>1
  <2> HIDE DEF V, L
  <2> QED
    BY <1>5, <2>1
<1>7. st[L] = Switch!Tried(config, message)
  BY <1>2 DEF Loop
<1> QED
  BY <1>6, <1>7

\* The node, its rules a list of any length, and what became of its message.
SwitchInv ==
  /\ config.rules \in Seq(SwitchRules) /\ config.checkall \in {"true", "false"}
  /\ result \in {Switch!Pending, Switch!Outcome(config, message)}

LEMMA SwitchFinds ==
  ASSUME SwitchInv
  PROVE  Switch!OutputsFollowRules /\ Switch!NeitherLostNorDoubled
<1> SUFFICES ASSUME Switch!Resolved
             PROVE  Switch!OutputsFollowRules /\ Switch!NeitherLostNorDoubled
  BY DEF Switch!OutputsFollowRules, Switch!NeitherLostNorDoubled
<1> DEFINE L == Len(config.rules)
<1>1. /\ L \in Nat /\ DOMAIN config.rules = 1..L /\ config.checkall \in {"true", "false"}
      /\ config.rules \in Seq(SwitchRules)
  BY DEF SwitchInv
<1>2. result = [status |-> "resolved", onward |-> Switch!Tried(config, message).onward]
  BY DEF SwitchInv, Switch!Resolved, Switch!Pending, Switch!Outcome
<1>3. PICK s, V : /\ s = Switch!Tried(config, message)
                  /\ Found(s, L, V)
                  /\ OneElse => FollowsRules(s)
  BY <1>1, LoopFinds
<1> DEFINE K == Len(s.onward)
<1>4. result.onward = s.onward /\ K \in Nat /\ K <= L /\ DOMAIN s.onward = 1..K
  BY <1>2, <1>3 DEF Found
<1>5. \A i \in 1..L : Switch!Onward(i) <=> i \in 1..K /\ s.onward[i]
  BY <1>4 DEF Switch!Onward
<1>6. Sent(s) => \E i \in 1..L : Switch!Onward(i)
  <2> SUFFICES ASSUME NEW i \in 1..K, s.onward[i]
               PROVE  \E j \in 1..L : Switch!Onward(j)
    BY DEF Sent
  <2>1. i \in 1..L
    <3> HIDE DEF K, L
    <3> QED
      BY <1>1, <1>4
  <2> QED
    BY <1>5, <2>1
<1>7. config.checkall = "false" =>
        \A i, j \in 1..L : Switch!Onward(i) /\ Switch!Onward(j) => i = j
  BY <1>3, <1>5 DEF Found
<1> HIDE DEF K, L
<1>8. config.rules # <<>> /\ Switch!Last(config.rules).t = "else" => Sent(s)
  <2> SUFFICES ASSUME config.rules # <<>>, Switch!Last(config.rules).t = "else"
               PROVE  Sent(s)
    OBVIOUS
  <2>1. L \in 1..L /\ Switch!Last(config.rules) = config.rules[L]
    BY <1>1 DEF Switch!Last, L
  <2>2. L \in Switch!Elses
    BY <1>1, <2>1 DEF Switch!Elses, Switch!RuleAt
  <2> QED
    BY <1>3, <2>2 DEF Found
<1>9. Switch!NeitherLostNorDoubled
  BY <1>1, <1>6, <1>7, <1>8 DEF Switch!NeitherLostNorDoubled
<1>10. ASSUME OneElse, NEW i \in 1..L
       PROVE  Switch!Onward(i) <=>
                /\ Switch!Applies(i)
                /\ config.checkall = "true" \/ \A j \in 1..(i - 1) : ~Switch!Applies(j)
  <2>1. \A j \in 1..K : s.onward[j] <=> Switch!Applies(j)
    BY <1>3, <1>10 DEF FollowsRules, K
  <2>2. \A j \in 1..(i - 1) : j \in 1..L /\ j # i
    BY ONLY <1>1, i \in 1..L
  <2>3. ASSUME i \in 1..K
        PROVE  \A j \in 1..(i - 1) : j \in 1..K
    BY ONLY <1>4, <2>3
  <2>4. CASE config.checkall = "true"
    <3>1. i \in 1..K
      <4>1. K = L
        BY <1>3, <2>4 DEF Found, K
      <4> QED
        BY <4>1
    <3> QED
      BY <1>5, <2>1, <2>4, <3>1
  <2>5. CASE config.checkall = "false" /\ i \in 1..K
    <3>1. Switch!Onward(i) <=> Switch!Applies(i)
      BY <1>5, <2>1, <2>5
    <3>2. \A j \in 1..(i - 1) : Switch!Applies(j) => Switch!Onward(j)
      BY <1>5, <2>1, <2>2, <2>3, <2>5
    <3>3. Switch!Onward(i) => \A j \in 1..(i - 1) : ~Switch!Applies(j)
      BY <1>7, <2>2, <2>5, <3>2
    <3> QED
      BY <2>5, <3>1, <3>3
  <2>6. CASE config.checkall = "false" /\ i \notin 1..K
    <3>1. K # L
      BY <2>6
    <3>2. Sent(s)
      BY <1>3, <3>1 DEF Found, K
    <3>3. PICK j \in 1..K : s.onward[j]
      BY <3>2 DEF Sent, K
    <3>4. j \in 1..(i - 1)
      BY ONLY <1>1, <1>4, <2>6, i \in 1..L, j \in 1..K
    <3> QED
      BY <1>5, <2>1, <2>6, <3>3, <3>4
  <2> QED
    BY <1>1, <2>4, <2>5, <2>6
<1>11. Switch!OutputsFollowRules
  BY <1>1, <1>10 DEF Switch!OutputsFollowRules, OneElse
<1> QED
  BY <1>9, <1>11

LEMMA SwitchStarts ==
  ASSUME Switch!Init
  PROVE  SwitchInv
<1>1. PICK n \in 0..MaxSwitchRules : \E rs \in [1..n -> SwitchRules] :
        \E checkall \in {"true", "false"} : \E property \in {"a", "o.b"} :
          config = [property |-> property, checkall |-> checkall, rules |-> rs]
  BY DEF Switch!Init
<1>2. PICK rs \in [1..n -> SwitchRules] :
        \E checkall \in {"true", "false"} : \E property \in {"a", "o.b"} :
          config = [property |-> property, checkall |-> checkall, rules |-> rs]
  BY <1>1
<1>3. config.rules = rs /\ config.checkall \in {"true", "false"}
  BY <1>2
<1>4. n \in Nat
  BY <1>1
<1>5. config.rules \in Seq(SwitchRules)
  BY <1>3, <1>4
<1> QED
  BY <1>3, <1>5 DEF SwitchInv, Switch!Init

LEMMA SwitchStep ==
  ASSUME SwitchInv, [Switch!Next]_(Switch!vars)
  PROVE  SwitchInv'
BY DEF SwitchInv, Switch!Next, Switch!HandleMessage, Switch!vars

\* A switch node sends its message to the outputs its rules name: none is lost,
\* none is doubled, for any rules, message and values.
THEOREM SwitchesFollowRules ==
  Switch!Spec => [](Switch!OutputsFollowRules /\ Switch!NeitherLostNorDoubled)
<1>1. Switch!Init => SwitchInv
  BY SwitchStarts
<1>2. SwitchInv /\ [Switch!Next]_(Switch!vars) => SwitchInv'
  BY SwitchStep
<1>3. SwitchInv => Switch!OutputsFollowRules /\ Switch!NeitherLostNorDoubled
  BY SwitchFinds
<1> QED
  BY <1>1, <1>2, <1>3, PTL DEF Switch!Spec

-----------------------------------------------------------------------------
(* ChangeNode *)

\* A set of paths that has the empty one and, with a path, those one field longer,
\* has them all.
LEMMA PathInduction ==
  ASSUME NEW K, NEW T, <<>> \in T, \A p \in Seq(K), k \in K : p \in T => Append(p, k) \in T
  PROVE  Seq(K) \subseteq T
<1> DEFINE S == {n \in Nat : \A p \in Seq(K) : Len(p) = n => p \in T}
<1>1. 0 \in S
  BY EmptySeq
<1>2. ASSUME NEW n \in Nat, n \in S
      PROVE  n + 1 \in S
  <2> SUFFICES ASSUME NEW p \in Seq(K), Len(p) = n + 1
               PROVE  p \in T
    OBVIOUS
  <2>1. p # <<>>
    BY EmptySeq
  <2>2. PICK q \in Seq(K), k \in K : p = Append(q, k)
    BY <2>1, SequenceEmptyOrAppend
  <2>3. Len(q) \in Nat /\ Len(p) = Len(q) + 1
    BY <2>2, AppendProperties, LenProperties
  <2>4. Len(q) = n
    BY ONLY <2>3, n \in Nat, Len(p) = n + 1
  <2>5. q \in T
    BY <1>2, <2>4
  <2> QED
    BY <2>2, <2>5
<1> HIDE DEF S
<1>3. Nat \subseteq S
  BY <1>1, <1>2, SetInduction
<1> QED
  <2> SUFFICES ASSUME NEW p \in Seq(K)
               PROVE  p \in T
    OBVIOUS
  <2>1. Len(p) \in S
    BY <1>3, LenProperties
  <2> QED
    BY <2>1 DEF S

\* The values on the way of a path.
Walk(f, path, objects, L) ==
  f = [n \in 0..L |-> IF n = 0 THEN Change!Ref(1) ELSE Change!Field(f[n - 1], path[n], objects)]

LEMMA WalkExists ==
  ASSUME NEW path, NEW objects, NEW L \in Nat
  PROVE  \E f : Walk(f, path, objects, L)
<1> DEFINE S == {n \in Nat : \E f : Walk(f, path, objects, n)}
<1>1. 0 \in S
  <2>1. Walk([n \in 0..0 |-> Change!Ref(1)], path, objects, 0)
    BY DEF Walk
  <2> QED
    BY <2>1
<1>2. ASSUME NEW n \in Nat, n \in S
      PROVE  n + 1 \in S
  <2>1. PICK f : Walk(f, path, objects, n)
    BY <1>2
  <2> DEFINE last == Change!Field(f[n], path[n + 1], objects)
             g == [i \in 0..(n + 1) |-> IF i = n + 1 THEN last ELSE f[i]]
  <2>2. g[n] = f[n] /\ g[n + 1] = last /\ \A i \in 0..n : g[i] = f[i]
    <3> HIDE DEF last
    <3> QED
      OBVIOUS
  <2>3. \A i \in 0..n :
          f[i] = IF i = 0 THEN Change!Ref(1) ELSE Change!Field(f[i - 1], path[i], objects)
    BY <2>1 DEF Walk
  <2>4. \A i \in 0..(n + 1) :
          g[i] = IF i = 0 THEN Change!Ref(1) ELSE Change!Field(g[i - 1], path[i], objects)
    <3> SUFFICES ASSUME NEW i \in 0..(n + 1)
                 PROVE  g[i] = IF i = 0 THEN Change!Ref(1)
                               ELSE Change!Field(g[i - 1], path[i], objects)
      OBVIOUS
    <3>1. CASE i = n + 1
      <4>1. i # 0 /\ i - 1 = n
        BY <3>1
      <4> HIDE DEF g
      <4> QED
        BY <2>2, <3>1, <4>1
    <3>2. CASE i # n + 1
      <4>1. i \in 0..n /\ (i # 0 => i - 1 \in 0..n)
        BY <3>2
      <4> HIDE DEF g
      <4> QED
        BY <2>2, <2>3, <4>1
    <3> QED
      BY <3>1, <3>2
  <2>5. g = [i \in 0..(n + 1) |-> g[i]]
    OBVIOUS
  <2> HIDE DEF g
  <2>6. Walk(g, path, objects, n + 1)
    BY <2>4, <2>5 DEF Walk
  <2> QED
    BY <2>6
<1> HIDE DEF S
<1>3. L \in S
  BY <1>1, <1>2, SetInduction
<1> QED
  BY <1>3 DEF S

\* _get walks field by field.
LEMMA GetSteps ==
  ASSUME NEW objects, NEW K
  PROVE  /\ Change!Get(<<>>, objects) = Change!Ref(1)
         /\ \A p \in Seq(K), k \in K :
              Change!Get(Append(p, k), objects) = Change!Field(Change!Get(p, objects), k, objects)
<1>1. ASSUME NEW path, Len(path) \in Nat
      PROVE  \E f : /\ Change!Get(path, objects) = f[Len(path)] /\ f[0] = Change!Ref(1)
                    /\ \A n \in Nat : n + 1 <= Len(path) =>
                         f[n + 1] = Change!Field(f[n], path[n + 1], objects)
  <2> DEFINE f == CHOOSE g : Walk(g, path, objects, Len(path))
  <2>1. Walk(f, path, objects, Len(path))
    BY <1>1, WalkExists
  <2>2. Change!Get(path, objects) = f[Len(path)]
    BY DEF Change!Get, Walk
  <2> HIDE DEF f
  <2>3. \A n \in 0..Len(path) :
          f[n] = IF n = 0 THEN Change!Ref(1) ELSE Change!Field(f[n - 1], path[n], objects)
    BY <2>1 DEF Walk
  <2>4. f[0] = Change!Ref(1)
    BY <1>1, <2>3
  <2>5. ASSUME NEW n \in Nat, n + 1 <= Len(path)
        PROVE  f[n + 1] = Change!Field(f[n], path[n + 1], objects)
    <3>1. n + 1 \in 0..Len(path) /\ n + 1 # 0 /\ n + 1 - 1 = n
      BY ONLY <1>1, <2>5
    <3> QED
      BY <2>3, <3>1
  <2> QED
    BY <2>2, <2>4, <2>5
<1>2. Change!Get(<<>>, objects) = Change!Ref(1)
  <2>1. Len(<<>>) = 0 /\ Len(<<>>) \in Nat
    OBVIOUS
  <2> QED
    BY <1>1, <2>1
<1>3. ASSUME NEW p \in Seq(K), NEW k \in K
      PROVE  Change!Get(Append(p, k), objects) = Change!Field(Change!Get(p, objects), k, objects)
  <2> DEFINE q == Append(p, k)
             L == Len(p)
  <2>1. /\ L \in Nat /\ Len(q) = L + 1 /\ Len(q) \in Nat /\ q[L + 1] = k
        /\ \A n \in 1..L : q[n] = p[n]
    BY AppendProperties, LenProperties
  <2> HIDE DEF q, L
  <2>2. PICK f : /\ Change!Get(p, objects) = f[L] /\ f[0] = Change!Ref(1)
                 /\ \A n \in Nat : n + 1 <= L => f[n + 1] = Change!Field(f[n], p[n + 1], objects)
    BY <1>1, <2>1 DEF L
  <2>3. PICK g : /\ Change!Get(q, objects) = g[Len(q)] /\ g[0] = Change!Ref(1)
                 /\ \A n \in Nat : n + 1 <= Len(q) =>
                      g[n + 1] = Change!Field(g[n], q[n + 1], objects)
    BY <1>1, <2>1
  <2>4. g[L] = f[L]
    <3> DEFINE S == {n \in Nat : n <= L => g[n] = f[n]}
    <3>1. 0 \in S
      BY <2>2, <2>3
    <3>2. ASSUME NEW n \in Nat, n \in S
          PROVE  n + 1 \in S
      <4> SUFFICES ASSUME n + 1 <= L
                   PROVE  g[n + 1] = f[n + 1]
        OBVIOUS
      <4>1. n <= L /\ n + 1 \in 1..L /\ n + 1 <= L + 1
        BY ONLY n \in Nat, n + 1 <= L, <2>1
      <4>2. g[n] = f[n] /\ q[n + 1] = p[n + 1]
        BY <2>1, <3>2, <4>1
      <4>3. f[n + 1] = Change!Field(f[n], p[n + 1], objects)
        BY ONLY <2>2, <4>1, n \in Nat
      <4>4. n + 1 <= Len(q)
        BY ONLY <2>1, <4>1
      <4>5. g[n + 1] = Change!Field(g[n], q[n + 1], objects)
        BY ONLY <2>3, <4>4, n \in Nat
      <4> QED
        BY ONLY <4>2, <4>3, <4>5
    <3> HIDE DEF S
    <3>3. L \in S
      BY <2>1, <3>1, <3>2, SetInduction
    <3> QED
      BY <2>1, <3>3 DEF S
  <2>5. g[L + 1] = Change!Field(g[L], q[L + 1], objects)
    <3>1. L \in Nat /\ L + 1 <= Len(q)
      BY ONLY <2>1
    <3> QED
      BY ONLY <2>3, <3>1
  <2> QED
    BY <2>1, <2>2, <2>3, <2>4, <2>5 DEF q
<1> QED
  BY <1>2, <1>3

\* Prefixes, by the last field of a path.
LEMMA PrefixSteps ==
  ASSUME NEW K, NEW p \in Seq(K)
  PROVE  /\ Change!IsPrefix(p, <<>>) <=> p = <<>>
         /\ Change!IsPrefix(p, p)
         /\ \A q \in Seq(K) : Change!IsPrefix(p, q) => Len(p) <= Len(q)
         /\ \A q \in Seq(K) : (\A i \in 1..Len(p) : p[i] = q[i]) /\ Len(p) <= Len(q) =>
              Change!IsPrefix(p, q)
         /\ \A q \in Seq(K) : Change!IsPrefix(p, q) /\ Len(p) = Len(q) => p = q
         /\ \A q \in Seq(K), k \in K :
              Change!IsPrefix(p, Append(q, k)) <=> p = Append(q, k) \/ Change!IsPrefix(p, q)
<1>1. ASSUME NEW q \in Seq(K)
      PROVE  Change!IsPrefix(p, q) <=> Len(p) <= Len(q) /\ \A i \in 1..Len(p) : p[i] = q[i]
  <2> DEFINE n == Len(p)
             x == SubSeq(p, 1, n)
             y == SubSeq(q, 1, n)
  <2>1. /\ n \in Nat /\ Len(q) \in Nat /\ \A i \in 1..n : p[i] \in K
        /\ \A i \in 1..Len(q) : q[i] \in K
    BY ElementOfSeq, LenProperties
  <2>2. SUFFICES ASSUME n <= Len(q)
                 PROVE  x = y <=> \A i \in 1..n : p[i] = q[i]
    BY DEF Change!IsPrefix
  <2>3. \A i \in 1..n : q[i] \in K
    BY <2>1, <2>2
  <2>4. 1 \in Int /\ n \in Int /\ n - 1 + 1 = n /\ (IF 1 <= n THEN n - 1 + 1 ELSE 0) = n
        /\ \A i \in 1..n : 1 + i - 1 = i
    BY ONLY <2>1
  <2> HIDE DEF n
  <2>5. x \in Seq(K) /\ Len(x) = n /\ \A i \in 1..n : x[i] = p[i]
    BY ONLY <2>1, <2>4, SubSeqProperties
  <2>6. y \in Seq(K) /\ Len(y) = n /\ \A i \in 1..n : y[i] = q[i]
    BY ONLY <2>3, <2>4, SubSeqProperties
  <2> HIDE DEF x, y
  <2> QED
    BY ONLY <2>5, <2>6, SeqEqual
<1>2. Change!IsPrefix(p, p)
  <2>1. Len(p) <= Len(p)
    BY LenProperties
  <2> QED
    BY <1>1, <2>1
<1>3. Change!IsPrefix(p, <<>>) <=> p = <<>>
  <2>1. <<>> \in Seq(K) /\ Len(<<>>) = 0 /\ (p # <<>> => Len(p) \in Nat \ {0})
    BY EmptySeq
  <2>2. Change!IsPrefix(p, <<>>) => Len(p) <= 0
    BY <1>1, <2>1
  <2> QED
    BY <1>2, <2>1, <2>2
<1>4. ASSUME NEW q \in Seq(K), NEW k \in K
      PROVE  Change!IsPrefix(p, Append(q, k)) <=> p = Append(q, k) \/ Change!IsPrefix(p, q)
  <2> DEFINE r == Append(q, k)
  <2>1. /\ r \in Seq(K) /\ Len(r) = Len(q) + 1 /\ \A i \in 1..Len(q) : r[i] = q[i]
        /\ Len(q) \in Nat /\ Len(p) \in Nat
    BY AppendProperties, LenProperties
  <2> HIDE DEF r
  <2>2. Change!IsPrefix(r, r)
    <3>1. Len(r) <= Len(r)
      BY <2>1
    <3> QED
      BY <1>1, <2>1, <3>1 DEF Change!IsPrefix
  <2>3. CASE Len(p) <= Len(q)
    <3>1. Len(p) <= Len(r) /\ p # r /\ \A i \in 1..Len(p) : i \in 1..Len(q)
      BY ONLY <2>1, <2>3
    <3>2. (\A i \in 1..Len(p) : p[i] = r[i]) <=> (\A i \in 1..Len(p) : p[i] = q[i])
      BY ONLY <2>1, <3>1
    <3> QED
      BY <1>1, <2>1, <2>3, <3>1, <3>2 DEF r
  <2>4. CASE ~(Len(p) <= Len(q))
    <3>1. ~Change!IsPrefix(p, q)
      BY <1>1, <2>4
    <3>2. ASSUME Change!IsPrefix(p, r)
          PROVE  p = r
      <4>1. Len(p) <= Len(r) /\ \A i \in 1..Len(p) : p[i] = r[i]
        BY <1>1, <2>1, <3>2
      <4>2. Len(p) = Len(r)
        BY ONLY <2>1, <2>4, <4>1
      <4> QED
        BY ONLY <2>1, <4>1, <4>2, p \in Seq(K), SeqEqual
    <3> QED
      BY <2>2, <3>1, <3>2 DEF r
  <2> QED
    BY <2>3, <2>4
<1>5. ASSUME NEW q \in Seq(K), Change!IsPrefix(p, q), Len(p) = Len(q)
      PROVE  p = q
  <2>1. \A i \in 1..Len(p) : p[i] = q[i]
    BY <1>1, <1>5
  <2> QED
    BY ONLY <1>5, <2>1, p \in Seq(K), SeqEqual
<1> QED
  BY <1>1, <1>2, <1>3, <1>4, <1>5

\* A path leads to the root, a plain value, another object, or nothing.
Leads(p, objects) ==
  LET value == Change!Get(p, objects)
  IN  \/ value = Change!Unknown
      \/ Change!Plain(value)
      \/ value.id \in 1..Len(objects) /\ value = Change!Ref(value.id) /\ (value.id = 1 => p = <<>>)

\* The kinds of values.
LEMMA Kinds ==
  /\ Change!Unknown.kind = "unknown" /\ ~Change!Plain(Change!Unknown)
  /\ \A i : /\ Change!Ref(i).kind = "object" /\ Change!Ref(i).id = i /\ Change!Ref(i).v = ""
            /\ ~Change!Plain(Change!Ref(i)) /\ Change!Ref(i) # Change!Unknown
BY DEF Change!Unknown, Change!Ref, Change!Plain

LEMMA FieldSound ==
  ASSUME NEW objects, Change!IsTree(objects), NEW i \in 1..Len(objects), NEW k,
         NEW value, value = Change!Field(Change!Ref(i), k, objects)
  PROVE  \/ value = Change!Unknown /\ k \notin DOMAIN objects[i]
         \/ value = objects[i][k] /\ k \in DOMAIN objects[i] /\ Change!Plain(value)
         \/ /\ value = objects[i][k] /\ k \in DOMAIN objects[i]
            /\ value.id \in 2..Len(objects) /\ value = Change!Ref(value.id)
<1>1. value = IF k \in DOMAIN objects[i] THEN objects[i][k] ELSE Change!Unknown
  BY Kinds DEF Change!Field
<1> QED
  BY <1>1 DEF Change!IsTree

\* Nothing is found below what is no object.
LEMMA NoFields ==
  ASSUME NEW objects, NEW k, NEW at, at.kind # "object"
  PROVE  Change!Field(at, k, objects) = Change!Unknown
BY DEF Change!Field

LEMMA GetSound ==
  ASSUME NEW K, NEW objects, Change!IsTree(objects)
  PROVE  \A p \in Seq(K) : Leads(p, objects)
<1> DEFINE T == {p \in Seq(K) : Leads(p, objects)}
<1>0. Len(objects) \in Nat \ {0}
  BY DEF Change!IsTree
<1>1. <<>> \in T
  <2>1. 1 \in 1..Len(objects)
    BY <1>0
  <2> QED
    BY <2>1, EmptySeq, GetSteps, Kinds DEF Leads
<1>2. ASSUME NEW p \in Seq(K), NEW k \in K, p \in T
      PROVE  Append(p, k) \in T
  <2> DEFINE at == Change!Get(p, objects)
             q == Append(p, k)
             value == Change!Get(q, objects)
  <2>1. value = Change!Field(at, k, objects) /\ q \in Seq(K)
    BY GetSteps, AppendProperties
  <2>2. Leads(p, objects)
    BY <1>2
  <2> HIDE DEF value, q
  <2>3. CASE at.kind # "object"
    BY <2>1, <2>3, NoFields DEF Leads, value, q
  <2>4. CASE at.kind = "object"
    <3>1. at.id \in 1..Len(objects) /\ at = Change!Ref(at.id)
      BY <2>2, <2>4, Kinds DEF Leads, Change!Plain
    <3> HIDE DEF at
    <3>2. \/ value = Change!Unknown \/ Change!Plain(value)
          \/ value.id \in 2..Len(objects) /\ value = Change!Ref(value.id)
      BY <2>1, <3>1, FieldSound
    <3>3. 2..Len(objects) \subseteq 1..Len(objects) /\ 1 \notin 2..Len(objects)
      BY ONLY <1>0
    <3> QED
      BY <2>1, <3>2, <3>3 DEF Leads, value, q
  <2> QED
    BY <2>3, <2>4
<1> HIDE DEF T
<1>3. Seq(K) \subseteq T
  BY <1>1, <1>2, PathInduction
<1> QED
  BY <1>3 DEF T

\* What a path leads to when it goes on.
LEMMA GetNext ==
  ASSUME NEW K, NEW objects, Change!IsTree(objects), NEW p \in Seq(K), NEW k \in K
  PROVE  LET at == Change!Get(p, objects)
             value == Change!Get(Append(p, k), objects)
         IN  /\ value = Change!Field(at, k, objects)
             /\ at.kind # "object" => value = Change!Unknown
             /\ at.kind = "object" =>
                  /\ at.id \in 1..Len(objects) /\ at = Change!Ref(at.id)
                  /\ \/ value = Change!Unknown /\ k \notin DOMAIN objects[at.id]
                     \/ /\ value = objects[at.id][k] /\ k \in DOMAIN objects[at.id]
                        /\ Change!Plain(value)
                     \/ /\ value = objects[at.id][k] /\ k \in DOMAIN objects[at.id]
                        /\ value.id \in 2..Len(objects) /\ value = Change!Ref(value.id)
<1> DEFINE at == Change!Get(p, objects)
           value == Change!Get(Append(p, k), objects)
<1>1. value = Change!Field(at, k, objects)
  BY GetSteps
<1>2. Leads(p, objects)
  BY GetSound
<1>3. ASSUME at.kind = "object"
      PROVE  at.id \in 1..Len(objects) /\ at = Change!Ref(at.id)
  BY <1>2, <1>3, Kinds DEF Leads, Change!Plain
<1> HIDE DEF at, value
<1>4. ASSUME at.kind = "object"
      PROVE  \/ value = Change!Unknown /\ k \notin DOMAIN objects[at.id]
             \/ value = objects[at.id][k] /\ k \in DOMAIN objects[at.id] /\ Change!Plain(value)
             \/ /\ value = objects[at.id][k] /\ k \in DOMAIN objects[at.id]
                /\ value.id \in 2..Len(objects) /\ value = Change!Ref(value.id)
  BY <1>1, <1>3, <1>4, FieldSound
<1>5. at.kind # "object" => value = Change!Unknown
  BY <1>1, NoFields
<1> QED
  BY <1>1, <1>3, <1>4, <1>5 DEF at, value

\* No object is at the end of two paths.
LEMMA GetApart ==
  ASSUME NEW K, NEW objects, Change!IsTree(objects)
  PROVE  \A p, q \in Seq(K) :
           Change!Get(p, objects) = Change!Get(q, objects)
             /\ Change!Get(p, objects).kind = "object" => p = q
<1> DEFINE Differ(p, q) ==
             Change!Get(p, objects) = Change!Get(q, objects)
               /\ Change!Get(p, objects).kind = "object" => p = q
           T == {p \in Seq(K) : \A q \in Seq(K) : Differ(p, q)}
\* The root is in no field.
<1>1. ASSUME NEW p \in Seq(K), NEW k \in K
      PROVE  Change!Get(Append(p, k), objects) # Change!Ref(1)
  <2> DEFINE value == Change!Get(Append(p, k), objects)
  <2>1. \/ value = Change!Unknown \/ Change!Plain(value)
        \/ value.id \in 2..Len(objects)
    BY GetNext
  <2>2. Len(objects) \in Nat
    BY DEF Change!IsTree
  <2>3. 1 \notin 2..Len(objects)
    BY ONLY <2>2
  <2> HIDE DEF value
  <2> QED
    BY <2>1, <2>3, Kinds DEF value
<1>2. <<>> \in T
  <2>1. <<>> \in Seq(K)
    BY EmptySeq
  <2>2. ASSUME NEW q \in Seq(K), Change!Get(q, objects) = Change!Ref(1), q # <<>>
        PROVE  FALSE
    <3>1. PICK r \in Seq(K), l \in K : q = Append(r, l)
      BY <2>2, SequenceEmptyOrAppend
    <3> QED
      BY <1>1, <2>2, <3>1
  <2>3. Change!Get(<<>>, objects) = Change!Ref(1)
    BY GetSteps
  <2>4. \A q \in Seq(K) : Differ(<<>>, q)
    BY <2>2, <2>3
  <2> QED
    BY <2>1, <2>4
<1>3. ASSUME NEW p \in Seq(K), NEW k \in K, p \in T
      PROVE  Append(p, k) \in T
  <2> DEFINE x == Change!Get(Append(p, k), objects)
  <2> SUFFICES ASSUME NEW q \in Seq(K), x = Change!Get(q, objects), x.kind = "object"
               PROVE  Append(p, k) = q
    BY AppendProperties
  <2>1. q # <<>>
    BY <1>1, GetSteps
  <2>2. PICK r \in Seq(K), l \in K : q = Append(r, l)
    BY <2>1, SequenceEmptyOrAppend
  <2> DEFINE a == Change!Get(p, objects)
             b == Change!Get(r, objects)
             y == Change!Get(Append(r, l), objects)
  <2>5. ~Change!Plain(x) /\ x # Change!Unknown
    BY Kinds DEF Change!Plain
  <2>0. x = y
    BY <2>2
  <2>a. /\ a.kind # "object" => x = Change!Unknown
        /\ a.kind = "object" =>
             /\ a.id \in 1..Len(objects) /\ a = Change!Ref(a.id)
             /\ \/ x = Change!Unknown \/ Change!Plain(x)
                \/ x = objects[a.id][k] /\ k \in DOMAIN objects[a.id]
    BY GetNext
  <2>b. /\ b.kind # "object" => y = Change!Unknown
        /\ b.kind = "object" =>
             /\ b.id \in 1..Len(objects) /\ b = Change!Ref(b.id)
             /\ \/ y = Change!Unknown \/ Change!Plain(y)
                \/ y = objects[b.id][l] /\ l \in DOMAIN objects[b.id]
    BY GetNext
  <2>c. \A s \in Seq(K) : Differ(p, s)
    BY <1>3
  <2>d. a = b /\ a.kind = "object" => p = r
    BY <2>c
  <2>e. \A i, j \in 1..Len(objects) : \A m \in DOMAIN objects[i], n \in DOMAIN objects[j] :
          objects[i][m] = objects[j][n] /\ ~Change!Plain(objects[i][m]) => i = j /\ m = n
    BY DEF Change!IsTree
  <2> HIDE DEF x, y, a, b, Differ
  <2>3. /\ a.kind = "object" /\ a.id \in 1..Len(objects) /\ a = Change!Ref(a.id)
        /\ x = objects[a.id][k] /\ k \in DOMAIN objects[a.id]
    BY ONLY <2>5, <2>a
  <2>4. /\ b.kind = "object" /\ b.id \in 1..Len(objects) /\ b = Change!Ref(b.id)
        /\ x = objects[b.id][l] /\ l \in DOMAIN objects[b.id]
    BY ONLY <2>5, <2>0, <2>b
  <2>6. a.id = b.id /\ k = l
    <3>1. objects[a.id][k] = objects[b.id][l] /\ ~Change!Plain(objects[a.id][k])
      BY <2>0, <2>3, <2>4, <2>5
    <3> QED
      BY ONLY <2>3, <2>4, <2>e, <3>1
  <2>7. p = r
    BY ONLY <2>3, <2>4, <2>6, <2>d
  <2> QED
    BY <2>2, <2>6, <2>7
<1> HIDE DEF T
<1>4. Seq(K) \subseteq T
  BY <1>2, <1>3, PathInduction
<1> QED
  BY <1>4 DEF T

\* A function on 1..n is a sequence of length n, and what it is appended to.
LEMMA Lists ==
  ASSUME NEW f, NEW n \in Nat, f = [i \in 1..n |-> f[i]]
  PROVE  /\ Len(f) = n
         /\ \A e : /\ Len(Append(f, e)) = n + 1
                   /\ Append(f, e) = [i \in 1..(n + 1) |-> Append(f, e)[i]]
                   /\ Append(f, e)[n + 1] = e /\ \A i \in 1..n : Append(f, e)[i] = f[i]
<1>1. ASSUME NEW e
      PROVE  /\ Len(f) = n /\ Len(Append(f, e)) = n + 1
             /\ Append(f, e) = [i \in 1..(n + 1) |-> Append(f, e)[i]]
             /\ Append(f, e)[n + 1] = e /\ \A i \in 1..n : Append(f, e)[i] = f[i]
  <2> DEFINE S == {f[i] : i \in 1..n} \cup {e}
             g == Append(f, e)
  <2>1. \A i \in 1..n : f[i] \in S
    OBVIOUS
  <2>2. e \in S
    OBVIOUS
  <2> HIDE DEF S
  <2>3. [i \in 1..n |-> f[i]] \in Seq(S)
    BY <2>1, IsASeq
  <2>4. f \in Seq(S)
    BY <2>3
  <2>5. /\ g \in Seq(S) /\ Len(g) = Len(f) + 1 /\ g[Len(f) + 1] = e
        /\ \A i \in 1..Len(f) : g[i] = f[i]
    BY <2>2, <2>4, AppendProperties
  <2>6. Len(f) \in Nat /\ DOMAIN f = 1..Len(f) /\ Len(g) \in Nat
        /\ g = [i \in 1..Len(g) |-> g[i]]
    BY <2>4, <2>5, LenProperties, SeqDef
  <2>7. DOMAIN f = 1..n
    OBVIOUS
  <2> HIDE DEF g
  <2>8. Len(f) = n
    BY ONLY <2>6, <2>7, n \in Nat
  <2> QED
    BY <2>5, <2>6, <2>8 DEF g
<1> QED
  BY <1>1

\* Paths, by their last fields.
LEMMA PathFacts ==
  ASSUME NEW K, NEW p \in Seq(K), NEW k \in K
  PROVE  /\ Append(p, k) \in Seq(K) /\ Append(p, k) # <<>>
         /\ \A q \in Seq(K) : Change!IsPrefix(q, p) => ~Change!IsPrefix(Append(p, k), q)
         /\ \A q \in Seq(K), l \in K :
              /\ Append(q, l) = Append(p, k) => q = p /\ l = k
              /\ Change!IsPrefix(Append(p, k), q) => Append(q, l) # Append(p, k)
<1> DEFINE r == Append(p, k)
<1>1. r \in Seq(K) /\ Len(r) = Len(p) + 1 /\ Len(p) \in Nat /\ r # <<>>
  BY AppendProperties, LenProperties, EmptySeq
<1>2. ASSUME NEW q \in Seq(K), Change!IsPrefix(q, p), Change!IsPrefix(r, q)
      PROVE  FALSE
  <2>1. Len(q) <= Len(p) /\ Len(r) <= Len(q) /\ Len(q) \in Nat
    BY <1>1, <1>2, PrefixSteps, LenProperties
  <2> QED
    BY ONLY <1>1, <2>1
<1>3. ASSUME NEW q \in Seq(K), NEW l \in K
      PROVE  /\ Append(q, l) = r => q = p /\ l = k
             /\ Change!IsPrefix(r, q) => Append(q, l) # r
  <2> DEFINE t == Append(q, l)
  <2>1. t = r => q = p /\ l = k
    BY AppendInjective
  <2>2. Len(t) = Len(q) + 1 /\ Len(q) \in Nat
    BY AppendProperties, LenProperties
  <2>3. Change!IsPrefix(r, q) => Len(r) <= Len(q)
    BY <1>1, PrefixSteps
  <2> HIDE DEF t, r
  <2>4. Change!IsPrefix(r, q) => t # r
    BY ONLY <2>2, <2>3
  <2> QED
    BY <2>1, <2>4 DEF t
<1> QED
  BY <1>1, <1>2, <1>3

\* Nothing is below what is no object.
LEMMA NoneBelow ==
  ASSUME NEW K, NEW objects, NEW p \in Seq(K), Change!Get(p, objects).kind # "object"
  PROVE  \A q \in Seq(K) : Change!IsPrefix(p, q) /\ q # p => Change!Get(q, objects) = Change!Unknown
<1> DEFINE T == {q \in Seq(K) : Change!IsPrefix(p, q) /\ q # p =>
                                  Change!Get(q, objects) = Change!Unknown}
<1>1. <<>> \in T
  BY EmptySeq, PrefixSteps
<1>2. ASSUME NEW q \in Seq(K), NEW k \in K, q \in T
      PROVE  Append(q, k) \in T
  <2>1. Append(q, k) \in Seq(K)
    BY AppendProperties
  <2> SUFFICES ASSUME Change!IsPrefix(p, Append(q, k)), Append(q, k) # p
               PROVE  Change!Get(Append(q, k), objects) = Change!Unknown
    BY <2>1
  <2>2. Change!IsPrefix(p, q)
    BY PrefixSteps
  <2>3. q # p => Change!Get(q, objects) = Change!Unknown
    BY <1>2, <2>2
  <2>4. Change!Unknown.kind # "object"
    BY Kinds
  <2>5. Change!Get(q, objects).kind # "object"
    BY <2>3, <2>4
  <2>6. Change!Get(Append(q, k), objects) = Change!Field(Change!Get(q, objects), k, objects)
    BY GetSteps
  <2> QED
    BY <2>5, <2>6, NoFields
<1> HIDE DEF T
<1>3. Seq(K) \subseteq T
  BY <1>1, <1>2, PathInduction
<1> QED
  BY <1>3 DEF T

\* The objects with v in field k of object i: a plain value, or a new object
\* that has no fields, where the field was not there.
Wrote(objects, i, k, v, after) ==
  /\ Len(after) \in Nat /\ after = [j \in 1..Len(after) |-> after[j]]
  /\ \A j \in 1..Len(objects) : j # i => after[j] = objects[j]
  /\ DOMAIN after[i] = DOMAIN objects[i] \cup {k} /\ after[i][k] = v
  /\ \A l \in DOMAIN objects[i] : l # k => after[i][l] = objects[i][l]
  /\ \/ Change!Plain(v) /\ Len(after) = Len(objects)
     \/ /\ v = Change!Ref(Len(objects) + 1) /\ Len(after) = Len(objects) + 1
        /\ DOMAIN after[Len(objects) + 1] = {}

LEMMA WroteTree ==
  ASSUME NEW objects, Change!IsTree(objects), NEW i \in 1..Len(objects), NEW k, NEW v, NEW after,
         Wrote(objects, i, k, v, after)
  PROVE  Change!IsTree(after)
<1> DEFINE N == Len(objects)
           M == Len(after)
<1>1. /\ N \in Nat \ {0}
      /\ \A j \in 1..N : \A l \in DOMAIN objects[j] :
           \/ Change!Plain(objects[j][l])
           \/ objects[j][l].id \in 2..N /\ objects[j][l] = Change!Ref(objects[j][l].id)
      /\ \A a, b \in 1..N : \A l \in DOMAIN objects[a], m \in DOMAIN objects[b] :
           objects[a][l] = objects[b][m] /\ ~Change!Plain(objects[a][l]) => a = b /\ l = m
  BY DEF Change!IsTree
<1>2. /\ M \in Nat /\ after = [j \in 1..M |-> after[j]]
      /\ \A j \in 1..N : j # i => after[j] = objects[j]
      /\ DOMAIN after[i] = DOMAIN objects[i] \cup {k} /\ after[i][k] = v
      /\ \A l \in DOMAIN objects[i] : l # k => after[i][l] = objects[i][l]
      /\ \/ Change!Plain(v) /\ M = N
         \/ v = Change!Ref(N + 1) /\ M = N + 1 /\ DOMAIN after[N + 1] = {}
  BY DEF Wrote
<1> HIDE DEF N, M
<1>3. /\ M \in Nat \ {0} /\ 1..N \subseteq 1..M /\ 2..N \subseteq 2..M
      /\ M = N + 1 => \A j \in 1..M : j = N + 1 \/ j \in 1..N
      /\ M = N => \A j \in 1..M : j \in 1..N
      /\ M = N + 1 => N + 1 \in 2..M
      /\ \A j \in 2..N : j # N + 1
  BY ONLY <1>1, <1>2
\* A field is the one that was written, or was there before.
<1>4. ASSUME NEW j \in 1..M, NEW l \in DOMAIN after[j]
      PROVE  \/ j = i /\ l = k /\ after[j][l] = v
             \/ /\ j \in 1..N /\ l \in DOMAIN objects[j] /\ after[j][l] = objects[j][l]
  <2>1. CASE j = i
    <3>1. i \in 1..N
      BY DEF N
    <3> QED
      BY <1>2, <1>4, <2>1, <3>1
  <2>2. CASE j # i /\ j \in 1..N
    <3>1. after[j] = objects[j]
      BY <1>2, <2>2
    <3> QED
      BY <1>4, <2>2, <3>1
  <2>3. CASE j \notin 1..N
    <3>1. j = N + 1 /\ M = N + 1
      BY ONLY <1>2, <1>3, <2>3, j \in 1..M
    <3>2. N + 1 # N
      BY ONLY <1>1
    <3>3. DOMAIN after[j] = {}
      BY ONLY <1>2, <3>1, <3>2
    <3> QED
      BY <1>4, <3>3
  <2> QED
    BY <2>1, <2>2, <2>3
<1>5. ASSUME NEW j \in 1..M, NEW l \in DOMAIN after[j]
      PROVE  \/ Change!Plain(after[j][l])
             \/ after[j][l].id \in 2..M /\ after[j][l] = Change!Ref(after[j][l].id)
  <2>1. Change!Ref(N + 1).id = N + 1
    BY Kinds
  <2>2. Change!Plain(v) \/ (v.id \in 2..M /\ v = Change!Ref(v.id))
    <3>1. CASE v = Change!Ref(N + 1) /\ M = N + 1
      <4>1. v.id = N + 1
        BY <2>1, <3>1
      <4> QED
        BY <1>3, <3>1, <4>1
    <3>2. Change!Plain(v) \/ (v = Change!Ref(N + 1) /\ M = N + 1)
      BY ONLY <1>2
    <3> QED
      BY <3>1, <3>2
  <2>3. j \in 1..N /\ l \in DOMAIN objects[j] =>
          \/ Change!Plain(objects[j][l])
          \/ objects[j][l].id \in 2..M /\ objects[j][l] = Change!Ref(objects[j][l].id)
    BY ONLY <1>1, <1>3
  <2> QED
    BY ONLY <1>4, <2>2, <2>3
\* What was there before is no new object.
<1>6. ASSUME NEW j \in 1..N, NEW l \in DOMAIN objects[j], v = objects[j][l], ~Change!Plain(v)
      PROVE  FALSE
  <2>1. v = Change!Ref(N + 1) /\ v.id \in 2..N
    BY ONLY <1>1, <1>2, <1>6
  <2>2. v.id = N + 1
    BY <2>1, Kinds
  <2> QED
    BY <1>3, <2>1, <2>2
<1>7. ASSUME NEW a \in 1..M, NEW b \in 1..M, NEW l \in DOMAIN after[a], NEW m \in DOMAIN after[b],
             after[a][l] = after[b][m], ~Change!Plain(after[a][l])
      PROVE  a = b /\ l = m
  <2>1. \/ a = i /\ l = k /\ after[a][l] = v
        \/ a \in 1..N /\ l \in DOMAIN objects[a] /\ after[a][l] = objects[a][l]
    BY <1>4
  <2>2. \/ b = i /\ m = k /\ after[b][m] = v
        \/ b \in 1..N /\ m \in DOMAIN objects[b] /\ after[b][m] = objects[b][m]
    BY <1>4
  <2>3. CASE after[a][l] = v
    <3>1. ~Change!Plain(v) /\ after[b][m] = v
      BY <1>7, <2>3
    <3> QED
      BY <1>6, <1>7, <2>1, <2>2, <3>1
  <2>4. CASE after[a][l] # v
    <3>1. /\ a \in 1..N /\ l \in DOMAIN objects[a] /\ after[a][l] = objects[a][l]
          /\ b \in 1..N /\ m \in DOMAIN objects[b] /\ after[b][m] = objects[b][m]
      BY ONLY <1>7, <2>1, <2>2, <2>4
    <3>2. objects[a][l] = objects[b][m] /\ ~Change!Plain(objects[a][l])
      BY <1>7, <3>1
    <3> QED
      BY ONLY <1>1, <3>1, <3>2
  <2> QED
    BY <2>3, <2>4
<1> QED
  BY <1>2, <1>3, <1>5, <1>7 DEF Change!IsTree, M

\* What the paths lead to after a field was written.
LEMMA WroteGet ==
  ASSUME NEW K, NEW objects, Change!IsTree(objects), NEW i \in 1..Len(objects),
         NEW p \in Seq(K), NEW k \in K, Change!Get(p, objects) = Change!Ref(i),
         NEW v, NEW after, Wrote(objects, i, k, v, after)
  PROVE  \A q \in Seq(K) :
           Change!Get(q, after) = IF q = Append(p, k) THEN v
                                  ELSE IF Change!IsPrefix(Append(p, k), q) THEN Change!Unknown
                                  ELSE Change!Get(q, objects)
<1> DEFINE path == Append(p, k)
           Grows(q) == Change!Get(q, after) = IF q = path THEN v
                                             ELSE IF Change!IsPrefix(path, q) THEN Change!Unknown
                                             ELSE Change!Get(q, objects)
           T == {q \in Seq(K) : Grows(q)}
<1>0. /\ path \in Seq(K) /\ path # <<>>
      /\ \A q \in Seq(K) : Change!IsPrefix(q, p) => ~Change!IsPrefix(path, q)
      /\ \A q \in Seq(K), l \in K :
           /\ Append(q, l) = path => q = p /\ l = k
           /\ Change!IsPrefix(path, q) => Append(q, l) # path
  BY PathFacts
<1>p. /\ ~Change!IsPrefix(path, <<>>)
      /\ \A q \in Seq(K), l \in K :
           Change!IsPrefix(path, Append(q, l)) <=> path = Append(q, l) \/ Change!IsPrefix(path, q)
      /\ ~Change!IsPrefix(path, p)
      /\ Change!IsPrefix(path, path) /\ p # path
  BY <1>0, PrefixSteps
<1> HIDE DEF path
<1>1. <<>> \in T
  BY <1>0, <1>p, EmptySeq, GetSteps
<1>2. ASSUME NEW r \in Seq(K), NEW l \in K, r \in T
      PROVE  Append(r, l) \in T
  <2> DEFINE q == Append(r, l)
             at == Change!Get(r, objects)
             then == Change!Get(r, after)
  <2>1. /\ q \in Seq(K) /\ Change!Get(q, objects) = Change!Field(at, l, objects)
        /\ Change!Get(q, after) = Change!Field(then, l, after)
    BY AppendProperties, GetSteps
  <2>2. then = IF r = path THEN v ELSE IF Change!IsPrefix(path, r) THEN Change!Unknown ELSE at
    BY <1>2
  <2>3. SUFFICES Grows(q)
    BY <2>1
  <2> HIDE DEF at, then
  <2>4. CASE q = path
    <3>1. r = p /\ l = k
      BY <1>0, <2>4
    <3>2. then = Change!Ref(i)
      BY <1>p, <2>2, <3>1 DEF at
    <3>3. Change!Field(then, l, after) = v
      BY <3>1, <3>2, Kinds DEF Change!Field, Wrote
    <3> QED
      BY <2>1, <2>4, <3>3
  <2>5. CASE q # path /\ Change!IsPrefix(path, q)
    <3>1. Change!IsPrefix(path, r)
      BY <1>p, <2>5
    <3>2. then = IF r = path THEN v ELSE Change!Unknown
      BY <2>2, <3>1
    <3>3. Change!Field(Change!Unknown, l, after) = Change!Unknown
      BY Kinds DEF Change!Field
    <3>4. Change!Field(v, l, after) = Change!Unknown
      <4>1. CASE Change!Plain(v)
        BY <4>1 DEF Change!Field, Change!Plain
      <4>2. CASE v = Change!Ref(Len(objects) + 1) /\ DOMAIN after[Len(objects) + 1] = {}
        BY <4>2, Kinds DEF Change!Field
      <4> QED
        BY <4>1, <4>2 DEF Wrote
    <3> QED
      BY <2>1, <2>5, <3>2, <3>3, <3>4
  <2>6. CASE ~Change!IsPrefix(path, q)
    <3>1. ~Change!IsPrefix(path, r) /\ q # path
      BY <1>p, <2>6
    <3>2. then = at
      BY <1>p, <2>2, <3>1
    <3>3. Change!Field(at, l, after) = Change!Field(at, l, objects)
      <4>1. CASE at.kind # "object"
        BY <4>1, NoFields
      <4>2. CASE at.kind = "object"
        <5>1. at.id \in 1..Len(objects) /\ at = Change!Ref(at.id)
          <6>1. Leads(r, objects)
            BY GetSound
          <6> QED
            BY <4>2, <6>1, Kinds DEF Leads, at, Change!Plain
        <5>2. CASE at.id # i
          <6>1. after[at.id] = objects[at.id]
            BY <5>1, <5>2 DEF Wrote
          <6> QED
            BY <6>1 DEF Change!Field
        <5>3. CASE at.id = i
          <6>1. r = p
            <7>1. Change!Get(r, objects) = Change!Get(p, objects)
              BY <5>1, <5>3 DEF at
            <7>2. Change!Get(r, objects).kind = "object"
              BY <4>2 DEF at
            <7> QED
              BY <7>1, <7>2, GetApart
          <6>2. l # k
            BY <3>1, <6>1 DEF path
          <6>3. /\ l \in DOMAIN after[at.id] <=> l \in DOMAIN objects[at.id]
                /\ l \in DOMAIN objects[at.id] => after[at.id][l] = objects[at.id][l]
            BY <5>3, <6>2 DEF Wrote
          <6> QED
            BY <6>3 DEF Change!Field
        <5> QED
          BY <5>2, <5>3
      <4> QED
        BY <4>1, <4>2
    <3> QED
      BY <2>1, <2>6, <3>1, <3>2, <3>3
  <2> QED
    BY <2>4, <2>5, <2>6
<1> HIDE DEF T
<1>3. Seq(K) \subseteq T
  BY <1>1, <1>2, PathInduction
<1> QED
  BY <1>3 DEF T, path

\* _set goes on field by field.
Way(w, path, objects, L) ==
  w = [n \in 0..L |->
         IF n = 0 THEN [objects |-> objects, at |-> Change!Ref(1)]
         ELSE Change!Descend(w[n - 1], path[n])]

LEMMA WayExists ==
  ASSUME NEW path, NEW objects, NEW L \in Nat
  PROVE  \E w : Way(w, path, objects, L)
<1> DEFINE S == {n \in Nat : \E w : Way(w, path, objects, n)}
           start == [objects |-> objects, at |-> Change!Ref(1)]
<1>1. 0 \in S
  <2> HIDE DEF start
  <2>1. Way([n \in 0..0 |-> start], path, objects, 0)
    BY DEF Way, start
  <2> QED
    BY <2>1
<1>2. ASSUME NEW n \in Nat, n \in S
      PROVE  n + 1 \in S
  <2>1. PICK f : Way(f, path, objects, n)
    BY <1>2
  <2> DEFINE last == Change!Descend(f[n], path[n + 1])
             g == [i \in 0..(n + 1) |-> IF i = n + 1 THEN last ELSE f[i]]
  <2> HIDE DEF start
  <2>2. g[n] = f[n] /\ g[n + 1] = last /\ \A i \in 0..n : g[i] = f[i]
    <3> HIDE DEF last
    <3> QED
      OBVIOUS
  <2>3. \A i \in 0..n : f[i] = IF i = 0 THEN start ELSE Change!Descend(f[i - 1], path[i])
    BY <2>1 DEF Way, start
  <2>4. \A i \in 0..(n + 1) : g[i] = IF i = 0 THEN start ELSE Change!Descend(g[i - 1], path[i])
    <3> SUFFICES ASSUME NEW i \in 0..(n + 1)
                 PROVE  g[i] = IF i = 0 THEN start ELSE Change!Descend(g[i - 1], path[i])
      OBVIOUS
    <3>1. CASE i = n + 1
      <4>1. i # 0 /\ i - 1 = n
        BY <3>1
      <4> HIDE DEF g
      <4> QED
        BY <2>2, <3>1, <4>1
    <3>2. CASE i # n + 1
      <4>1. i \in 0..n /\ (i # 0 => i - 1 \in 0..n)
        BY <3>2
      <4> HIDE DEF g
      <4> QED
        BY <2>2, <2>3, <4>1
    <3> QED
      BY <3>1, <3>2
  <2>5. g = [i \in 0..(n + 1) |-> g[i]]
    OBVIOUS
  <2> HIDE DEF g
  <2>6. Way(g, path, objects, n + 1)
    BY <2>4, <2>5 DEF Way, start
  <2> QED
    BY <2>6
<1> HIDE DEF S
<1>3. L \in S
  BY <1>1, <1>2, SetInduction
<1> QED
  BY <1>3 DEF S

\* Where _set is after the fields of p.
Came(p, objects) == (CHOOSE w : Way(w, p, objects, Len(p)))[Len(p)]

\* A field of object i.
Put(objects, i, k, v) == [objects EXCEPT ![i] = Change!Written(@, k, v)]

\* The last field, where the others have led to.
SetLast(end, k, v) ==
  IF end.at.kind # "object" THEN <<>> ELSE Put(end.objects, end.at.id, k, v)

\* One field after the other, and then the last one.
LEMMA SetSteps ==
  ASSUME NEW objects, NEW K
  PROVE  /\ Came(<<>>, objects) = [objects |-> objects, at |-> Change!Ref(1)]
         /\ \A p \in Seq(K), k \in K :
              /\ Came(Append(p, k), objects) = Change!Descend(Came(p, objects), k)
              /\ \A v : Change!Set(Append(p, k), v, objects) = SetLast(Came(p, objects), k, v)
<1> DEFINE start == [objects |-> objects, at |-> Change!Ref(1)]
<1> HIDE DEF start
<1>1. ASSUME NEW path, NEW L \in Nat, NEW f, Way(f, path, objects, L)
      PROVE  /\ f[0] = start
             /\ \A n \in Nat : n + 1 <= L => f[n + 1] = Change!Descend(f[n], path[n + 1])
  <2>3. \A n \in 0..L : f[n] = IF n = 0 THEN start ELSE Change!Descend(f[n - 1], path[n])
    BY <1>1 DEF Way, start
  <2>4. f[0] = start
    BY <2>3
  <2>5. ASSUME NEW n \in Nat, n + 1 <= L
        PROVE  f[n + 1] = Change!Descend(f[n], path[n + 1])
    <3>1. n + 1 \in 0..L /\ n + 1 # 0 /\ n + 1 - 1 = n
      BY ONLY <1>1, <2>5
    <3> QED
      BY <2>3, <3>1
  <2> QED
    BY <2>4, <2>5
<1>2. ASSUME NEW path, Len(path) \in Nat
      PROVE  \E f : Way(f, path, objects, Len(path)) /\ Came(path, objects) = f[Len(path)]
  <2> DEFINE f == CHOOSE w : Way(w, path, objects, Len(path))
  <2>1. Way(f, path, objects, Len(path))
    BY <1>2, WayExists
  <2>2. Came(path, objects) = f[Len(path)]
    BY DEF Came
  <2> HIDE DEF f
  <2> QED
    BY <2>1, <2>2
<1>3. Came(<<>>, objects) = start
  <2>1. Len(<<>>) = 0 /\ Len(<<>>) \in Nat
    OBVIOUS
  <2>2. PICK f : Way(f, <<>>, objects, 0) /\ Came(<<>>, objects) = f[0]
    BY <1>2, <2>1
  <2> QED
    BY <1>1, <2>2
\* Ways that begin with the same fields agree there.
<1>4. ASSUME NEW p, NEW q, NEW L \in Nat, NEW M \in Nat, L <= M, \A n \in 1..L : q[n] = p[n],
             NEW f, Way(f, p, objects, L), NEW g, Way(g, q, objects, M)
      PROVE  g[L] = f[L]
  <2>2. f[0] = start /\ \A n \in Nat : n + 1 <= L => f[n + 1] = Change!Descend(f[n], p[n + 1])
    BY <1>1, <1>4
  <2>3. g[0] = start /\ \A n \in Nat : n + 1 <= M => g[n + 1] = Change!Descend(g[n], q[n + 1])
    BY <1>1, <1>4
  <2> DEFINE S == {n \in Nat : n <= L => g[n] = f[n]}
  <2>4. 0 \in S
    BY <2>2, <2>3
  <2>5. ASSUME NEW n \in Nat, n \in S
        PROVE  n + 1 \in S
    <3> SUFFICES ASSUME n + 1 <= L
                 PROVE  g[n + 1] = f[n + 1]
      OBVIOUS
    <3>1. n <= L /\ n + 1 \in 1..L /\ n + 1 <= M
      BY ONLY n \in Nat, n + 1 <= L, <1>4, L \in Nat, M \in Nat
    <3>2. g[n] = f[n] /\ q[n + 1] = p[n + 1]
      BY <1>4, <2>5, <3>1
    <3>3. f[n + 1] = Change!Descend(f[n], p[n + 1])
      BY ONLY <2>2, n + 1 <= L, n \in Nat
    <3>5. g[n + 1] = Change!Descend(g[n], q[n + 1])
      BY ONLY <2>3, <3>1, n \in Nat
    <3> QED
      BY ONLY <3>2, <3>3, <3>5
  <2> HIDE DEF S
  <2>6. L \in S
    BY <2>4, <2>5, SetInduction
  <2>7. L <= L
    OBVIOUS
  <2> QED
    BY <2>6, <2>7 DEF S
<1>5. ASSUME NEW p \in Seq(K), NEW k \in K
      PROVE  /\ Came(Append(p, k), objects) = Change!Descend(Came(p, objects), k)
             /\ \A v : Change!Set(Append(p, k), v, objects) = SetLast(Came(p, objects), k, v)
  <2> DEFINE q == Append(p, k)
             L == Len(p)
  <2>1. /\ L \in Nat /\ Len(q) = L + 1 /\ Len(q) \in Nat /\ q[L + 1] = k
        /\ \A n \in 1..L : q[n] = p[n]
    BY AppendProperties, LenProperties
  <2> HIDE DEF q, L
  <2>2. PICK f : Way(f, p, objects, L) /\ Came(p, objects) = f[L]
    BY <1>2, <2>1 DEF L
  <2>3. PICK g : Way(g, q, objects, L + 1) /\ Came(q, objects) = g[L + 1]
    BY <1>2, <2>1
  <2>4. L + 1 \in Nat /\ L <= L + 1 /\ L + 1 <= L + 1 /\ L + 1 - 1 = L /\ L <= L
    BY ONLY <2>1
  <2>5. g[L] = f[L]
    <3>1. Way(f, p, objects, L) /\ Way(g, q, objects, L + 1)
      BY <2>2, <2>3
    <3> QED
      BY ONLY <1>4, <2>1, <2>4, <3>1
  <2>6. g[L + 1] = Change!Descend(g[L], q[L + 1])
    <3>1. \A n \in Nat : n + 1 <= L + 1 => g[n + 1] = Change!Descend(g[n], q[n + 1])
      BY <1>1, <2>3, <2>4
    <3> QED
      BY <2>1, <2>4, <3>1
  <2>7. Came(q, objects) = Change!Descend(Came(p, objects), k)
    BY <2>1, <2>2, <2>3, <2>5, <2>6
  <2> DEFINE l == Len(q) - 1
             h == CHOOSE w : Way(w, q, objects, l)
  <2>a. l = L /\ q[Len(q)] = k
    BY <2>1
  <2>9. \A v : Change!Set(q, v, objects) = SetLast(h[l], k, v)
    BY <2>a DEF Change!Set, Way, SetLast, Put
  <2> HIDE DEF l
  <2>8. Way(h, q, objects, L)
    BY <2>1, <2>a, WayExists
  <2> HIDE DEF h
  <2>10. h[L] = f[L]
    BY <1>4, <2>1, <2>2, <2>4, <2>8
  <2>11. h[l] = Came(p, objects)
    BY <2>2, <2>10, <2>a
  <2> QED
    BY <2>7, <2>9, <2>11 DEF q
<1> QED
  BY <1>3, <1>5 DEF start

\* What _set has made of the objects when it is after the fields of p: either
\* all of p leads to objects, those that were missing ready, or it stopped at
\* a plain value.
Reached(K, p, st, objects) ==
  /\ st = [objects |-> st.objects, at |-> st.at]
  /\ \/ /\ Change!IsTree(st.objects) /\ st.at = Change!Get(p, st.objects) /\ st.at.kind = "object"
        /\ \A q \in Seq(K) : Change!IsPrefix(q, p) =>
             /\ Change!Get(q, st.objects).kind = "object" /\ ~Change!Plain(Change!Get(q, objects))
        /\ \A q \in Seq(K) : ~Change!IsPrefix(q, p) =>
             Change!Get(q, st.objects) = Change!Get(q, objects)
     \/ /\ st.at.kind # "object"
        /\ \E q \in Seq(K) : Change!IsPrefix(q, p) /\ Change!Plain(Change!Get(q, objects))

\* An object that is ready, and what is written into one.
LEMMA Made ==
  ASSUME NEW objects, Change!IsTree(objects), NEW i \in 1..Len(objects), NEW k
  PROVE  /\ k \notin DOMAIN objects[i] =>
              LET ref == Change!Ref(Len(objects) + 1)
              IN  Wrote(objects, i, k, ref,
                    Append([objects EXCEPT ![i] = Change!Written(@, k, ref)], <<>>))
         /\ \A v : Change!Plain(v) =>
              Wrote(objects, i, k, v, Put(objects, i, k, v))
<1> DEFINE N == Len(objects)
           F(v) == [objects EXCEPT ![i] = Change!Written(@, k, v)]
<1>1. N \in Nat \ {0} /\ objects = [j \in 1..N |-> objects[j]] /\ i \in 1..N
  BY DEF Change!IsTree
<1> HIDE DEF N
<1>2. ASSUME NEW v
      PROVE  /\ F(v) = [j \in 1..N |-> F(v)[j]] /\ \A j \in 1..N : j # i => F(v)[j] = objects[j]
             /\ DOMAIN F(v)[i] = DOMAIN objects[i] \cup {k} /\ F(v)[i][k] = v
             /\ \A l \in DOMAIN objects[i] : l # k => F(v)[i][l] = objects[i][l]
  <2>1. F(v)[i] = Change!Written(objects[i], k, v)
    BY ONLY <1>1
  <2>2. F(v) = [j \in 1..N |-> F(v)[j]] /\ \A j \in 1..N : j # i => F(v)[j] = objects[j]
    BY ONLY <1>1
  <2> HIDE DEF F
  <2> QED
    BY <2>1, <2>2 DEF Change!Written
<1> HIDE DEF F
<1>3. ASSUME NEW v, Change!Plain(v)
      PROVE  Wrote(objects, i, k, v, F(v))
  <2>2. Len(F(v)) = N
    BY <1>1, <1>2, Lists
  <2> QED
    BY <1>1, <1>2, <1>3, <2>2 DEF Wrote, N
<1>4. ASSUME k \notin DOMAIN objects[i], NEW v, v = Change!Ref(N + 1)
      PROVE  Wrote(objects, i, k, v, Append(F(v), <<>>))
  <2> DEFINE f == F(v)
             g == Append(f, <<>>)
  <2>1. /\ f = [j \in 1..N |-> f[j]] /\ \A j \in 1..N : j # i => f[j] = objects[j]
        /\ DOMAIN f[i] = DOMAIN objects[i] \cup {k} /\ f[i][k] = v
        /\ \A l \in DOMAIN objects[i] : l # k => f[i][l] = objects[i][l]
    BY <1>2
  <2> HIDE DEF f
  <2>2. /\ Len(g) = N + 1 /\ g = [j \in 1..(N + 1) |-> g[j]]
        /\ g[N + 1] = <<>> /\ \A j \in 1..N : g[j] = f[j]
    BY <1>1, <2>1, Lists
  <2>3. DOMAIN g[N + 1] = {}
    BY <2>2
  <2> HIDE DEF g
  <2>4. Len(g) \in Nat
    BY <1>1, <2>2
  <2>5. Wrote(objects, i, k, v, g)
    BY <1>1, <1>4, <2>1, <2>2, <2>3, <2>4 DEF Wrote, N
  <2> QED
    BY <2>5 DEF f, g
<1> QED
  <2>1. \A v : F(v) = Put(objects, i, k, v)
    BY DEF F, Put
  <2>2. \A v : Change!Plain(v) => Wrote(objects, i, k, v, Put(objects, i, k, v))
    BY <1>3, <2>1
  <2> QED
    BY <1>4, <2>2 DEF N, F

LEMMA CameSound ==
  ASSUME NEW K, NEW objects, Change!IsTree(objects)
  PROVE  \A p \in Seq(K) : Reached(K, p, Came(p, objects), objects)
<1> DEFINE T == {p \in Seq(K) : Reached(K, p, Came(p, objects), objects)}
<1>1. <<>> \in T
  <2>1. Came(<<>>, objects) = [objects |-> objects, at |-> Change!Ref(1)]
    BY SetSteps
  <2>2. Change!Get(<<>>, objects) = Change!Ref(1) /\ Change!Ref(1).kind = "object"
        /\ ~Change!Plain(Change!Ref(1))
    BY GetSteps, Kinds
  <2>3. \A q \in Seq(K) : Change!IsPrefix(q, <<>>) => q = <<>>
    BY PrefixSteps
  <2> DEFINE st == Came(<<>>, objects)
  <2>4. /\ st.objects = objects /\ st.at = Change!Ref(1)
        /\ st = [objects |-> st.objects, at |-> st.at]
    BY <2>1
  <2> HIDE DEF st
  <2>5. Reached(K, <<>>, st, objects)
    BY <2>2, <2>3, <2>4 DEF Reached
  <2> QED
    BY <2>5, EmptySeq DEF st
<1>2. ASSUME NEW p \in Seq(K), NEW k \in K, p \in T
      PROVE  Append(p, k) \in T
  <2> DEFINE st == Came(p, objects)
             path == Append(p, k)
             next == Came(path, objects)
  <2>1. next = Change!Descend(st, k)
    BY SetSteps
  <2>2. /\ path \in Seq(K) /\ Change!IsPrefix(path, path)
        /\ \A q \in Seq(K) : Change!IsPrefix(q, p) => ~Change!IsPrefix(path, q)
        /\ \A q \in Seq(K) : Change!IsPrefix(q, path) <=> q = path \/ Change!IsPrefix(q, p)
    <3>1. path \in Seq(K) /\ \A q \in Seq(K) : Change!IsPrefix(q, p) => ~Change!IsPrefix(path, q)
      BY PathFacts
    <3>2. \A q \in Seq(K) : Change!IsPrefix(q, path) <=> q = path \/ Change!IsPrefix(q, p)
      BY PrefixSteps
    <3> HIDE DEF path
    <3>3. Change!IsPrefix(path, path)
      BY <3>1, PrefixSteps
    <3> QED
      BY <3>1, <3>2, <3>3
  <2>3. Reached(K, p, st, objects)
    BY <1>2
  <2>0. SUFFICES Reached(K, path, next, objects)
    BY <2>2
  <2>4. CASE st.at.kind # "object"
    <3>1. /\ next = [objects |-> next.objects, at |-> next.at]
          /\ next.at = Change!Field(st.at, k, st.objects)
      <4>1. st = [objects |-> st.objects, at |-> st.at]
        BY <2>3 DEF Reached
      <4>2. next = [st EXCEPT !.at = Change!Field(@, k, st.objects)]
        <5> HIDE DEF next, st, path
        <5> QED
          BY <2>1, <2>4 DEF Change!Descend
      <4> HIDE DEF next, st, path
      <4> QED
        BY ONLY <4>1, <4>2
    <3>2. next.at.kind # "object"
      <4>1. Change!Field(st.at, k, st.objects) = Change!Unknown
        BY <2>4, NoFields
      <4>2. Change!Unknown.kind # "object"
        BY Kinds
      <4> HIDE DEF next, st, path
      <4> QED
        BY ONLY <3>1, <4>1, <4>2
    <3> HIDE DEF next, st, path
    <3>3. PICK q \in Seq(K) : Change!IsPrefix(q, p) /\ Change!Plain(Change!Get(q, objects))
      BY <2>3, <2>4 DEF Reached
    <3> QED
      BY <2>2, <3>1, <3>2, <3>3 DEF Reached
  <2>5. CASE st.at.kind = "object"
    <3> DEFINE G(q) == Change!Get(q, st.objects)
               N == Len(st.objects)
               i == st.at.id
               here == G(path)
    <3>1. /\ Change!IsTree(st.objects) /\ st.at = G(p)
          /\ \A q \in Seq(K) : Change!IsPrefix(q, p) =>
               G(q).kind = "object" /\ ~Change!Plain(Change!Get(q, objects))
          /\ \A q \in Seq(K) : ~Change!IsPrefix(q, p) => G(q) = Change!Get(q, objects)
      <4> HIDE DEF st, next, path
      <4> QED
        BY <2>3, <2>5 DEF Reached
    <3>2. /\ here = Change!Field(st.at, k, st.objects)
          /\ i \in 1..N /\ st.at = Change!Ref(i)
          /\ \/ here = Change!Unknown /\ k \notin DOMAIN st.objects[i]
             \/ k \in DOMAIN st.objects[i] /\ Change!Plain(here)
             \/ k \in DOMAIN st.objects[i] /\ here = Change!Ref(here.id)
      BY <2>5, <3>1, GetNext
    <3>3. ~Change!IsPrefix(path, p)
      BY <2>2, PrefixSteps
    <3>4. here = Change!Get(path, objects)
      BY <2>2, <3>1, <3>3
    <3>5. CASE k \notin DOMAIN st.objects[i]
      <4> DEFINE ref == Change!Ref(N + 1)
                 ready == Append([st.objects EXCEPT ![i] = Change!Written(@, k, ref)], <<>>)
      <4>1. next = [objects |-> ready, at |-> ref]
        <5> HIDE DEF next, path, st
        <5> QED
          BY <2>1, <2>5, <3>5 DEF Change!Descend
      <4>a. /\ next.objects = ready /\ next.at = ref
            /\ next = [objects |-> next.objects, at |-> next.at]
        BY <4>1
      <4>2. Wrote(st.objects, i, k, ref, ready)
        BY <3>1, <3>2, <3>5, Made
      <4> HIDE DEF ready
      <4>3. Change!IsTree(ready)
        BY <3>1, <3>2, <4>2, WroteTree
      <4>4. \A q \in Seq(K) :
              Change!Get(q, ready) = IF q = path THEN ref
                                    ELSE IF Change!IsPrefix(path, q) THEN Change!Unknown ELSE G(q)
        BY <3>1, <3>2, <4>2, WroteGet
      <4>5. here = Change!Unknown
        <5>1. ~(k \in DOMAIN st.objects[i])
          BY <3>5
        <5> QED
          BY ONLY <3>2, <5>1
      <4>6. ref.kind = "object" /\ ~Change!Plain(Change!Unknown) /\ Change!Unknown.kind # "object"
        BY Kinds
      <4> HIDE DEF ref, here
      <4>7. \A q \in Seq(K) : Change!IsPrefix(q, path) =>
              Change!Get(q, ready).kind = "object" /\ ~Change!Plain(Change!Get(q, objects))
        <5> HIDE DEF path, st, next
        <5> QED
          BY ONLY <2>2, <3>1, <3>4, <4>4, <4>5, <4>6
      <4>8. \A q \in Seq(K) : Change!IsPrefix(path, q) /\ q # path =>
              Change!Get(q, st.objects) = Change!Unknown
        <5>1. Change!Get(path, st.objects).kind # "object"
          BY <4>5, <4>6 DEF here
        <5> HIDE DEF path, st
        <5> QED
          BY <2>2, <5>1, NoneBelow
      <4>9. \A q \in Seq(K) : ~Change!IsPrefix(q, path) =>
              Change!Get(q, ready) = Change!Get(q, objects)
        <5> HIDE DEF path, st, next
        <5> QED
          BY ONLY <2>2, <3>1, <4>4, <4>8
      <4>10. Change!Get(path, ready) = ref
        BY <2>2, <4>4
      <4> HIDE DEF path, next, st
      <4> QED
        BY <4>a, <4>3, <4>6, <4>7, <4>9, <4>10 DEF Reached
    <3>6. CASE k \in DOMAIN st.objects[i]
      <4>1. next = [st EXCEPT !.at = Change!Field(@, k, st.objects)]
        <5> HIDE DEF next, st, path
        <5> QED
          BY <2>1, <3>6 DEF Change!Descend
      <4>2. st = [objects |-> st.objects, at |-> st.at]
        BY <2>3 DEF Reached
      <4>3. /\ next = [objects |-> next.objects, at |-> next.at]
            /\ next.at = here /\ next.objects = st.objects
        <5> HIDE DEF here, next, st, path
        <5> QED
          BY ONLY <3>2, <4>1, <4>2
      <4>4. Change!Ref(here.id).kind = "object" /\ ~Change!Plain(Change!Ref(here.id))
        BY Kinds
      <4>5. CASE Change!Plain(here)
        <5>1. here.kind # "object"
          BY <4>5 DEF Change!Plain
        <5>2. Change!IsPrefix(path, path) /\ Change!Plain(Change!Get(path, objects))
          BY <2>2, <3>4, <4>5
        <5> HIDE DEF here, path, next, st
        <5> QED
          BY <2>2, <4>3, <5>1, <5>2 DEF Reached
      <4>6. CASE ~Change!Plain(here)
        <5>1. here.kind = "object"
          <6> HIDE DEF here, path, st
          <6> QED
            BY ONLY <3>2, <3>6, <4>4, <4>6
        <5>2. \A q \in Seq(K) : Change!IsPrefix(q, path) =>
                Change!Get(q, st.objects).kind = "object" /\ ~Change!Plain(Change!Get(q, objects))
          <6> HIDE DEF path, st
          <6> QED
            BY ONLY <2>2, <3>1, <3>4, <4>6, <5>1 DEF here
        <5>3. \A q \in Seq(K) : ~Change!IsPrefix(q, path) =>
                Change!Get(q, st.objects) = Change!Get(q, objects)
          BY <2>2, <3>1
        <5>4. here = Change!Get(path, st.objects)
          OBVIOUS
        <5> HIDE DEF here, path, next, st
        <5> QED
          BY <3>1, <4>3, <5>1, <5>2, <5>3, <5>4 DEF Reached
      <4> QED
        BY <4>5, <4>6
    <3> QED
      BY <3>5, <3>6
  <2> QED
    BY <2>4, <2>5
<1> HIDE DEF T
<1>3. Seq(K) \subseteq T
  BY <1>1, <1>2, PathInduction
<1> QED
  BY <1>3 DEF T

\* What _set does to what the paths lead to.
LEMMA SetSound ==
  ASSUME NEW K, NEW objects, Change!IsTree(objects), NEW p \in Seq(K), NEW k \in K,
         NEW v, Change!Plain(v), NEW after, after = Change!Set(Append(p, k), v, objects)
  PROVE  \/ /\ after = <<>>
            /\ \E q \in Seq(K) : Change!IsPrefix(q, p) /\ Change!Plain(Change!Get(q, objects))
         \/ /\ Change!IsTree(after)
            /\ Change!Get(Append(p, k), after) = v
            /\ \A q \in Seq(K) : Change!IsPrefix(Append(p, k), q) /\ q # Append(p, k) =>
                 Change!Get(q, after) = Change!Unknown
            /\ \A q \in Seq(K) : Change!IsPrefix(q, p) =>
                 Change!Get(q, after).kind = "object" /\ ~Change!Plain(Change!Get(q, objects))
            /\ \A q \in Seq(K) : ~Change!IsPrefix(Append(p, k), q) /\ ~Change!IsPrefix(q, p) =>
                 Change!Get(q, after) = Change!Get(q, objects)
<1> DEFINE st == Came(p, objects)
           path == Append(p, k)
<1>1. after = SetLast(st, k, v)
  BY SetSteps
<1>2. Reached(K, p, st, objects)
  BY CameSound
<1>3. CASE st.at.kind # "object"
  <2> HIDE DEF st, path
  <2>1. after = <<>>
    BY <1>1, <1>3 DEF SetLast
  <2> QED
    BY <1>2, <1>3, <2>1 DEF Reached
<1>4. CASE st.at.kind = "object"
  <2> DEFINE G(q) == Change!Get(q, st.objects)
             i == st.at.id
  <2>1. /\ Change!IsTree(st.objects) /\ st.at = G(p)
        /\ \A q \in Seq(K) : Change!IsPrefix(q, p) =>
             G(q).kind = "object" /\ ~Change!Plain(Change!Get(q, objects))
        /\ \A q \in Seq(K) : ~Change!IsPrefix(q, p) => G(q) = Change!Get(q, objects)
    <3> HIDE DEF st, path
    <3> QED
      BY <1>2, <1>4 DEF Reached
  <2>2. i \in 1..Len(st.objects) /\ st.at = Change!Ref(i)
    BY <1>4, <2>1, GetNext
  <2>3. after = Put(st.objects, i, k, v)
    <3> HIDE DEF st
    <3> QED
      BY <1>1, <1>4 DEF SetLast
  <2>4. Wrote(st.objects, i, k, v, after)
    <3>1. Wrote(st.objects, i, k, v, Put(st.objects, i, k, v))
      BY <2>1, <2>2, Made
    <3> QED
      BY <2>3, <3>1
  <2>5. Change!IsTree(after)
    BY <2>1, <2>2, <2>4, WroteTree
  <2>6. \A q \in Seq(K) :
          Change!Get(q, after) = IF q = path THEN v
                                 ELSE IF Change!IsPrefix(path, q) THEN Change!Unknown ELSE G(q)
    BY <2>1, <2>2, <2>4, WroteGet
  <2>7. /\ path \in Seq(K)
        /\ \A q \in Seq(K) : Change!IsPrefix(q, p) => ~Change!IsPrefix(path, q)
    BY PathFacts
  <2>8. Change!IsPrefix(path, path)
    BY <2>7, PrefixSteps
  <2> HIDE DEF st
  <2>9. Change!Get(path, after) = v
    BY <2>6, <2>7
  <2>10. \A q \in Seq(K) : Change!IsPrefix(path, q) /\ q # path =>
           Change!Get(q, after) = Change!Unknown
    BY <2>6
  <2>11. \A q \in Seq(K) : Change!IsPrefix(q, p) =>
           Change!Get(q, after).kind = "object" /\ ~Change!Plain(Change!Get(q, objects))
    <3> HIDE DEF path
    <3> QED
      BY ONLY <2>1, <2>6, <2>7, <2>8
  <2>12. \A q \in Seq(K) : ~Change!IsPrefix(path, q) /\ ~Change!IsPrefix(q, p) =>
           Change!Get(q, after) = Change!Get(q, objects)
    <3> HIDE DEF path
    <3> QED
      BY ONLY <2>1, <2>6, <2>7, <2>8
  <2> QED
    BY <2>5, <2>9, <2>10, <2>11, <2>12
<1> QED
  BY <1>3, <1>4

\* The paths that are looked at.
LEMMA PathsSound ==
  ASSUME MaxDepth \in Nat
  PROVE  /\ Change!Paths \subseteq Seq(Fields) /\ <<>> \in Change!Paths
         /\ \A p \in Seq(Fields), q \in Change!Paths : Change!IsPrefix(p, q) => p \in Change!Paths
<1>1. Change!Paths = UNION {[1..m -> Fields] : m \in 0..MaxDepth}
  BY DEF Change!Paths, Change!SeqOf
<1>2. ASSUME NEW p \in Change!Paths
      PROVE  p \in Seq(Fields) /\ Len(p) <= MaxDepth
  <2>1. PICK m \in 0..MaxDepth : p \in [1..m -> Fields]
    BY <1>1
  <2>2. m \in Nat /\ m <= MaxDepth
    BY ONLY <2>1, MaxDepth \in Nat
  <2>3. p \in Seq(Fields)
    BY <2>1, <2>2, SeqDef
  <2>4. p = [j \in 1..m |-> p[j]]
    BY <2>1
  <2>5. Len(p) = m
    BY <2>2, <2>4, Lists
  <2> QED
    BY <2>2, <2>3, <2>5
<1>3. ASSUME NEW p \in Seq(Fields), Len(p) <= MaxDepth
      PROVE  p \in Change!Paths
  <2>1. Len(p) \in Nat /\ p \in [1..Len(p) -> Fields]
    BY LenProperties
  <2>2. Len(p) \in 0..MaxDepth
    BY ONLY <1>3, <2>1, MaxDepth \in Nat
  <2> QED
    BY <1>1, <2>1, <2>2
<1>4. <<>> \in Change!Paths
  <2>1. <<>> \in Seq(Fields) /\ Len(<<>>) = 0
    BY EmptySeq
  <2>2. 0 <= MaxDepth
    OBVIOUS
  <2> QED
    BY <1>3, <2>1, <2>2
<1>5. ASSUME NEW p \in Seq(Fields), NEW q \in Change!Paths, Change!IsPrefix(p, q)
      PROVE  p \in Change!Paths
  <2>1. q \in Seq(Fields) /\ Len(q) <= MaxDepth
    BY <1>2
  <2>2. Len(p) <= Len(q)
    BY <1>5, <2>1, PrefixSteps
  <2>3. Len(p) \in Nat /\ Len(q) \in Nat
    BY <2>1, LenProperties
  <2>4. Len(p) <= MaxDepth
    BY ONLY <2>1, <2>2, <2>3, MaxDepth \in Nat
  <2> QED
    BY <1>3, <2>4
<1> QED
  BY <1>2, <1>4, <1>5

\* What is left of a path after a prefix of it.
LEMMA Rest ==
  ASSUME NEW K, NEW p \in Seq(K), NEW q \in Seq(K), Change!IsPrefix(p, q)
  PROVE  SubSeq(q, Len(p) + 1, Len(q)) = <<>> <=> q = p
<1> DEFINE m == Len(p)
           n == Len(q)
           r == SubSeq(q, m + 1, n)
<1>1. m \in Nat /\ n \in Nat /\ m <= n
  BY PrefixSteps, LenProperties
<1>2. \A i \in 1..n : q[i] \in K
  BY ElementOfSeq
<1> HIDE DEF m, n
<1>3. m + 1 \in Int /\ n \in Int /\ (\A i \in (m + 1)..n : i \in 1..n)
  BY ONLY <1>1
<1>4. \A i \in (m + 1)..n : q[i] \in K
  BY ONLY <1>2, <1>3
<1>5. r \in Seq(K) /\ Len(r) = IF m + 1 <= n THEN n - (m + 1) + 1 ELSE 0
  BY ONLY <1>3, <1>4, SubSeqProperties
<1> HIDE DEF r
<1>6. r = <<>> <=> Len(r) = 0
  BY <1>5, EmptySeq
<1>7. Len(r) = 0 <=> n = m
  BY ONLY <1>1, <1>5
<1>8. n = m => q = p
  BY PrefixSteps DEF m, n
<1> QED
  BY <1>6, <1>7, <1>8 DEF r, m, n

\* What a tree says of a value.
Shown(value) == [kind |-> value.kind, v |-> value.v]
Leaf(value) == [q \in {<<>>} |-> Shown(value)]

\* The tree of a message has the root, so it is not the one of a failed message.
LEMMA TreeSound ==
  ASSUME MaxDepth \in Nat, NEW objects
  PROVE  /\ Change!TreeOf(objects) # Change!Nothing
         /\ DOMAIN Change!TreeOf(objects) =
              {q \in Change!Paths : Change!Get(q, objects) # Change!Unknown}
         /\ \A q \in DOMAIN Change!TreeOf(objects) :
              Change!TreeOf(objects)[q] = Shown(Change!Get(q, objects))
<1>1. /\ DOMAIN Change!TreeOf(objects) =
           {q \in Change!Paths : Change!Get(q, objects) # Change!Unknown}
      /\ \A q \in DOMAIN Change!TreeOf(objects) :
           Change!TreeOf(objects)[q] = Shown(Change!Get(q, objects))
  BY DEF Change!TreeOf, Shown
<1>2. Change!Get(<<>>, objects) = Change!Ref(1)
  BY GetSteps
<1>3. <<>> \in DOMAIN Change!TreeOf(objects)
  BY <1>1, <1>2, PathsSound, Kinds
<1>4. DOMAIN Change!Nothing = {}
  BY DEF Change!Nothing
<1> QED
  BY <1>1, <1>3, <1>4

\* The tree after a plain value was set is the one before with that value
\* grafted into it.
LEMMA GraftSound ==
  ASSUME MaxDepth \in Nat, NEW objects, Change!IsTree(objects),
         NEW p \in Seq(Fields), NEW k \in Fields, Append(p, k) \in Change!Paths,
         NEW v, Change!Plain(v), NEW after, after = Change!Set(Append(p, k), v, objects),
         after # <<>>
  PROVE  Change!TreeOf(after) =
           Change!Grafted(Change!TreeOf(objects), Append(p, k), Leaf(v))
<1> DEFINE path == Append(p, k)
           tree == Change!TreeOf(objects)
           sub == Leaf(v)
           P == Change!Paths
           g(q) == Change!Get(q, objects)
           h(q) == Change!Get(q, after)
           rest(q) == SubSeq(q, Len(path) + 1, Len(q))
           D == (DOMAIN tree \ Change!Below(path, tree))
                  \cup {r \in P : Change!IsStrictPrefix(r, path)}
                  \cup {r \in P : Change!IsPrefix(path, r) /\ rest(r) \in DOMAIN sub}
           E(q) == IF Change!IsPrefix(path, q) THEN sub[rest(q)]
                   ELSE IF q \in DOMAIN tree THEN tree[q] ELSE Change!Inner
<1>1. /\ h(path) = v
      /\ \A q \in Seq(Fields) : Change!IsPrefix(path, q) /\ q # path => h(q) = Change!Unknown
      /\ \A q \in Seq(Fields) : Change!IsPrefix(q, p) =>
           h(q).kind = "object" /\ ~Change!Plain(g(q))
      /\ \A q \in Seq(Fields) : ~Change!IsPrefix(path, q) /\ ~Change!IsPrefix(q, p) => h(q) = g(q)
      /\ Change!IsTree(after)
  BY SetSound
<1>2. /\ path \in Seq(Fields) /\ P \subseteq Seq(Fields) /\ path \in P
      /\ \A q \in Seq(Fields) : Change!IsPrefix(q, p) => q \in P
  <2>1. path \in Seq(Fields)
    BY PathFacts
  <2>2. \A q \in Seq(Fields) : Change!IsPrefix(q, p) => Change!IsPrefix(q, path)
    BY PrefixSteps
  <2> QED
    BY <2>1, <2>2, PathsSound
<1>3. /\ Change!IsPrefix(path, path)
      /\ \A q \in Seq(Fields) : Change!IsStrictPrefix(q, path) <=> Change!IsPrefix(q, p)
      /\ \A q \in Seq(Fields) : Change!IsPrefix(q, p) => ~Change!IsPrefix(path, q)
  <2>1. \A q \in Seq(Fields) : Change!IsPrefix(q, p) => ~Change!IsPrefix(path, q)
    BY PathFacts
  <2>2. \A q \in Seq(Fields) : Change!IsPrefix(q, path) <=> q = path \/ Change!IsPrefix(q, p)
    BY PrefixSteps
  <2> HIDE DEF path
  <2>3. Change!IsPrefix(path, path)
    BY <1>2, PrefixSteps
  <2> QED
    BY <2>1, <2>2, <2>3 DEF Change!IsStrictPrefix
<1>4. \A q \in Seq(Fields) : Change!IsPrefix(path, q) => (rest(q) = <<>> <=> q = path)
  <2> HIDE DEF path
  <2> QED
    BY <1>2, Rest
<1>5. /\ DOMAIN tree = {q \in P : g(q) # Change!Unknown}
      /\ \A q \in DOMAIN tree : tree[q] = Shown(g(q))
  BY TreeSound
<1>6. /\ v # Change!Unknown
      /\ \A q \in Seq(Fields) : Change!IsPrefix(q, p) =>
           /\ h(q) # Change!Unknown /\ Shown(h(q)) = Change!Inner
           /\ g(q) = Change!Unknown \/ Shown(g(q)) = Change!Inner
  <2>1. v # Change!Unknown
    BY Kinds
  <2>2. \A i : Shown(Change!Ref(i)) = Change!Inner
    BY Kinds DEF Shown, Change!Inner
  <2>3. ASSUME NEW q \in Seq(Fields), Change!IsPrefix(q, p)
        PROVE  /\ h(q) # Change!Unknown /\ Shown(h(q)) = Change!Inner
               /\ g(q) = Change!Unknown \/ Shown(g(q)) = Change!Inner
    <3>1. Leads(q, after)
      BY <1>1, GetSound
    <3>2. Leads(q, objects)
      BY GetSound
    <3>3. h(q).kind = "object" /\ ~Change!Plain(g(q))
      BY <1>1, <2>3
    <3>4. \E i : h(q) = Change!Ref(i)
      BY <3>1, <3>3, Kinds DEF Leads, Change!Plain
    <3>5. g(q) = Change!Unknown \/ \E i : g(q) = Change!Ref(i)
      BY <3>2, <3>3 DEF Leads
    <3> QED
      BY <2>2, <3>4, <3>5, Kinds
  <2> QED
    BY <2>1, <2>3
<1>7. DOMAIN sub = {<<>>} /\ sub[<<>>] = Shown(v)
  BY DEF Leaf
<1>8. Change!Below(path, tree) = {q \in DOMAIN tree : Change!IsPrefix(path, q)}
  BY DEF Change!Below
<1> HIDE DEF path, tree, sub, P, g, h, rest
<1>9. D = {q \in P : h(q) # Change!Unknown}
  <2>1. ASSUME NEW q \in P
        PROVE  q \in D <=> h(q) # Change!Unknown
    <3>1. q \in Seq(Fields)
      BY <1>2
    <3>2. CASE Change!IsPrefix(path, q)
      <4>1. ~Change!IsStrictPrefix(q, path)
        BY <1>3, <3>1, <3>2
      <4>2. q \in D <=> q = path
        BY <1>4, <1>7, <1>8, <3>1, <3>2, <4>1
      <4> QED
        BY <1>1, <1>6, <3>1, <3>2, <4>2
    <3>3. CASE Change!IsPrefix(q, p)
      <4>1. Change!IsStrictPrefix(q, path)
        BY <1>3, <3>1, <3>3
      <4> QED
        BY <1>6, <3>1, <3>3, <4>1
    <3>4. CASE ~Change!IsPrefix(path, q) /\ ~Change!IsPrefix(q, p)
      <4>1. ~Change!IsStrictPrefix(q, path) /\ h(q) = g(q)
        BY <1>1, <1>3, <3>1, <3>4
      <4> QED
        BY <1>5, <1>8, <3>4, <4>1
    <3> QED
      BY <3>2, <3>3, <3>4
  <2>2. D \subseteq P
    BY <1>5
  <2> HIDE DEF D
  <2> QED
    BY <2>1, <2>2
<1>10. ASSUME NEW q \in P, h(q) # Change!Unknown
       PROVE  E(q) = Shown(h(q))
  <2>1. q \in Seq(Fields)
    BY <1>2
  <2>2. CASE Change!IsPrefix(path, q)
    <3>1. q = path
      BY <1>1, <1>10, <2>1, <2>2
    <3>2. E(q) = Shown(v)
      BY <1>4, <1>7, <2>1, <2>2, <3>1
    <3> QED
      BY <1>1, <3>1, <3>2
  <2>3. CASE Change!IsPrefix(q, p)
    <3>1. ~Change!IsPrefix(path, q)
      BY <1>3, <2>1, <2>3
    <3>2. E(q) = Change!Inner
      BY <1>5, <1>6, <2>1, <2>3, <3>1
    <3> QED
      BY <1>6, <2>1, <2>3, <3>2
  <2>4. CASE ~Change!IsPrefix(path, q) /\ ~Change!IsPrefix(q, p)
    <3>1. h(q) = g(q)
      BY <1>1, <2>1, <2>4
    <3>2. q \in DOMAIN tree
      BY <1>5, <1>10, <3>1
    <3> QED
      BY <1>5, <2>4, <3>1, <3>2
  <2> QED
    BY <2>2, <2>3, <2>4
<1>11. Change!Grafted(tree, path, sub) = [q \in D |-> E(q)]
  BY DEF Change!Grafted, rest, P
<1>12. Change!TreeOf(after) = [q \in {r \in P : h(r) # Change!Unknown} |-> Shown(h(q))]
  BY DEF Change!TreeOf, Shown, h, P
<1> HIDE DEF D, E
<1>13. Change!TreeOf(after) = [q \in D |-> E(q)]
  BY <1>9, <1>10, <1>12
<1> QED
  BY <1>11, <1>13 DEF tree, path, sub

\* What a plain value's own tree is.
LEMMA PlainSubTree ==
  ASSUME MaxDepth \in Nat, NEW objects, NEW to \in Change!Paths,
         Change!Plain(Change!Get(to, objects))
  PROVE  Change!SubTree(Change!TreeOf(objects), to) =
           Leaf(Change!Get(to, objects))
<1> DEFINE tree == Change!TreeOf(objects)
           value == Change!Get(to, objects)
           D == {r \in Change!Paths : to \o r \in DOMAIN tree}
<1>0. Change!Paths \subseteq Seq(Fields) /\ <<>> \in Change!Paths
  BY PathsSound
<1>1. /\ DOMAIN tree = {q \in Change!Paths : Change!Get(q, objects) # Change!Unknown}
      /\ \A q \in DOMAIN tree : tree[q] = Shown(Change!Get(q, objects))
  BY TreeSound
<1>2. to \in Seq(Fields) /\ to \o <<>> = to
  BY <1>0, ConcatEmptySeq
<1>3. value # Change!Unknown /\ value.kind # "object"
  BY Kinds DEF Change!Plain
<1>4. <<>> \in D /\ tree[to \o <<>>] = Shown(value)
  BY <1>0, <1>1, <1>2, <1>3
<1>5. ASSUME NEW r \in D
      PROVE  r = <<>>
  <2>1. r \in Seq(Fields)
    BY <1>0
  <2>2. /\ to \o r \in Seq(Fields) /\ Len(to \o r) = Len(to) + Len(r)
        /\ \A i \in 1..(Len(to) + Len(r)) :
             (to \o r)[i] = IF i <= Len(to) THEN to[i] ELSE r[i - Len(to)]
        /\ Len(to) \in Nat /\ Len(r) \in Nat
    BY <1>2, <2>1, ConcatProperties, LenProperties
  <2> DEFINE w == to \o r
  <2> HIDE DEF w
  <2>3. /\ w \in Seq(Fields) /\ Len(w) = Len(to) + Len(r)
        /\ \A i \in 1..(Len(to) + Len(r)) : w[i] = IF i <= Len(to) THEN to[i] ELSE r[i - Len(to)]
    BY <2>2 DEF w
  <2>4. Len(to) <= Len(w) /\ \A i \in 1..Len(to) : to[i] = w[i]
    <3>1. \A i \in 1..Len(to) : i \in 1..(Len(to) + Len(r)) /\ i <= Len(to)
      BY ONLY <2>2
    <3> QED
      BY ONLY <2>2, <2>3, <3>1
  <2>5. Change!IsPrefix(to, w)
    BY <1>2, <2>3, <2>4, PrefixSteps
  <2>6. Change!Get(w, objects) # Change!Unknown
    BY <1>1 DEF w
  <2>7. w = to
    BY <1>2, <1>3, <2>3, <2>5, <2>6, NoneBelow
  <2>8. Len(r) = 0
    BY ONLY <2>2, <2>3, <2>7
  <2> QED
    BY <2>1, <2>8, EmptySeq
<1>6. Change!SubTree(tree, to) = [q \in D |-> tree[to \o q]]
  BY DEF Change!SubTree
<1> HIDE DEF tree, value, D
<1>7. D = {<<>>}
  BY <1>4, <1>5
<1> QED
  BY <1>4, <1>6, <1>7 DEF tree, value, Leaf

\* One rule does to the message what it says to the tree.
LEMMA SaidSound ==
  ASSUME MaxDepth \in Nat, NEW objects, Change!IsTree(objects), NEW rule, Change!IsRule(rule),
         ~(rule.t = "set" /\ rule.tot = "msg" /\ Change!Get(rule.to, objects).kind = "object"),
         NEW after, after = Change!TryRule(objects, rule),
         NEW tree, tree = Change!Said(Change!TreeOf(objects), rule)
  PROVE  \/ after = <<>> /\ tree = Change!Nothing
         \/ Change!IsTree(after) /\ tree = Change!TreeOf(after)
<1> DEFINE before == Change!TreeOf(objects)
           value == Change!RuleValue(rule, objects)
           Blocked ==
             \E q \in DOMAIN before : Change!IsStrictPrefix(q, rule.p) /\ before[q] # Change!Inner
<1>1. objects # <<>> /\ before # Change!Nothing
  <2>1. Len(objects) # 0
    BY DEF Change!IsTree
  <2>2. objects # <<>>
    BY <2>1
  <2>3. before # Change!Nothing
    BY TreeSound
  <2> QED
    BY <2>2, <2>3
<1>2. CASE rule.t # "set"
  BY <1>1, <1>2 DEF Change!TryRule, Change!Applies, Change!Said
<1>3. CASE rule.t = "set"
  <2>1. /\ rule.p \in Change!Paths /\ rule.p # <<>>
        /\ IF rule.tot = "msg" THEN rule.to \in Change!Paths ELSE rule.to.kind \in {"str", "num", "bool"}
    BY <1>3 DEF Change!IsRule
  <2>2. Change!Paths \subseteq Seq(Fields)
    BY PathsSound
  <2>3. PICK p \in Seq(Fields), k \in Fields : rule.p = Append(p, k)
    BY <2>1, <2>2, SequenceEmptyOrAppend
  <2>4. /\ DOMAIN before = {q \in Change!Paths : Change!Get(q, objects) # Change!Unknown}
        /\ \A q \in DOMAIN before : before[q] = Shown(Change!Get(q, objects))
    BY TreeSound
  <2>5. after = IF value = Change!Unknown THEN <<>> ELSE Change!Set(rule.p, value, objects)
    BY <1>1, <1>3 DEF Change!TryRule, Change!Applies
  <2> DEFINE sub == IF rule.tot = "msg" THEN Change!SubTree(before, rule.to)
                    ELSE [q \in {<<>>} |-> [kind |-> Change!Literal(rule).kind, v |-> Change!Literal(rule).v]]
             Bad == \/ rule.tot # "msg" /\ ~Change!Legible(rule)
                    \/ rule.tot = "msg" /\ rule.to \notin DOMAIN before
  <2>6. tree = IF Bad \/ Blocked THEN Change!Nothing ELSE Change!Grafted(before, rule.p, sub)
    BY <1>1, <1>3 DEF Change!Said
  <2>0. Change!Legible(rule) => rule.tot # "msg"
    BY DEF Change!Legible
  <2>7. value = IF Change!Legible(rule) THEN Change!Literal(rule)
                ELSE IF rule.tot = "msg" THEN Change!Get(rule.to, objects) ELSE Change!Unknown
    <3>1. CASE Change!Legible(rule)
      BY <2>0, <3>1, Zenon DEF Change!RuleValue
    <3>2. CASE ~Change!Legible(rule) /\ rule.tot = "msg"
      BY <3>2, Zenon DEF Change!RuleValue
    <3>3. CASE ~Change!Legible(rule) /\ rule.tot # "msg"
      BY <3>3, Zenon DEF Change!RuleValue
    <3> QED
      BY <3>1, <3>2, <3>3, Zenon
  <2> HIDE DEF value, before
  <2>8. /\ value = Change!Unknown <=> Bad
        /\ ~Bad => Change!Plain(value) /\ sub = Leaf(value)
    <3>1. CASE Change!Legible(rule)
      <4>1. value = Change!Literal(rule) /\ ~Bad /\ rule.tot # "msg"
        BY <2>0, <2>7, <3>1
      <4>2. value.kind \in {"str", "num", "bool"}
        BY <2>1, <3>1, <4>1 DEF Change!Literal, Change!Legible, Change!Atom
      <4>3. Change!Plain(value)
        BY <4>2 DEF Change!Plain
      <4>4. sub = Leaf(value)
        BY <4>1, <4>2 DEF Leaf, Shown
      <4> HIDE DEF Bad
      <4> QED
        BY <4>1, <4>3, <4>4, Kinds
    <3>2. CASE rule.tot = "msg"
      <4>1. value = Change!Get(rule.to, objects) /\ rule.to \in Change!Paths /\ value.kind # "object"
        BY <1>3, <2>0, <2>1, <2>7, <3>2
      <4>2. Leads(rule.to, objects)
        BY <2>2, <4>1, GetSound
      <4>3. value = Change!Unknown \/ Change!Plain(value)
        BY <4>1, <4>2, Kinds DEF Leads
      <4>4. Bad <=> value = Change!Unknown
        BY <2>4, <3>2, <4>1
      <4> HIDE DEF Bad
      <4>5. Change!Plain(value) => Change!SubTree(before, rule.to) = Leaf(value)
        BY <4>1, PlainSubTree DEF before
      <4> QED
        BY <3>2, <4>3, <4>4, <4>5
    <3>3. CASE ~Change!Legible(rule) /\ rule.tot # "msg"
      BY <2>7, <3>3
    <3> QED
      BY <3>1, <3>2, <3>3
  <2> HIDE DEF Bad, sub
  <2>9. CASE Bad
    BY <2>5, <2>6, <2>8, <2>9
  <2>10. CASE ~Bad
    <3>1. after = Change!Set(rule.p, value, objects) /\ Change!Plain(value)
      BY <2>5, <2>8, <2>10
    <3>2. \/ /\ after = <<>>
             /\ \E q \in Seq(Fields) : Change!IsPrefix(q, p) /\ Change!Plain(Change!Get(q, objects))
          \/ /\ Change!IsTree(after)
             /\ \A q \in Seq(Fields) : Change!IsPrefix(q, p) => ~Change!Plain(Change!Get(q, objects))
      BY <2>3, <3>1, SetSound
    <3>3. Blocked <=>
            \E q \in Seq(Fields) : Change!IsPrefix(q, p) /\ Change!Plain(Change!Get(q, objects))
      <4>1. \A q \in Seq(Fields) : Change!IsStrictPrefix(q, rule.p) <=> Change!IsPrefix(q, p)
        <5>1. Change!IsPrefix(rule.p, rule.p)
          BY <2>1, <2>2, PrefixSteps
        <5>2. \A q \in Seq(Fields) : Change!IsPrefix(q, p) => ~Change!IsPrefix(rule.p, q)
          BY <2>3, PathFacts
        <5>3. \A q \in Seq(Fields) : Change!IsPrefix(q, rule.p) <=> q = rule.p \/ Change!IsPrefix(q, p)
          BY <2>3, PrefixSteps
        <5> QED
          BY <5>1, <5>2, <5>3 DEF Change!IsStrictPrefix
      <4>2. \A q \in Seq(Fields) : Change!IsPrefix(q, p) => q \in Change!Paths
        <5>1. \A q \in Seq(Fields) : Change!IsPrefix(q, p) => Change!IsPrefix(q, rule.p)
          BY <2>3, PrefixSteps
        <5> QED
          BY <2>1, <5>1, PathsSound
      <4>3. ASSUME NEW q \in Seq(Fields), Change!Get(q, objects) # Change!Unknown
            PROVE  Shown(Change!Get(q, objects)) # Change!Inner <=> Change!Plain(Change!Get(q, objects))
        <5>1. Leads(q, objects)
          BY GetSound
        <5>2. \A i : Shown(Change!Ref(i)) = Change!Inner
          BY Kinds DEF Shown, Change!Inner
        <5>3. ASSUME Change!Plain(Change!Get(q, objects))
              PROVE  Shown(Change!Get(q, objects)) # Change!Inner
          BY <5>3 DEF Change!Plain, Shown, Change!Inner
        <5> QED
          BY <4>3, <5>1, <5>2, <5>3 DEF Leads
      <4>4. ~Change!Plain(Change!Unknown)
        BY Kinds
      <4>5. ASSUME NEW q \in DOMAIN before, Change!IsStrictPrefix(q, rule.p), before[q] # Change!Inner
            PROVE  q \in Seq(Fields) /\ Change!IsPrefix(q, p) /\ Change!Plain(Change!Get(q, objects))
        BY <2>2, <2>4, <4>1, <4>3, <4>5
      <4>6. ASSUME NEW q \in Seq(Fields), Change!IsPrefix(q, p), Change!Plain(Change!Get(q, objects))
            PROVE  q \in DOMAIN before /\ Change!IsStrictPrefix(q, rule.p) /\ before[q] # Change!Inner
        BY <2>4, <4>1, <4>2, <4>3, <4>4, <4>6
      <4> QED
        BY <4>5, <4>6
    <3> HIDE DEF Blocked
    <3>4. CASE Blocked
      <4>1. after = <<>>
        BY <3>2, <3>3, <3>4
      <4> QED
        BY <2>6, <3>4, <4>1
    <3>5. CASE ~Blocked
      <4>1. Change!IsTree(after)
        BY <3>2, <3>3, <3>5
      <4>2. after # <<>>
        <5>1. Len(after) # 0
          BY <4>1 DEF Change!IsTree
        <5> QED
          BY <5>1
      <4>3. Change!TreeOf(after) = Change!Grafted(before, rule.p, Leaf(value))
        <5>1. Append(p, k) \in Change!Paths /\ after = Change!Set(Append(p, k), value, objects)
          BY <2>1, <2>3, <3>1
        <5>2. Change!TreeOf(after) =
                Change!Grafted(Change!TreeOf(objects), Append(p, k), Leaf(value))
          BY <3>1, <4>2, <5>1, GraftSound
        <5> QED
          BY <2>3, <5>2 DEF before
      <4> QED
        BY <2>6, <2>8, <2>10, <3>5, <4>1, <4>3
    <3> QED
      BY <3>4, <3>5
  <2> QED
    BY <2>9, <2>10
<1> QED
  BY <1>2, <1>3

\* The message after each rule, and what the rules say of it so far.
Rounds(w, L) ==
  w = [n \in 0..L |->
         IF n = 0 THEN <<message, Change!TreeOf(message)>>
         ELSE <<Change!TryRule(w[n - 1][1], rules[n]), Change!Said(w[n - 1][2], rules[n])>>]

LEMMA RoundsExist ==
  ASSUME NEW L \in Nat
  PROVE  \E w : Rounds(w, L)
<1> DEFINE start == <<message, Change!TreeOf(message)>>
           Round(x, n) == <<Change!TryRule(x[1], rules[n]), Change!Said(x[2], rules[n])>>
           S == {n \in Nat : \E w : Rounds(w, n)}
<1>r. \A w, n : Rounds(w, n) <=> w = [i \in 0..n |-> IF i = 0 THEN start ELSE Round(w[i - 1], i)]
  BY DEF Rounds
<1> HIDE DEF start, Round
<1>1. 0 \in S
  <2> DEFINE w == [n \in 0..0 |-> start]
  <2>0. w = [i \in 0..0 |-> IF i = 0 THEN start ELSE Round(w[i - 1], i)]
    OBVIOUS
  <2>1. Rounds(w, 0)
    BY <1>r, <2>0
  <2> QED
    BY <2>1
<1>2. ASSUME NEW n \in Nat, n \in S
      PROVE  n + 1 \in S
  <2>1. PICK f : Rounds(f, n)
    BY <1>2
  <2> DEFINE last == Round(f[n], n + 1)
             g == [i \in 0..(n + 1) |-> IF i = n + 1 THEN last ELSE f[i]]
  <2>2. g[n] = f[n] /\ g[n + 1] = last /\ \A i \in 0..n : g[i] = f[i]
    <3> HIDE DEF last
    <3> QED
      OBVIOUS
  <2>3. \A i \in 0..n : f[i] = IF i = 0 THEN start ELSE Round(f[i - 1], i)
    BY <1>r, <2>1
  <2>4. \A i \in 0..(n + 1) : g[i] = IF i = 0 THEN start ELSE Round(g[i - 1], i)
    <3> SUFFICES ASSUME NEW i \in 0..(n + 1)
                 PROVE  g[i] = IF i = 0 THEN start ELSE Round(g[i - 1], i)
      OBVIOUS
    <3>1. CASE i = n + 1
      <4>1. i # 0 /\ i - 1 = n
        BY <3>1
      <4> HIDE DEF g
      <4> QED
        BY <2>2, <3>1, <4>1
    <3>2. CASE i # n + 1
      <4>1. i \in 0..n /\ (i # 0 => i - 1 \in 0..n)
        BY <3>2
      <4> HIDE DEF g
      <4> QED
        BY <2>2, <2>3, <4>1
    <3> QED
      BY <3>1, <3>2
  <2>5. g = [i \in 0..(n + 1) |-> g[i]]
    OBVIOUS
  <2> HIDE DEF g
  <2>6. Rounds(g, n + 1)
    BY <1>r, <2>4, <2>5
  <2> QED
    BY <2>6
<1> HIDE DEF S
<1>3. L \in S
  BY <1>1, <1>2, SetInduction
<1> QED
  BY <1>3 DEF S

\* handleMessage tries one rule after the other, and so do the rules.
LEMMA TriedSteps ==
  ASSUME Len(rules) \in Nat, NEW st, st = Change!Tried(rules, message)
  PROVE  /\ st[0] = message
         /\ \A n \in Nat : n + 1 <= Len(rules) => st[n + 1] = Change!TryRule(st[n], rules[n + 1])
<1> DEFINE L == Len(rules)
           IsRun(f) ==
             f = [n \in 0..L |-> IF n = 0 THEN message ELSE Change!TryRule(f[n - 1], rules[n])]
           run == CHOOSE f : IsRun(f)
<1>1. st = run
  BY DEF Change!Tried
<1> HIDE DEF L
<1>2. PICK w : Rounds(w, L)
  BY RoundsExist DEF L
<1>3. \A n \in 0..L :
        w[n] = IF n = 0 THEN <<message, Change!TreeOf(message)>>
               ELSE <<Change!TryRule(w[n - 1][1], rules[n]), Change!Said(w[n - 1][2], rules[n])>>
  BY <1>2 DEF Rounds
<1> DEFINE g == [n \in 0..L |-> w[n][1]]
<1>4. \A n \in 0..L : g[n] = IF n = 0 THEN message ELSE Change!TryRule(g[n - 1], rules[n])
  <2>1. ASSUME NEW n \in 0..L
        PROVE  w[n][1] = IF n = 0 THEN message ELSE Change!TryRule(w[n - 1][1], rules[n])
    <3>1. CASE n = 0
      <4>1. w[n] = <<message, Change!TreeOf(message)>>
        BY <1>3, <3>1
      <4> QED
        BY <3>1, <4>1
    <3>2. CASE n # 0
      <4>1. w[n] = <<Change!TryRule(w[n - 1][1], rules[n]), Change!Said(w[n - 1][2], rules[n])>>
        BY <1>3, <3>2
      <4> QED
        BY <3>2, <4>1
    <3> QED
      BY <3>1, <3>2
  <2>2. \A n \in 0..L : n # 0 => n - 1 \in 0..L
    BY DEF L
  <2> QED
    BY <2>1, <2>2
<1>5. IsRun(g)
  <2>1. g = [n \in 0..L |-> g[n]]
    OBVIOUS
  <2> HIDE DEF g
  <2> QED
    BY <1>4, <2>1
<1> HIDE DEF g
<1>6. IsRun(run)
  BY <1>5
<1> HIDE DEF run
<1>7. \A n \in 0..L : st[n] = IF n = 0 THEN message ELSE Change!TryRule(st[n - 1], rules[n])
  BY <1>1, <1>6
<1>8. st[0] = message
  BY <1>7 DEF L
<1>9. ASSUME NEW n \in Nat, n + 1 <= L
      PROVE  st[n + 1] = Change!TryRule(st[n], rules[n + 1])
  <2>1. n + 1 \in 0..L /\ n + 1 # 0 /\ n + 1 - 1 = n
    BY <1>9 DEF L
  <2> QED
    BY <1>7, <2>1
<1> QED
  BY <1>8, <1>9 DEF L

LEMMA SaidSteps ==
  ASSUME Len(rules) \in Nat
  PROVE  \E st : /\ Change!SaidByAll = st[Len(rules)] /\ st[0] = Change!TreeOf(message)
                 /\ \A n \in Nat : n + 1 <= Len(rules) =>
                      st[n + 1] = Change!Said(st[n], rules[n + 1])
<1> DEFINE L == Len(rules)
           IsRun(f) == f = [n \in 0..L |->
                              IF n = 0 THEN Change!TreeOf(message) ELSE Change!Said(f[n - 1], rules[n])]
           st == CHOOSE f : IsRun(f)
<1>1. Change!SaidByAll = st[L]
  BY DEF Change!SaidByAll
<1> HIDE DEF L
<1>2. PICK w : Rounds(w, L)
  BY RoundsExist DEF L
<1>3. \A n \in 0..L :
        w[n] = IF n = 0 THEN <<message, Change!TreeOf(message)>>
               ELSE <<Change!TryRule(w[n - 1][1], rules[n]), Change!Said(w[n - 1][2], rules[n])>>
  BY <1>2 DEF Rounds
<1> DEFINE g == [n \in 0..L |-> w[n][2]]
<1>4. \A n \in 0..L : g[n] = IF n = 0 THEN Change!TreeOf(message) ELSE Change!Said(g[n - 1], rules[n])
  <2>1. ASSUME NEW n \in 0..L
        PROVE  w[n][2] = IF n = 0 THEN Change!TreeOf(message) ELSE Change!Said(w[n - 1][2], rules[n])
    <3>1. CASE n = 0
      <4>1. w[n] = <<message, Change!TreeOf(message)>>
        BY <1>3, <3>1
      <4> QED
        BY <3>1, <4>1
    <3>2. CASE n # 0
      <4>1. w[n] = <<Change!TryRule(w[n - 1][1], rules[n]), Change!Said(w[n - 1][2], rules[n])>>
        BY <1>3, <3>2
      <4> QED
        BY <3>2, <4>1
    <3> QED
      BY <3>1, <3>2
  <2>2. \A n \in 0..L : n # 0 => n - 1 \in 0..L
    BY DEF L
  <2> QED
    BY <2>1, <2>2
<1>5. IsRun(g)
  <2>1. g = [n \in 0..L |-> g[n]]
    OBVIOUS
  <2> HIDE DEF g
  <2> QED
    BY <1>4, <2>1
<1> HIDE DEF g
<1>6. IsRun(st)
  BY <1>5
<1> HIDE DEF st
<1>7. \A n \in 0..L : st[n] = IF n = 0 THEN Change!TreeOf(message) ELSE Change!Said(st[n - 1], rules[n])
  BY <1>6
<1>8. st[0] = Change!TreeOf(message)
  BY <1>7 DEF L
<1>9. ASSUME NEW n \in Nat, n + 1 <= L
      PROVE  st[n + 1] = Change!Said(st[n], rules[n + 1])
  <2>1. n + 1 \in 0..L /\ n + 1 # 0 /\ n + 1 - 1 = n
    BY <1>9 DEF L
  <2> QED
    BY <1>7, <2>1
<1> QED
  BY <1>1, <1>8, <1>9 DEF L

\* A change node, its rules a list of any length, and what became of its message.
ChangeInv ==
  /\ message \in ChangeMessages /\ rules \in Seq(ChangeRules)
  /\ result \in {Change!Pending,
                 IF Change!Outcome(rules, message) = <<>> THEN [status |-> "rejected"]
                 ELSE [status |-> "resolved", objects |-> Change!Outcome(rules, message)]}

LEMMA ChangeFollows ==
  ASSUME ChangeInv
  PROVE  Change!PlainSetsInTurn
<1> SUFFICES ASSUME result # Change!Pending, ~Change!TakesObject
             PROVE  Change!InTurn
  BY DEF Change!PlainSetsInTurn
<1> DEFINE f == Change!Tried(rules, message)
           L == Len(rules)
<1>1. L \in Nat /\ DOMAIN rules = 1..L /\ \A i \in 1..L : Change!IsRule(rules[i])
  BY RulesAssumption DEF ChangeInv
<1>2. f[0] = message /\ \A n \in Nat : n + 1 <= L => f[n + 1] = Change!TryRule(f[n], rules[n + 1])
  BY <1>1, TriedSteps
<1>3. PICK g : /\ Change!SaidByAll = g[L] /\ g[0] = Change!TreeOf(message)
               /\ \A n \in Nat : n + 1 <= L => g[n + 1] = Change!Said(g[n], rules[n + 1])
  BY <1>1, SaidSteps
<1>4. \A i \in 1..L : rules[i].t = "set" /\ rules[i].tot = "msg" /\ f[i - 1] # <<>> =>
        Change!Get(rules[i].to, f[i - 1]).kind # "object"
  BY <1>1 DEF Change!TakesObject
<1>5. Change!Outcome(rules, message) = f[L]
  BY DEF Change!Outcome
<1> DEFINE Agree(x, y) == \/ x = <<>> /\ y = Change!Nothing
                          \/ Change!IsTree(x) /\ y = Change!TreeOf(x)
           S == {n \in Nat : n <= L => Agree(f[n], g[n])}
<1> HIDE DEF f, L
<1>6. 0 \in S
  <2>1. Change!IsTree(message)
    BY MessagesAssumption DEF ChangeInv
  <2> QED
    BY <1>2, <1>3, <2>1
<1>7. ASSUME NEW n \in Nat, n \in S
      PROVE  n + 1 \in S
  <2> SUFFICES ASSUME n + 1 <= L
               PROVE  Agree(f[n + 1], g[n + 1])
    OBVIOUS
  <2>1. n <= L /\ n + 1 \in 1..L /\ n + 1 - 1 = n
    BY ONLY <1>1, n \in Nat, n + 1 <= L
  <2> DEFINE x == f[n]
             y == g[n]
             rule == rules[n + 1]
  <2>2. /\ f[n + 1] = Change!TryRule(x, rule) /\ g[n + 1] = Change!Said(y, rule)
        /\ Change!IsRule(rule)
    BY <1>1, <1>2, <1>3, <2>1
  <2>3. rule.t = "set" /\ rule.tot = "msg" /\ x # <<>> => Change!Get(rule.to, x).kind # "object"
    BY <1>4, <2>1
  <2>4. Agree(x, y)
    BY <1>7, <2>1
  <2> HIDE DEF x, y, rule
  <2>5. CASE x = <<>> /\ y = Change!Nothing
    <3>1. Change!TryRule(x, rule) = <<>>
      BY <2>5 DEF Change!TryRule
    <3>2. Change!Said(y, rule) = Change!Nothing
      BY <2>5 DEF Change!Said
    <3> QED
      BY <2>2, <3>1, <3>2
  <2>6. CASE Change!IsTree(x) /\ y = Change!TreeOf(x)
    <3>1. Len(x) # 0
      BY <2>6 DEF Change!IsTree
    <3>2. x # <<>>
      BY <3>1
    <3>3. Change!Said(y, rule) = Change!Said(Change!TreeOf(x), rule)
      BY <2>6
    <3>4. Agree(Change!TryRule(x, rule), Change!Said(Change!TreeOf(x), rule))
      BY <2>2, <2>3, <2>6, <3>2, DepthAssumption, SaidSound
    <3> QED
      BY <2>2, <3>3, <3>4
  <2> QED
    BY <2>4, <2>5, <2>6
<1> HIDE DEF S
<1>8. L \in S
  BY <1>1, <1>6, <1>7, SetInduction
<1>9. Agree(f[L], g[L])
  <2>1. L <= L
    BY <1>1
  <2> QED
    BY <1>8, <2>1 DEF S
<1>10. result = IF f[L] = <<>> THEN [status |-> "rejected"]
                ELSE [status |-> "resolved", objects |-> f[L]]
  BY <1>5 DEF ChangeInv
<1>11. CASE f[L] = <<>>
  <2>1. ~Change!IsTree(f[L])
    <3>1. Len(f[L]) = 0
      BY <1>11
    <3> QED
      BY <3>1 DEF Change!IsTree
  <2>2. Change!SaidByAll = Change!Nothing
    BY <1>3, <1>9, <2>1
  <2>3. result.status = "rejected"
    BY <1>10, <1>11
  <2> QED
    BY <2>2, <2>3 DEF Change!InTurn
<1>12. CASE f[L] # <<>>
  <2>1. Change!SaidByAll = Change!TreeOf(f[L])
    BY <1>3, <1>9, <1>12
  <2>2. Change!SaidByAll # Change!Nothing
    BY <2>1, DepthAssumption, TreeSound
  <2>3. result.status = "resolved" /\ result.objects = f[L]
    BY <1>10, <1>12
  <2> QED
    BY <2>1, <2>2, <2>3 DEF Change!InTurn
<1> QED
  BY <1>11, <1>12

LEMMA ChangeStarts ==
  ASSUME Change!Init
  PROVE  ChangeInv
<1>1. PICK n \in 0..MaxChangeRules : rules \in [1..n -> ChangeRules]
  BY DEF Change!Init
<1>2. n \in Nat
  BY <1>1
<1>3. rules \in Seq(ChangeRules)
  BY <1>1, <1>2
<1> QED
  BY <1>3 DEF ChangeInv, Change!Init

LEMMA ChangeStep ==
  ASSUME ChangeInv, [Change!Next]_(Change!vars)
  PROVE  ChangeInv'
BY DEF ChangeInv, Change!Next, Change!HandleMessage, Change!vars

\* A change node does to a message, of any depth, what its set rules say one after
\* the other, fields they do not name included, and fails exactly when one cannot
\* be followed, as long as plain values are copied.
THEOREM SetsAreInTurn == Change!Spec => []Change!PlainSetsInTurn
<1>1. Change!Init => ChangeInv
  BY ChangeStarts
<1>2. ChangeInv /\ [Change!Next]_(Change!vars) => ChangeInv'
  BY ChangeStep
<1>3. ChangeInv => Change!PlainSetsInTurn
  BY ChangeFollows
<1> QED
  BY <1>1, <1>2, <1>3, PTL DEF Change!Spec

-----------------------------------------------------------------------------
(* HttpNode *)

Marks == {"comma", "parsed"}

\* What is found in a payload after its k-th part.
Reads(y, x, p) == (p \in Marks => y = x) /\ (p \notin Marks => y = Append(x, p))

LEMMA PiecesAre ==
  ASSUME NEW s, Len(s) \in Nat, NEW g, g[0] = <<>>,
         \A k \in 1..Len(s) : Reads(g[k], g[k - 1], s[k])
  PROVE  Http!Pieces(s) = g[Len(s)]
<1> DEFINE L == Len(s)
           IsFound(f) ==
             f = [n \in 0..L |-> IF n = 0 THEN <<>>
                                 ELSE IF s[n] \in {"comma", "parsed"} THEN f[n - 1]
                                 ELSE Append(f[n - 1], s[n])]
           found == CHOOSE f : IsFound(f)
<1>1. Http!Pieces(s) = found[L]
  BY DEF Http!Pieces
<1>2. \E f : IsFound(f)
  <2> DEFINE f == [n \in 0..L |-> g[n]]
  <2>1. ASSUME NEW n \in 0..L
        PROVE  f[n] = IF n = 0 THEN <<>>
                      ELSE IF s[n] \in {"comma", "parsed"} THEN f[n - 1]
                      ELSE Append(f[n - 1], s[n])
    <3>1. CASE n = 0
      BY <3>1
    <3>2. CASE n # 0
      <4>1. n \in 1..L /\ n - 1 \in 0..L
        BY <3>2
      <4>2. f[n] = g[n] /\ f[n - 1] = g[n - 1] /\ Reads(g[n], g[n - 1], s[n])
        BY <4>1
      <4> HIDE DEF f
      <4> QED
        BY ONLY <3>2, <4>2 DEF Reads, Marks
    <3> QED
      BY <3>1, <3>2
  <2>2. f = [n \in 0..L |-> f[n]]
    OBVIOUS
  <2> HIDE DEF f
  <2>3. IsFound(f)
    BY ONLY <2>1, <2>2
  <2> QED
    BY <2>3
<1>3. IsFound(found)
  BY <1>2
<1> HIDE DEF found
<1>4. \A n \in 0..L : found[n] = IF n = 0 THEN <<>>
                                 ELSE IF s[n] \in {"comma", "parsed"} THEN found[n - 1]
                                 ELSE Append(found[n - 1], s[n])
  BY ONLY <1>3
<1> HIDE DEF IsFound
<1> DEFINE T == {n \in Nat : n \in 0..L => found[n] = g[n]}
<1>5. 0 \in T
  BY <1>4
<1>6. ASSUME NEW n \in Nat, n \in T
      PROVE  n + 1 \in T
  <2> SUFFICES ASSUME n + 1 \in 0..L
               PROVE  found[n + 1] = g[n + 1]
    OBVIOUS
  <2>1. n \in 0..L /\ n + 1 # 0 /\ n + 1 - 1 = n /\ n + 1 \in 1..L
    <3> HIDE DEF L
    <3>1. L \in Nat
      BY DEF L
    <3> QED
      BY ONLY <3>1, n \in Nat, n + 1 \in 0..L
  <2>2. found[n] = g[n] /\ Reads(g[n + 1], g[n], s[n + 1])
    BY <1>6, <2>1
  <2>3. found[n + 1] = IF s[n + 1] \in {"comma", "parsed"} THEN found[n]
                       ELSE Append(found[n], s[n + 1])
    BY ONLY <1>4, <2>1
  <2> QED
    BY ONLY <2>2, <2>3 DEF Reads, Marks
<1>7. L \in T
  <2> HIDE DEF T
  <2> QED
    BY <1>5, <1>6, SetInduction
<1>8. L \in 0..L
  OBVIOUS
<1> QED
  BY <1>1, <1>7, <1>8

\* The first k pieces.
LEMMA FirstPieces ==
  ASSUME NEW P, NEW p \in Seq(P)
  PROVE  /\ SubSeq(p, 1, 0) = <<>> /\ SubSeq(p, 1, Len(p)) = p
         /\ \A k \in 1..Len(p) : SubSeq(p, 1, k) = Append(SubSeq(p, 1, k - 1), p[k])
<1>1. SubSeq(p, 1, Len(p)) = p
  OBVIOUS
<1>2. SubSeq(p, 1, 0) = <<>>
  OBVIOUS
<1>3. ASSUME NEW k \in 1..Len(p)
      PROVE  SubSeq(p, 1, k) = Append(SubSeq(p, 1, k - 1), p[k])
  <2> DEFINE x == SubSeq(p, 1, k)
             y == SubSeq(p, 1, k - 1)
             z == Append(y, p[k])
  <2>1. x \in Seq(P) /\ Len(x) = k /\ \A i \in 1..k : x[i] = p[i]
    BY SubSeqProperties
  <2>2. y \in Seq(P) /\ Len(y) = k - 1 /\ \A i \in 1..(k - 1) : y[i] = p[i]
    BY SubSeqProperties
  <2>3. p[k] \in P
    OBVIOUS
  <2> HIDE DEF x, y
  <2>4. z \in Seq(P) /\ Len(z) = k /\ z[k] = p[k] /\ \A i \in 1..(k - 1) : z[i] = p[i]
    BY <2>2, <2>3
  <2>5. \A i \in 1..k : x[i] = z[i]
    <3>1. \A i \in 1..k : i \in 1..(k - 1) \/ i = k
      OBVIOUS
    <3> QED
      BY ONLY <2>1, <2>4, <3>1
  <2> HIDE DEF z
  <2>6. x = z
    BY <2>1, <2>4, <2>5, SeqEqual
  <2> QED
    BY <2>6 DEF x, y, z
<1> QED
  BY <1>1, <1>2, <1>3

\* What the node makes of pieces has them all, in their order.
LEMMA PayloadHasPieces ==
  ASSUME NEW c, NEW P, "comma" \notin P, "parsed" \notin P, NEW p \in Seq(P)
  PROVE  Http!Pieces(Http!Payload(c, p)) = p
<1> DEFINE L == Len(p)
<1>0. L \in Nat /\ \A k \in 1..L : p[k] \in P /\ p[k] \notin Marks
  BY DEF Marks
<1>1. Http!Pieces(p) = p
  <2> DEFINE g == [k \in 0..L |-> SubSeq(p, 1, k)]
  <2>1. g[0] = <<>> /\ g[L] = p
    BY <1>0, FirstPieces
  <2>2. ASSUME NEW k \in 1..L
        PROVE  Reads(g[k], g[k - 1], p[k])
    <3>1. k \in 0..L /\ k - 1 \in 0..L
      OBVIOUS
    <3>2. g[k] = Append(g[k - 1], p[k])
      BY <3>1, FirstPieces
    <3> HIDE DEF g
    <3> QED
      BY <1>0, <3>2 DEF Reads
  <2> HIDE DEF g
  <2> QED
    BY <1>0, <2>1, <2>2, PiecesAre
<1>2. ASSUME L = 1
      PROVE  Http!Pieces(<<"parsed", p[1]>>) = p
  <2> DEFINE s == <<"parsed", p[1]>>
             g == [k \in 0..2 |-> IF k = 2 THEN p ELSE <<>>]
  <2>1. Len(s) = 2 /\ s[1] = "parsed" /\ s[2] = p[1]
    OBVIOUS
  <2>2. p = Append(<<>>, p[1])
    BY <1>2
  <2>3. g[0] = <<>> /\ g[1] = <<>> /\ g[2] = p
    OBVIOUS
  <2>4. "parsed" \in Marks /\ p[1] \notin Marks
    BY <1>0, <1>2 DEF Marks
  <2> HIDE DEF g, s
  <2>5. ASSUME NEW k \in 1..Len(s)
        PROVE  Reads(g[k], g[k - 1], s[k])
    <3>1. (k = 1 /\ k - 1 = 0) \/ (k = 2 /\ k - 1 = 1)
      BY <2>1
    <3> QED
      BY ONLY <2>1, <2>2, <2>3, <2>4, <3>1 DEF Reads
  <2>6. Http!Pieces(s) = g[Len(s)]
    <3>1. Len(s) \in Nat /\ g[0] = <<>>
      BY ONLY <2>1, <2>3
    <3> QED
      BY ONLY <2>5, <3>1, PiecesAre
  <2> QED
    BY <2>1, <2>3, <2>6 DEF s
<1>3. Http!Pieces(Http!Joined(p)) = p
  <2> DEFINE s == Http!Joined(p)
             h(k) == (k + 1) \div 2
             g == [k \in 0..(2 * L) |-> SubSeq(p, 1, h(k))]
  <2>1. s = [i \in 1..(2 * L - 1) |-> IF i % 2 = 1 THEN p[(i + 1) \div 2] ELSE "comma"]
    BY DEF Http!Joined
  <2> HIDE DEF s
  <2>2. CASE L = 0
    <3>1. p = <<>> /\ s = <<>>
      BY <2>1, <2>2
    <3> QED
      BY <1>1, <3>1 DEF s
  <2>3. CASE L # 0
    <3>1. 2 * L - 1 \in Nat /\ 2 * L - 1 \in 0..(2 * L) /\ h(0) = 0 /\ h(2 * L - 1) = L /\ 0 \in 0..(2 * L)
      BY <1>0, <2>3
    <3>2. Len(s) = 2 * L - 1
      BY <2>1, <3>1
    <3>3. g[0] = <<>> /\ g[2 * L - 1] = p
      BY <3>1, FirstPieces
    <3>4. ASSUME NEW k \in 1..(2 * L - 1)
          PROVE  Reads(g[k], g[k - 1], s[k])
      <4>1. k \in 0..(2 * L) /\ k - 1 \in 0..(2 * L) /\ k \in Int /\ 1 <= k /\ k <= 2 * L - 1
        BY <1>0
      <4>2. CASE k % 2 = 1
        <5>1. h(k) \in 1..L /\ h(k - 1) = h(k) - 1
          BY <1>0, <4>1, <4>2
        <5>2. s[k] = p[h(k)]
          BY <2>1, <4>2
        <5>3. SubSeq(p, 1, h(k)) = Append(SubSeq(p, 1, h(k) - 1), p[h(k)])
          BY <5>1, FirstPieces
        <5>4. g[k] = Append(g[k - 1], s[k])
          BY <4>1, <5>1, <5>2, <5>3
        <5>5. s[k] \notin Marks
          BY <1>0, <5>1, <5>2
        <5> HIDE DEF g
        <5> QED
          BY ONLY <5>4, <5>5 DEF Reads
      <4>3. CASE k % 2 # 1
        <5>1. h(k) = h(k - 1)
          BY <4>1, <4>3
        <5>2. s[k] = "comma"
          BY <2>1, <4>3
        <5>3. g[k] = g[k - 1]
          BY <4>1, <5>1
        <5> HIDE DEF g
        <5> QED
          BY ONLY <5>2, <5>3 DEF Reads, Marks
      <4> QED
        BY <4>2, <4>3
    <3> HIDE DEF g, h
    <3>5. Http!Pieces(s) = g[Len(s)]
      BY <3>1, <3>2, <3>3, <3>4, PiecesAre
    <3> QED
      BY <3>2, <3>3, <3>5 DEF s
  <2> QED
    BY <2>2, <2>3
<1> QED
  BY <1>1, <1>2, <1>3 DEF Http!Payload

\* A response that resolved the promise has ended, and is what was received.
Resolves ==
  promise.state = "resolved" =>
    request \in {"ended", "closed", "aborted"} /\ promise.payload = Http!Payload(config, received)

HttpInv(P) ==
  /\ body \in Seq(P) /\ received \in Seq(P)
  /\ Len(received) <= Len(body)
  /\ \A i \in 1..Len(received) : received[i] = body[i]
  /\ request = "ended" => received = body
  /\ Resolves

LEMMA HttpStep ==
  ASSUME NEW P, HttpInv(P), [Http!Next]_(Http!vars)
  PROVE  HttpInv(P)'
<1> USE DEF HttpInv, Resolves
<1>1. CASE Http!OnData
  <2> DEFINE n == Len(received)
  <2>1. /\ n \in Nat /\ n + 1 \in 1..Len(body) /\ request = "answered"
        /\ received' = Append(received, body[n + 1]) /\ UNCHANGED <<config, request, body, promise>>
    BY <1>1 DEF Http!OnData
  <2>2. body[n + 1] \in P
    BY <2>1
  <2>3. /\ received' \in Seq(P) /\ Len(received') = n + 1
        /\ received'[n + 1] = body[n + 1] /\ \A i \in 1..n : received'[i] = received[i]
    BY <2>1, <2>2
  <2>4. \A i \in 1..Len(received') : received'[i] = body'[i]
    <3>1. \A i \in 1..(n + 1) : i \in 1..n \/ i = n + 1
      BY ONLY <2>1
    <3> QED
      BY <2>1, <2>3, <3>1
  <2> QED
    BY <2>1, <2>3, <2>4
<1>2. CASE Http!HandleMessage
  BY <1>2 DEF Http!HandleMessage, Http!Pending, Http!Rejected
<1>3. CASE Http!OnResponse
  BY <1>3 DEF Http!OnResponse
<1>4. CASE Http!OnEnd
  BY <1>4 DEF Http!OnEnd, Http!Delivered, Http!Settle, Http!Resolved
<1>5. CASE Http!Closed
  BY <1>5 DEF Http!Closed, Http!Ends, Http!Settle, Http!Resolved, Http!Rejected
<1>6. CASE Http!OnError
  BY <1>6 DEF Http!OnError, Http!Settle, Http!Rejected
<1>7. CASE Http!OnTimeout
  BY <1>7 DEF Http!OnTimeout, Http!Ends, Http!Settle, Http!Resolved, Http!Rejected
<1>8. CASE Http!RejectTimeout
  BY <1>8 DEF Http!RejectTimeout, Http!Settle, Http!Rejected
<1>9. CASE Http!TaskDone \/ Http!TaskTimeout
  BY <1>9 DEF Http!TaskDone, Http!TaskTimeout
<1>10. CASE Http!OnResponseThrows
  BY <1>10 DEF Http!OnResponseThrows
<1>11. CASE UNCHANGED Http!vars
  BY <1>11 DEF Http!vars
<1> QED
  BY <1>1, <1>2, <1>3, <1>4, <1>5, <1>6, <1>7, <1>8, <1>9, <1>10, <1>11 DEF Http!Next

LEMMA HttpMeans ==
  ASSUME NEW P, "comma" \notin P, "parsed" \notin P, HttpInv(P)
  PROVE  Http!HandedOnInOrder
<1> SUFFICES ASSUME promise.state = "resolved"
             PROVE  /\ Http!IsPrefix(Http!Pieces(promise.payload), body)
                    /\ request \notin {"closed", "aborted"} => Http!Pieces(promise.payload) = body
  BY DEF Http!HandedOnInOrder
<1>1. received \in Seq(P) /\ body \in Seq(P) /\ promise.payload = Http!Payload(config, received)
  BY DEF HttpInv, Resolves
<1>2. Http!Pieces(promise.payload) = received
  BY <1>1, PayloadHasPieces
<1>3. request \notin {"closed", "aborted"} => received = body
  BY DEF HttpInv, Resolves
<1>4. Http!IsPrefix(received, body)
  <2> DEFINE n == Len(received)
             x == SubSeq(received, 1, n)
             y == SubSeq(body, 1, n)
  <2>1. n \in Nat /\ n <= Len(body) /\ \A i \in 1..n : received[i] = body[i]
    BY <1>1 DEF HttpInv
  <2>2. x \in Seq(P) /\ Len(x) = n /\ \A i \in 1..n : x[i] = received[i]
    BY <1>1, FirstPieces
  <2>3. y \in Seq(P) /\ Len(y) = n /\ \A i \in 1..n : y[i] = body[i]
    <3>1. n \in 0..Len(body) /\ 1 \in 1..(Len(body) + 1)
      BY <1>1, <2>1
    <3> QED
      BY <1>1, <3>1, SubSeqProperties
  <2> HIDE DEF n, x, y
  <2>4. x = y
    BY <2>1, <2>2, <2>3, SeqEqual
  <2> QED
    BY <2>1, <2>4 DEF Http!IsPrefix, n, x, y
<1> QED
  BY <1>2, <1>3, <1>4

LEMMA HttpStarts ==
  ASSUME Http!Init
  PROVE  HttpInv(Parts)
BY PartsAssumption DEF Http!Init, Http!Pending, HttpInv, Resolves

\* Whatever the server sends, and however the connection ends, an http node hands
\* on what it received, in order, and all of it unless it was cut off.
THEOREM ResponsesAreHandedOn == Http!Spec => []Http!HandedOnInOrder
<1>1. Http!Init => HttpInv(Parts)
  BY HttpStarts
<1>2. HttpInv(Parts) /\ [Http!Next]_(Http!vars) => HttpInv(Parts)'
  BY HttpStep
<1>3. HttpInv(Parts) => Http!HandedOnInOrder
  BY HttpMeans, PartsAssumption
<1> QED
  BY <1>1, <1>2, <1>3, PTL DEF Http!Spec

-----------------------------------------------------------------------------
(* NodeHandlers *)

\* What the behaviours of each module keep, where they are the system's.
RulesInv == (part = "switch" => SwitchInv) /\ (part = "change" => ChangeInv)

TransfersInv == (part = "http" => HttpInv(Parts)) /\ (part = "ftp" => FtpInv)

\* The nodes that decide and change do what their rules say, for any rules and
\* messages.
THEOREM RulesAreFollowed == Spec => []RulesHold
<1>1. Init => RulesInv
  BY SwitchStarts, ChangeStarts DEF Init, RulesInv
<1>2. RulesInv /\ [Next]_vars => RulesInv'
  <2> SUFFICES ASSUME RulesInv, [Next]_vars PROVE RulesInv'
    OBVIOUS
  <2>0. part' = part
    BY DEF Next, vars
  <2>1. ASSUME part = "switch"
        PROVE  SwitchInv'
    <3>1. [Switch!Next]_(Switch!vars)
      BY <2>1 DEF Next, vars, Switch!vars, ruleVars
    <3> QED
      BY <2>1, <3>1, SwitchStep DEF RulesInv
  <2>2. ASSUME part = "change"
        PROVE  ChangeInv'
    <3>1. [Change!Next]_(Change!vars)
      BY <2>2 DEF Next, vars, Change!vars, ruleVars
    <3> QED
      BY <2>2, <3>1, ChangeStep DEF RulesInv
  <2> QED
    BY <2>0, <2>1, <2>2 DEF RulesInv
<1>3. RulesInv => RulesHold
  BY SwitchFinds, ChangeFollows DEF RulesInv, RulesHold
<1> QED
  BY <1>1, <1>2, <1>3, PTL DEF Spec

\* What an http node hands on is what the server sent, and an ftp node that resolves
\* has stored its file, for any responses, configurations, messages and failures.
THEOREM TransfersAreAccountedFor == Spec => []TransfersAccountedFor
<1>1. Init => TransfersInv
  BY HttpStarts, FtpInit DEF Init, TransfersInv
<1>2. TransfersInv /\ [Next]_vars => TransfersInv'
  <2> SUFFICES ASSUME TransfersInv, [Next]_vars PROVE TransfersInv'
    OBVIOUS
  <2>0. part' = part
    BY DEF Next, vars
  <2>1. ASSUME part = "http"
        PROVE  HttpInv(Parts)'
    <3>1. [Http!Next]_(Http!vars)
      BY <2>1 DEF Next, vars, Http!vars, httpVars
    <3> QED
      BY <2>1, <3>1, HttpStep DEF TransfersInv
  <2>2. ASSUME part = "ftp"
        PROVE  FtpInv'
    <3>1. [Files!Next]_(Files!vars)
      BY <2>2 DEF Next, vars, Files!vars, Files!consumer, Files!faults, ftpVars
    <3> QED
      BY <2>2, <3>1, FtpStep DEF TransfersInv
  <2> QED
    BY <2>0, <2>1, <2>2 DEF TransfersInv
<1>3. HttpInv(Parts) => Http!HandedOnInOrder
  BY HttpMeans, PartsAssumption
<1>4. FtpInv => Files!UploadsAccountedFor
  BY DEF FtpInv, Files!UploadsAccountedFor
<1>5. TransfersInv => TransfersAccountedFor
  BY <1>3, <1>4 DEF TransfersInv, TransfersAccountedFor
<1> QED
  BY <1>1, <1>2, <1>5, PTL DEF Spec
=============================================================================
