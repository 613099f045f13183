------------------------ MODULE MasterCollectorProofs ------------------------
(***************************************************************************)
(* Proofs about MasterCollector, for any files, processes and bounds: it   *)
(* implements IngestChannel, it is well typed, it loses no content, and    *)
(* HDFS and the topic agree.  And about ClassicIngest, its composition     *)
(* with the workers: it implements FlowWorkers.                            *)
(***************************************************************************)
EXTENDS ClassicIngest, FiniteSetTheorems, TLAPS

-----------------------------------------------------------------------------
(* The channel *)

Passed == Len(detected) - Len(queue) - InHand

channelVars == <<detected, Passed, sent>>

\* What has been detected ends with the file in hand and the files on the queue.
ChannelInv ==
  /\ detected \in Seq(Supported) /\ queue \in Seq(Supported) /\ sent \in Seq(Supported)
  /\ Len(queue) + InHand <= Len(detected)
  /\ \A i \in 1 .. Len(queue) : queue[i] = detected[Len(detected) - Len(queue) + i]
  /\ pc \in Working \ {"done"} => file = detected[Len(detected) - Len(queue)]

\* A step that takes no file and lets none go.
LEMMA StaysInHand ==
  ASSUME ChannelInv, UNCHANGED <<queue, detected, sent, file>>,
         pc' \in Working \ {"done"} <=> pc \in Working \ {"done"}
  PROVE  ChannelInv' /\ UNCHANGED channelVars
BY DEF ChannelInv, InHand, channelVars, Passed

\* The file in hand, if there is one, is let go and not announced.
LEMMA LetsGo ==
  ASSUME ChannelInv, UNCHANGED <<queue, detected, sent>>, pc' \notin Working \ {"done"}
  PROVE  ChannelInv' /\ (Channel!PassOver \/ UNCHANGED channelVars)
<1>1. ChannelInv' /\ InHand' = 0
  BY DEF ChannelInv, InHand
<1>2. CASE InHand = 0
  BY <1>1, <1>2 DEF channelVars, Passed
<1>3. CASE InHand = 1
  BY <1>1, <1>3 DEF ChannelInv, Channel!PassOver
<1> QED BY <1>1, <1>2, <1>3 DEF InHand

\* A file is put at the end of what has been detected and of the queue.
LEMMA Arrives ==
  ASSUME ChannelInv, NEW p \in Supported, Queued(p), UNCHANGED <<sent, pc, file>>
  PROVE  ChannelInv' /\ Channel!Arrive(p)
<1> DEFINE d == Len(detected) - Len(queue)
<1>1. /\ queue' = Append(queue, p) /\ detected' = Append(detected, p)
      /\ queue \in Seq(Supported) /\ detected \in Seq(Supported)
  BY DEF Queued, ChannelInv
<1>2. /\ queue' \in Seq(Supported) /\ detected' \in Seq(Supported)
      /\ Len(queue) \in Nat /\ Len(detected) \in Nat /\ InHand \in {0, 1}
      /\ Len(queue') = Len(queue) + 1 /\ Len(detected') = Len(detected) + 1
      /\ Len(detected') - Len(queue') = d
      /\ d - InHand >= 0
      /\ InHand' = InHand
  BY <1>1 DEF InHand, ChannelInv
<1>3. /\ \A i \in 1 .. Len(queue) : queue'[i] = queue[i]
      /\ \A i \in 1 .. Len(detected) : detected'[i] = detected[i]
      /\ queue'[Len(queue) + 1] = p /\ detected'[Len(detected) + 1] = p
  BY <1>1
<1>4. ASSUME NEW i \in 1 .. Len(queue')
      PROVE  queue'[i] = detected'[Len(detected') - Len(queue') + i]
  <2>1. CASE i = Len(queue) + 1
    BY <1>2, <1>3, <2>1
  <2>2. CASE i \in 1 .. Len(queue)
    <3>1. d + i \in 1 .. Len(detected)
      BY <1>2, <2>2
    <3>2. queue[i] = detected[d + i]
      BY <2>2 DEF ChannelInv
    <3> HIDE DEF d
    <3> QED BY <1>2, <1>3, <2>2, <3>1, <3>2
  <2> QED BY <1>2, <2>1, <2>2
<1>5. ASSUME pc' \in Working \ {"done"}
      PROVE  file' = detected'[Len(detected') - Len(queue')]
  <2>1. InHand = 1 /\ d \in 1 .. Len(detected)
    BY <1>2, <1>5 DEF InHand
  <2>2. file = detected[d]
    BY <1>5 DEF ChannelInv
  <2> HIDE DEF d
  <2> QED BY <1>2, <1>3, <2>1, <2>2
<1>6. ChannelInv'
  <2>1. Len(queue') + InHand' <= Len(detected') /\ sent' \in Seq(Supported)
    BY <1>2 DEF ChannelInv
  <2> QED BY <1>2, <1>4, <1>5, <2>1 DEF ChannelInv
<1>7. Channel!Arrive(p)
  BY <1>1, <1>2 DEF Channel!Arrive
<1> QED BY <1>6, <1>7

\* The head of the queue is the file after those passed, and the tail of the queue
\* what is detected after it.
LEMMA HeadIsNext ==
  ASSUME ChannelInv, NEW p, GetNextFile(p), UNCHANGED detected
  PROVE  /\ queue' \in Seq(Supported) /\ Len(queue) \in Nat \ {0}
         /\ Len(queue') = Len(queue) - 1
         /\ p \in Supported
         /\ p = detected[Len(detected) - Len(queue')]
         /\ \A i \in 1 .. Len(queue') : queue'[i] = detected'[Len(detected') - Len(queue') + i]
<1>1. /\ queue # << >> /\ queue \in Seq(Supported) /\ detected \in Seq(Supported)
      /\ p = Head(queue) /\ queue' = Tail(queue)
  BY DEF ChannelInv, GetNextFile
<1>2. /\ queue' \in Seq(Supported) /\ Len(queue) \in Nat \ {0} /\ Len(detected) \in Nat
      /\ Len(queue') = Len(queue) - 1
      /\ p = queue[1]
  BY <1>1
<1>3. \A i \in 1 .. Len(queue') : queue'[i] = queue[i + 1] /\ i + 1 \in 1 .. Len(queue)
  BY <1>1, <1>2
<1>4. p = detected[Len(detected) - Len(queue')]
  BY <1>2 DEF ChannelInv
<1>5. p \in Supported
  BY <1>1, <1>2
<1>6. \A i \in 1 .. Len(queue') : queue'[i] = detected[Len(detected) - Len(queue') + i]
  <2> SUFFICES ASSUME NEW i \in 1 .. Len(queue')
               PROVE  queue'[i] = detected[Len(detected) - Len(queue') + i]
    OBVIOUS
  <2>1. queue'[i] = detected[Len(detected) - Len(queue) + (i + 1)]
    BY <1>3 DEF ChannelInv
  <2> QED BY <1>2, <2>1
<1> QED BY <1>2, <1>4, <1>5, <1>6

\* A file that is taken is passed over only when its name has no date.
LEMMA TakeFileStep ==
  ASSUME ChannelInv, TakeFile
  PROVE  ChannelInv' /\ (Channel!PassOver \/ UNCHANGED channelVars)
<1>1. PICK p \in Supported : GetNextFile(p) /\ file' = p /\ pc' = FirstStep(p)
  BY DEF TakeFile
<1>2. UNCHANGED <<detected, sent>> /\ InHand = 0
  BY DEF TakeFile, kafkaVars, InHand, Working
<1>3. ChannelInv'
  BY <1>1, <1>2, HeadIsNext DEF ChannelInv, InHand
<1>4. CASE pc' \in Working \ {"done"}
  <2>1. InHand' = 1 /\ Len(queue') = Len(queue) - 1 /\ Len(queue) \in Nat /\ Len(detected) \in Nat
    BY <1>1, <1>2, <1>4, HeadIsNext DEF InHand, ChannelInv
  <2>2. Passed' = Passed
    BY <1>2, <2>1 DEF Passed
  <2> QED BY <1>2, <1>3, <2>2 DEF channelVars
<1>5. CASE pc' \notin Working \ {"done"}
  BY <1>1, <1>2, <1>5, HeadIsNext DEF InHand, ChannelInv, Channel!PassOver
<1> QED BY <1>3, <1>4, <1>5

\* A file that is handed to the pool is passed over.
LEMMA HandToPoolStep ==
  ASSUME ChannelInv, HandToPool
  PROVE  ChannelInv' /\ Channel!PassOver
<1>1. PICK p \in Supported : GetNextFile(p) /\ NextFile(queue')
  BY DEF HandToPool
<1>2. UNCHANGED <<detected, sent, file>> /\ InHand = 0 /\ InHand' = 0
  BY <1>1 DEF HandToPool, kafkaVars, InHand, Working, NextFile
<1>3. pc' \notin Working
  BY <1>1 DEF NextFile, Working
<1> QED BY <1>1, <1>2, <1>3, HeadIsNext DEF ChannelInv, Channel!PassOver

\* The file in hand is announced, or its message is lost.
LEMMA SendMessageStep ==
  ASSUME ChannelInv, SendMessage
  PROVE  ChannelInv' /\ (Channel!Announce \/ Channel!PassOver \/ UNCHANGED channelVars)
<1>1. /\ UNCHANGED <<queue, detected, file>> /\ pc = "send" /\ pc' = "done"
      /\ InHand = 1 /\ InHand' = 0
  BY DEF SendMessage, watcherVars, Goto, InHand, Working
<1>2. CASE sent' = Append(sent, file)
  <2>1. file = detected[Len(detected) - Len(queue)] /\ file \in Supported
    BY <1>1 DEF ChannelInv, Working
  <2>2. ChannelInv'
    BY <1>1, <1>2, <2>1 DEF ChannelInv
  <2>3. Channel!Announce
    BY <1>1, <1>2, <2>1 DEF ChannelInv, Channel!Announce
  <2> QED BY <2>2, <2>3
<1>3. CASE UNCHANGED sent
  BY <1>1, <1>3, LetsGo
<1> QED BY <1>2, <1>3 DEF SendMessage, kafkaVars

\* The files on the queue at the end of the process are passed over.
LEMMA EndStep ==
  ASSUME ChannelInv, End
  PROVE  ChannelInv' /\ (Channel!PassOver \/ UNCHANGED channelVars)
<1>1. /\ UNCHANGED <<detected, sent, file>> /\ queue' = << >>
      /\ InHand = 0 /\ InHand' = 0 /\ pc' \notin Working
  BY DEF End, Goto, kafkaVars, InHand, Working
<1>2. ChannelInv'
  BY <1>1 DEF ChannelInv
<1>3. CASE queue = << >>
  <2>1. Len(queue') = Len(queue)
    BY <1>1, <1>3
  <2>2. Passed' = Passed
    BY <1>1, <2>1 DEF Passed
  <2> QED BY <1>1, <1>2, <2>2 DEF channelVars
<1>4. CASE queue # << >>
  BY <1>1, <1>4 DEF ChannelInv, Channel!PassOver
<1> QED BY <1>2, <1>3, <1>4

\* A file that appears arrives, unless the watcher does not see it.
LEMMA ObserveStep ==
  ASSUME ChannelInv, Observe
  PROVE  ChannelInv' /\ ((\E f \in Supported : Channel!Arrive(f)) \/ UNCHANGED channelVars)
<1>1. UNCHANGED <<pc, file, sent>>
  BY DEF Observe, mainVars, kafkaVars
<1>2. PICK p \in Paths : NewFileDetected(p)
  BY DEF Observe, OnCreated, OnMoved
<1>3. CASE UNCHANGED <<queue, detected>>
  BY <1>1, <1>3, StaysInHand
<1>4. CASE p \in Supported /\ Queued(p)
  BY <1>1, <1>4, Arrives
<1> QED BY <1>2, <1>3, <1>4 DEF NewFileDetected

\* The steps of _ingest_file but for the send.
LEMMA IngestFileStep ==
  ASSUME ChannelInv, IngestStep, ~SendMessage
  PROVE  ChannelInv' /\ (Channel!PassOver \/ UNCHANGED channelVars)
<1>1. UNCHANGED <<queue, detected, sent>>
  BY DEF IngestStep, ListDir, Mkdir, Upload, Unreachable, RemoveRaw, Split, RemovePcap,
         EndOfFile, watcherVars, kafkaVars
<1>2. CASE ListDir \/ Mkdir \/ Upload \/ Unreachable \/ RemoveRaw \/ Split
  <2>1. UNCHANGED file /\ pc \in Working \ {"done"} /\ pc' \in Working \ {"done"}
    BY <1>2 DEF ListDir, Mkdir, Upload, Unreachable, RemoveRaw, Split, Goto, Working
  <2> QED BY <1>1, <2>1, StaysInHand
<1>3. CASE RemovePcap \/ EndOfFile
  <2>1. pc' \notin Working \ {"done"}
    BY <1>3 DEF RemovePcap, EndOfFile, NextFile, Goto, Working
  <2> QED BY <1>1, <2>1, LetsGo
<1> QED BY <1>2, <1>3 DEF IngestStep

\* Each step of the collector is a step of the channel, or none.
LEMMA ChannelStep ==
  ASSUME ChannelInv, [Next]_vars
  PROVE  ChannelInv' /\ [Channel!Next]_channelVars
<1> USE DEF Channel!Next
<1>1. CASE Observe
  BY <1>1, ObserveStep
<1>2. CASE Start \/ BeginPool
  <2>1. /\ UNCHANGED <<queue, detected, sent, file>>
        /\ pc \notin Working \ {"done"} /\ pc' \notin Working \ {"done"}
    BY <1>2 DEF Start, BeginPool, WatcherStart, watcherVars, kafkaVars, Working
  <2> QED BY <2>1, StaysInHand
<1>3. CASE TakeFile
  BY <1>3, TakeFileStep
<1>4. CASE HandToPool
  BY <1>4, HandToPoolStep
<1>5. CASE SendMessage
  BY <1>5, SendMessageStep
<1>6. CASE IngestStep /\ ~SendMessage
  BY <1>6, IngestFileStep
<1>7. CASE KeyboardInterrupt \/ RemoveKafkaTopic \/ CloseQueue
  <2>1. /\ UNCHANGED <<queue, detected, sent>> /\ pc' \notin Working \ {"done"}
    BY <1>7 DEF KeyboardInterrupt, RemoveKafkaTopic, CloseQueue, Goto, watcherVars,
                kafkaVars, Working
  <2> QED BY <2>1, LetsGo
<1>8. CASE End
  BY <1>8, EndStep
<1>9. CASE UNCHANGED vars
  <2>1. UNCHANGED <<queue, detected, sent, file, pc>>
    BY <1>9 DEF vars, watcherVars, mainVars, kafkaVars
  <2> QED BY <2>1, StaysInHand
<1> QED BY <1>1, <1>2, <1>3, <1>4, <1>5, <1>6, <1>7, <1>8, <1>9 DEF Next, MainStep, IngestStep

\* master_collector.py with file_collector.py and the Collectors: whatever fails
\* and wherever ^C and a new start fall, files are announced in the order of their
\* detection, none of them twice.
THEOREM CollectorImplementsChannel == Spec => AnnouncesInOrder
<1>1. Init => ChannelInv /\ Channel!Init
  <2> SUFFICES ASSUME Init PROVE ChannelInv /\ Channel!Init
    OBVIOUS
  <2>1. /\ detected = << >> /\ queue = << >> /\ sent = << >> /\ InHand = 0
        /\ pc \notin Working
    BY DEF Init, WatcherInit, InHand, Working
  <2>2. detected \in Seq(Supported) /\ Len(detected) = 0 /\ Len(queue) = 0
    BY <2>1
  <2> QED BY <2>1, <2>2 DEF ChannelInv, Channel!Init
<1>2. ChannelInv /\ [Next]_vars => ChannelInv' /\ [Channel!Next]_channelVars
  BY ChannelStep
<1> QED BY <1>1, <1>2, PTL DEF Spec, AnnouncesInOrder, Channel!Spec, channelVars, Passed

-----------------------------------------------------------------------------
(* Types and contents *)

\* A file in hand that has not been removed.
Pending == Working \ {"send", "done"}

\* The files on the queue and the file in hand are different and still in the
\* directory: only the main thread removes a supported file, and a file that is
\* there is not created again.
QueueInDirectory ==
  /\ \A i \in DOMAIN queue : directory[queue[i]] # 0
  /\ \A i, j \in DOMAIN queue : queue[i] = queue[j] => i = j
  /\ pc \in Pending => /\ directory[file] # 0
                       /\ \A i \in DOMAIN queue : queue[i] # file

\* What is about to be removed is kept elsewhere.
KeptBeforeRemoval ==
  /\ pc = "rm" => \/ binary[file] = directory[file]
                  \/ directory[file] \in misplaced \cup refused
  /\ pc = "rmpcap" => directory[file] \in split \cup unsplit

IngestInv == TypeOK /\ QueueInDirectory /\ KeptBeforeRemoval /\ ContentKept

\* A file taken from the queue was its first.
LEMMA TakenFromQueue ==
  ASSUME TypeOK, NEW p, GetNextFile(p)
  PROVE  /\ queue' \in Seq(Supported) /\ p \in Supported
         /\ 1 \in DOMAIN queue /\ p = queue[1]
         /\ \A i \in DOMAIN queue' : /\ i + 1 \in DOMAIN queue /\ i + 1 # 1
                                     /\ queue'[i] = queue[i + 1]
         /\ \A i, j \in DOMAIN queue' : i + 1 = j + 1 => i = j
<1>1. queue # << >> /\ queue \in Seq(Supported) /\ p = Head(queue) /\ queue' = Tail(queue)
  BY DEF TypeOK, WatcherTypeOK, GetNextFile
<1> QED BY <1>1

\* The content of the file in hand is one that has appeared.
LEMMA InHandHasContent ==
  ASSUME TypeOK, QueueInDirectory, pc \in Pending
  PROVE  /\ file \in Supported /\ file \in Paths
         /\ directory[file] \in Contents
<1>1. pc \in Working
  BY DEF Pending
<1>2. file \in Supported /\ file \in Paths
  BY <1>1, PathsAssumption DEF TypeOK
<1>3. directory[file] \in 0 .. MaxCreated /\ directory[file] # 0
  BY <1>2 DEF TypeOK, WatcherTypeOK, QueueInDirectory
<1> QED BY <1>2, <1>3, PathsAssumption DEF Contents

\* What appears in the directory, and the state of the main thread that it leaves alone.
LEMMA ObserveTypes ==
  ASSUME TypeOK, Observe
  PROVE  TypeOK'
<1>1. UNCHANGED <<pipeline, processes, pc, slots, file, hour, binary, misplaced, split, topic,
                  sent, refused, unsplit>>
  BY DEF Observe, mainVars, hdfsVars, kafkaVars, history
<1>2. PICK p \in Paths : NewFileDetected(p)
  BY DEF Observe, OnCreated, OnMoved
<1>3. queue' \in Seq(Supported) /\ detected' \in Seq(Supported)
  <2>1. UNCHANGED <<queue, detected>> \/ (p \in Supported /\ Queued(p))
    BY <1>2 DEF NewFileDetected
  <2>2. queue \in Seq(Supported) /\ detected \in Seq(Supported)
    BY DEF TypeOK, WatcherTypeOK
  <2>3. ASSUME p \in Supported
        PROVE  Append(queue, p) \in Seq(Supported) /\ Append(detected, p) \in Seq(Supported)
    BY <2>2, <2>3
  <2> QED BY <2>1, <2>2, <2>3 DEF Queued
<1>4. observer' \in {"new", "running", "dead"} /\ closed' \in BOOLEAN
  BY <1>2 DEF NewFileDetected, Observe, OnCreated, OnMoved, TypeOK, WatcherTypeOK
<1>5. directory' \in [Paths -> 0 .. MaxCreated] /\ created' \in 0 .. MaxCreated
  <2>1. /\ directory \in [Paths -> 0 .. MaxCreated] /\ created \in 0 .. MaxCreated
        /\ MaxCreated \in Nat
    BY PathsAssumption DEF TypeOK, WatcherTypeOK
  <2>2. ASSUME NEW q \in Paths, OnCreated(q)
        PROVE  directory' \in [Paths -> 0 .. MaxCreated] /\ created' \in 0 .. MaxCreated
    <3>1. created + 1 \in 0 .. MaxCreated
      BY <2>1, <2>2 DEF OnCreated
    <3> QED BY <2>1, <2>2, <3>1 DEF OnCreated
  <2>3. ASSUME NEW q \in Paths, NEW r \in Paths, OnMoved(q, r)
        PROVE  directory' \in [Paths -> 0 .. MaxCreated] /\ created' \in 0 .. MaxCreated
    <3>1. directory[q] \in 0 .. MaxCreated /\ 0 \in 0 .. MaxCreated
      BY <2>1
    <3> QED BY <2>1, <2>3, <3>1 DEF OnMoved
  <2> QED BY <2>2, <2>3 DEF Observe
<1> QED BY <1>1, <1>3, <1>4, <1>5 DEF TypeOK, WatcherTypeOK

\* Every step keeps the types.
LEMMA TypeStep ==
  ASSUME TypeOK, QueueInDirectory, [Next]_vars
  PROVE  TypeOK'
<1> USE DEF TypeOK, WatcherTypeOK
<1>1. CASE Observe
  BY <1>1, ObserveTypes
<1>2. CASE Start \/ BeginPool
  BY <1>2 DEF Start, BeginPool, WatcherStart, hdfsVars, kafkaVars, watcherVars, history,
              Running, Working
<1>3. CASE TakeFile
  <2>1. PICK p \in Supported : GetNextFile(p) /\ file' = p /\ pc' = FirstStep(p)
    BY <1>3 DEF TakeFile
  <2>2. queue' \in Seq(Supported)
    BY <2>1, TakenFromQueue
  <2>3. pc' \in {"split", "list", "done"}
    BY <2>1 DEF FirstStep
  <2>4. file' # None
    BY <2>1, PathsAssumption, CollectorAssumption
  <2>5. UNCHANGED <<pipeline, processes, slots, directory, created, closed, observer,
                    detected, hour, binary, misplaced, split, topic, sent, refused, unsplit>>
    BY <1>3 DEF TakeFile, hdfsVars, kafkaVars, history
  <2> QED BY <2>1, <2>2, <2>3, <2>4, <2>5 DEF Running, Working
<1>4. CASE HandToPool
  <2>1. PICK p \in Supported : GetNextFile(p) /\ NextFile(queue')
    BY <1>4 DEF HandToPool
  <2>2. queue' \in Seq(Supported)
    BY <2>1, TakenFromQueue
  <2>3. pc' \in {"pool", "sleep"} /\ slots' \in 0 .. processes
    BY <2>1, CollectorAssumption DEF NextFile
  <2>4. UNCHANGED <<pipeline, processes, file, directory, created, closed, observer,
                    detected, hour, binary, misplaced, split, topic, sent, refused, unsplit>>
    BY <1>4 DEF HandToPool, hdfsVars, kafkaVars, history
  <2>5. pc = "pool"
    BY <1>4 DEF HandToPool
  <2> QED BY <2>2, <2>3, <2>4, <2>5 DEF Running, Working
<1>5. CASE ListDir \/ Mkdir \/ Unreachable
  BY <1>5 DEF ListDir, Mkdir, Unreachable, Goto, watcherVars, hdfsVars, kafkaVars,
              Running, Working
<1>6. CASE Upload
  <2>1. /\ pc = "upload" /\ pc' = "rm"
        /\ UNCHANGED <<pipeline, processes, slots, file, watcherVars, split, kafkaVars, unsplit>>
    BY <1>6 DEF Upload, Goto
  <2>2. file \in Paths /\ directory[file] \in Contents
    BY <2>1, InHandHasContent DEF Pending, Working
  <2>3. /\ hour' \in {"none", "directory", "file"}
        /\ binary' \in [Paths -> 0 .. MaxCreated]
        /\ misplaced' \subseteq Contents /\ refused' \subseteq Contents
    BY <1>6, <2>2 DEF Upload, Uploaded, Refused, hdfsVars
  <2> QED BY <2>1, <2>3 DEF watcherVars, kafkaVars, Running, Working
<1>7. CASE RemoveRaw \/ RemovePcap
  <2>1. /\ UNCHANGED <<pipeline, processes, slots, file, created, queue, closed, observer,
                       detected, hour, binary, misplaced, split, topic, sent, refused, unsplit>>
        /\ pc \in {"rm", "rmpcap"} /\ pc' \in {"send", "done"}
        /\ directory' = [directory EXCEPT ![file] = 0]
    BY <1>7 DEF RemoveRaw, RemovePcap, Goto, hdfsVars, kafkaVars, history
  <2>2. directory' \in [Paths -> 0 .. MaxCreated]
    <3>1. directory \in [Paths -> 0 .. MaxCreated] /\ 0 \in 0 .. MaxCreated
      BY PathsAssumption
    <3> HIDE DEF TypeOK, WatcherTypeOK
    <3> QED BY <2>1, <3>1
  <2> QED BY <2>1, <2>2 DEF Running, Working
<1>8. CASE SendMessage
  <2>1. /\ pc = "send" /\ pc' = "done"
        /\ UNCHANGED <<pipeline, processes, slots, file, watcherVars, hdfsVars, split, refused,
                       unsplit>>
    BY <1>8 DEF SendMessage, Goto
  <2>2. file \in Supported
    BY <2>1 DEF Working
  <2>3. topic' \in Seq(Supported) /\ sent' \in Seq(Supported)
    <3>1. topic \in Seq(Supported) /\ sent \in Seq(Supported)
      OBVIOUS
    <3>2. Append(topic, file) \in Seq(Supported) /\ Append(sent, file) \in Seq(Supported)
      BY <2>2, <3>1
    <3> HIDE DEF TypeOK, WatcherTypeOK
    <3> QED BY <1>8, <3>1, <3>2 DEF SendMessage, kafkaVars
  <2> QED BY <2>1, <2>3 DEF watcherVars, hdfsVars, Running, Working
<1>9. CASE EndOfFile
  BY <1>9, CollectorAssumption DEF EndOfFile, NextFile, watcherVars, hdfsVars, kafkaVars,
              history, Running, Working
<1>10. CASE Split
  <2>1. /\ pc = "split" /\ pc' = "rmpcap"
        /\ UNCHANGED <<pipeline, processes, slots, file, watcherVars, hdfsVars, kafkaVars, refused>>
    BY <1>10 DEF Split, Goto
  <2>2. directory[file] \in Contents
    BY <2>1, InHandHasContent DEF Pending, Working
  <2>3. split' \subseteq Contents /\ unsplit' \subseteq Contents
    BY <1>10, <2>2 DEF Split
  <2> QED BY <2>1, <2>3 DEF watcherVars, hdfsVars, kafkaVars, Running, Working
<1>11. CASE KeyboardInterrupt
  BY <1>11, CollectorAssumption DEF KeyboardInterrupt, watcherVars, hdfsVars, kafkaVars,
              Running, Working
<1>12. CASE RemoveKafkaTopic \/ CloseQueue \/ End
  <2>1. << >> \in Seq(Supported)
    OBVIOUS
  <2>2. CASE RemoveKafkaTopic
    BY <2>1, <2>2 DEF RemoveKafkaTopic, Goto, watcherVars, hdfsVars, history, Running, Working
  <2>3. CASE CloseQueue
    BY <2>3 DEF CloseQueue, Goto, hdfsVars, kafkaVars, history, Running, Working
  <2>4. CASE End
    BY <2>1, <2>4 DEF End, Goto, hdfsVars, kafkaVars, history, Running, Working
  <2> QED BY <1>12, <2>2, <2>3, <2>4
<1>13. CASE UNCHANGED vars
  BY <1>13 DEF vars, watcherVars, mainVars, hdfsVars, kafkaVars, history, Running, Working
<1> QED BY <1>1, <1>2, <1>3, <1>4, <1>5, <1>6, <1>7, <1>8, <1>9, <1>10, <1>11, <1>12, <1>13
        DEF Next, MainStep, IngestStep

\* What appears takes the name of no supported file, and goes to the end of the queue.
LEMMA Appears ==
  ASSUME TypeOK, Observe
  PROVE  /\ UNCHANGED <<pc, file, binary, misplaced, split, refused, unsplit>>
         /\ \A q \in Supported : directory[q] # 0 => directory'[q] = directory[q]
         /\ \/ UNCHANGED queue
            \/ \E p \in Supported : /\ queue' = Append(queue, p)
                                    /\ directory[p] = 0 /\ directory'[p] # 0
         /\ \A c \in 1 .. created' : (\E p \in Paths : directory'[p] = c)
              \/ (c \in 1 .. created /\ \A p \in Paths : directory[p] # c)
<1>1. UNCHANGED <<pc, file, binary, misplaced, split, refused, unsplit>>
  BY DEF Observe, mainVars, hdfsVars, history
<1>2. directory \in [Paths -> 0 .. MaxCreated] /\ created \in Nat /\ Supported \subseteq Paths
  BY PathsAssumption DEF TypeOK, WatcherTypeOK
<1>3. ASSUME NEW p \in Paths, NewFileDetected(p)
      PROVE  UNCHANGED queue \/ (p \in Supported /\ queue' = Append(queue, p))
  BY <1>3 DEF NewFileDetected, Queued
<1>4. CASE \E p \in Paths : OnCreated(p)
  <2>1. PICK p \in Paths : OnCreated(p)
    BY <1>4
  <2>2. /\ directory[p] = 0 /\ created' = created + 1
        /\ directory' = [directory EXCEPT ![p] = created + 1]
        /\ UNCHANGED queue \/ (p \in Supported /\ queue' = Append(queue, p))
    BY <2>1, <1>3 DEF OnCreated
  <2>3. directory'[p] = created + 1 /\ \A q \in Paths \ {p} : directory'[q] = directory[q]
    BY <1>2, <2>2
  <2>4. ASSUME NEW c \in 1 .. created'
        PROVE  (\E q \in Paths : directory'[q] = c)
                 \/ (c \in 1 .. created /\ \A q \in Paths : directory[q] # c)
    <3>1. CASE c = created + 1
      BY <2>3, <3>1
    <3>2. CASE c \in 1 .. created
      BY <2>2, <2>3, <3>2
    <3> QED BY <1>2, <2>2, <3>1, <3>2
  <2> QED BY <1>1, <1>2, <2>2, <2>3, <2>4
<1>5. CASE \E p, r \in Paths : p \notin Supported /\ OnMoved(p, r)
  <2>1. PICK p \in Paths, r \in Paths : p \notin Supported /\ OnMoved(p, r)
    BY <1>5
  <2>2. /\ p \notin Supported /\ created' = created
        /\ directory[p] # 0 /\ directory[r] = 0
        /\ directory' = [directory EXCEPT ![p] = 0, ![r] = directory[p]]
        /\ UNCHANGED queue \/ (r \in Supported /\ queue' = Append(queue, r))
    BY <2>1, <1>3 DEF OnMoved
  <2>3. /\ directory'[r] = directory[p] /\ directory'[p] = 0
        /\ \A q \in Paths \ {p, r} : directory'[q] = directory[q]
    BY <1>2, <2>2
  <2>4. ASSUME NEW c \in 1 .. created', NEW q \in Paths, directory[q] = c
        PROVE  \E x \in Paths : directory'[x] = c
    BY <1>2, <2>2, <2>3, <2>4
  <2> QED BY <1>1, <1>2, <2>2, <2>3, <2>4
<1> QED BY <1>4, <1>5 DEF Observe

\* Every step keeps the queue different files of the directory.
LEMMA QueueStep ==
  ASSUME TypeOK, QueueInDirectory, [Next]_vars
  PROVE  QueueInDirectory'
<1>1. CASE Observe
  <2>1. /\ queue \in Seq(Supported)
        /\ \A i \in DOMAIN queue : queue[i] \in Supported
        /\ pc \in Pending => file \in Supported
    BY InHandHasContent DEF TypeOK, WatcherTypeOK
  <2>2. CASE UNCHANGED queue
    BY <1>1, <2>1, <2>2, Appears DEF QueueInDirectory
  <2>3. CASE \E p \in Supported : /\ queue' = Append(queue, p)
                                  /\ directory[p] = 0 /\ directory'[p] # 0
    <3>1. PICK p \in Supported : /\ queue' = Append(queue, p)
                                 /\ directory[p] = 0 /\ directory'[p] # 0
      BY <2>3
    <3>2. ASSUME NEW i \in DOMAIN queue'
          PROVE  \/ i \in DOMAIN queue /\ queue'[i] = queue[i]
                 \/ i = Len(queue) + 1 /\ queue'[i] = p
      BY <2>1, <3>1
    <3> QED BY <1>1, <2>1, <3>1, <3>2, Appears DEF QueueInDirectory
  <2> QED BY <1>1, <2>2, <2>3, Appears
<1>2. CASE TakeFile \/ HandToPool
  <2>1. PICK p : GetNextFile(p) /\ (pc' \in Pending => file' = p)
    BY <1>2 DEF TakeFile, HandToPool, NextFile, Pending, Working
  <2>2. UNCHANGED directory
    BY <1>2 DEF TakeFile, HandToPool
  <2>3. ASSUME NEW i \in DOMAIN queue', NEW j \in DOMAIN queue', queue'[i] = queue'[j]
        PROVE  i = j
    BY <2>1, <2>3, TakenFromQueue DEF QueueInDirectory
  <2>4. ASSUME NEW i \in DOMAIN queue'
        PROVE  directory[queue'[i]] # 0 /\ queue'[i] # p
    BY <2>1, <2>4, TakenFromQueue DEF QueueInDirectory
  <2>5. directory[p] # 0
    BY <2>1, TakenFromQueue DEF QueueInDirectory
  <2> QED BY <2>1, <2>2, <2>3, <2>4, <2>5 DEF QueueInDirectory
<1>3. CASE RemoveRaw \/ RemovePcap
  <2>1. /\ pc \in Pending /\ pc' \notin Pending /\ UNCHANGED queue
        /\ directory' = [directory EXCEPT ![file] = 0]
    BY <1>3 DEF RemoveRaw, RemovePcap, Goto, Pending, Working
  <2>2. \A i \in DOMAIN queue : queue[i] # file /\ queue[i] \in Paths
    BY <2>1, PathsAssumption DEF QueueInDirectory, TypeOK, WatcherTypeOK
  <2> QED BY <2>1, <2>2 DEF QueueInDirectory, TypeOK, WatcherTypeOK
<1>4. CASE End
  <2>1. queue' = << >> /\ pc' \notin Pending
    BY <1>4 DEF End, Goto, Pending, Working
  <2>2. DOMAIN queue' = {}
    BY <2>1
  <2> QED BY <2>1, <2>2 DEF QueueInDirectory
<1>5. CASE \/ Start \/ BeginPool \/ ListDir \/ Mkdir \/ Upload \/ Unreachable \/ SendMessage
           \/ EndOfFile \/ Split \/ KeyboardInterrupt \/ RemoveKafkaTopic \/ CloseQueue
           \/ UNCHANGED vars
  <2>1. UNCHANGED <<queue, directory>> /\ (pc' \in Pending => pc \in Pending /\ UNCHANGED file)
    BY <1>5 DEF Start, BeginPool, ListDir, Mkdir, Upload, Unreachable, SendMessage,
                EndOfFile, Split, KeyboardInterrupt, RemoveKafkaTopic, CloseQueue, vars,
                WatcherStart, NextFile, Goto, watcherVars, mainVars, Pending, Working
  <2> QED BY <2>1 DEF QueueInDirectory
<1> QED BY <1>1, <1>2, <1>3, <1>4, <1>5 DEF Next, MainStep, IngestStep

\* A step that creates nothing keeps what is kept where it is, or elsewhere.
LEMMA KeptOn ==
  ASSUME ContentKept, UNCHANGED created,
         misplaced \subseteq misplaced', split \subseteq split',
         refused \subseteq refused', unsplit \subseteq unsplit',
         \A p \in Paths : binary[p] # 0 => binary'[p] = binary[p],
         \A p \in Paths : directory[p] # 0 =>
            \/ directory'[p] = directory[p]
            \/ \E q \in Paths : binary'[q] = directory[p]
            \/ directory[p] \in misplaced' \cup split' \cup refused' \cup unsplit'
  PROVE  ContentKept'
BY DEF ContentKept, Kept

\* Every step keeps what has appeared.
LEMMA KeptStep ==
  ASSUME IngestInv, [Next]_vars
  PROVE  KeptBeforeRemoval' /\ ContentKept'
<1> USE DEF IngestInv
<1>1. CASE Observe
  <2>1. KeptBeforeRemoval'
    <3>1. pc \in {"rm", "rmpcap"} => file \in Supported /\ directory[file] # 0
      BY InHandHasContent DEF Pending, Working, QueueInDirectory
    <3> QED BY <1>1, <3>1, Appears DEF KeptBeforeRemoval
  <2>2. ContentKept'
    BY <1>1, Appears DEF ContentKept, Kept
  <2> QED BY <2>1, <2>2
<1>2. CASE Upload
  <2>1. /\ pc' = "rm" /\ UNCHANGED <<file, directory, created, split, unsplit>>
        /\ pc = "upload"
    BY <1>2 DEF Upload, Goto, watcherVars
  <2>2. file \in Paths /\ binary \in [Paths -> 0 .. MaxCreated]
    BY <2>1, InHandHasContent DEF TypeOK, Pending, Working
  <2>3. /\ misplaced \subseteq misplaced' /\ refused \subseteq refused'
        /\ \A p \in Paths : binary[p] # 0 => binary'[p] = binary[p]
        /\ binary'[file] = directory[file] \/ directory[file] \in misplaced' \cup refused'
    BY <1>2, <2>2 DEF Upload, Uploaded, Refused, hdfsVars
  <2>4. KeptBeforeRemoval'
    BY <2>1, <2>3 DEF KeptBeforeRemoval
  <2> QED BY <2>1, <2>3, <2>4, KeptOn
<1>3. CASE Split
  <2>1. /\ pc' = "rmpcap" /\ UNCHANGED <<file, directory, created, binary, misplaced, refused>>
        /\ split \subseteq split' /\ unsplit \subseteq unsplit'
        /\ directory[file] \in split' \cup unsplit'
    BY <1>3 DEF Split, Goto, watcherVars, hdfsVars
  <2> QED BY <2>1, KeptOn DEF KeptBeforeRemoval
<1>4. CASE RemoveRaw \/ RemovePcap
  <2>1. /\ UNCHANGED <<created, binary, misplaced, split, refused, unsplit>>
        /\ pc \in {"rm", "rmpcap"} /\ pc' \notin {"rm", "rmpcap"}
        /\ directory' = [directory EXCEPT ![file] = 0]
    BY <1>4 DEF RemoveRaw, RemovePcap, Goto, hdfsVars, history
  <2>2. file \in Paths
    BY <2>1, InHandHasContent DEF Pending, Working
  <2>3. ASSUME NEW p \in Paths, directory'[p] # directory[p]
        PROVE  \/ \E q \in Paths : binary[q] = directory[p]
               \/ directory[p] \in misplaced \cup split \cup refused \cup unsplit
    <3>1. p = file
      BY <2>1, <2>3 DEF TypeOK, WatcherTypeOK
    <3> QED BY <2>1, <2>2, <3>1 DEF KeptBeforeRemoval
  <2> QED BY <2>1, <2>3, KeptOn DEF KeptBeforeRemoval
<1>5. CASE \/ Start \/ BeginPool \/ TakeFile \/ HandToPool \/ ListDir \/ Mkdir \/ Unreachable
           \/ SendMessage \/ EndOfFile \/ KeyboardInterrupt \/ RemoveKafkaTopic \/ CloseQueue
           \/ End \/ UNCHANGED vars
  <2>1. /\ UNCHANGED <<created, directory, binary, misplaced, split, refused, unsplit>>
        /\ pc' \in {"rm", "rmpcap"} => UNCHANGED <<pc, file>>
    BY <1>5 DEF Start, BeginPool, TakeFile, HandToPool, ListDir, Mkdir, Unreachable,
                SendMessage, EndOfFile, KeyboardInterrupt, RemoveKafkaTopic, CloseQueue, End,
                vars, WatcherStart, FirstStep, NextFile, Goto, watcherVars, mainVars,
                hdfsVars, history
  <2> QED BY <2>1, KeptOn DEF KeptBeforeRemoval
<1> QED BY <1>1, <1>2, <1>3, <1>4, <1>5 DEF Next, MainStep, IngestStep

\* The invariant.
LEMMA IngestInvariant == Spec => []IngestInv
<1>1. Init => IngestInv
  <2> SUFFICES ASSUME Init PROVE IngestInv
    OBVIOUS
  <2>1. TypeOK
    <3>1. /\ 0 \in 0 .. MaxCreated /\ 0 \in 0 .. processes
          /\ processes \in 1 .. MaxProcesses
          /\ << >> \in Seq(Supported)
      BY PathsAssumption, CollectorAssumption DEF Init
    <3>2. WatcherTypeOK
      BY <3>1 DEF Init, WatcherInit, WatcherTypeOK
    <3>3. pc = "new" /\ file = None /\ pc \notin Working
      BY DEF Init, Working
    <3>4. binary \in [Paths -> 0 .. MaxCreated]
      BY <3>1 DEF Init
    <3> QED BY <3>1, <3>2, <3>3, <3>4 DEF Init, TypeOK
  <2>2. QueueInDirectory /\ KeptBeforeRemoval /\ ContentKept
    BY DEF Init, WatcherInit, QueueInDirectory, KeptBeforeRemoval, ContentKept, Pending,
           Working
  <2> QED BY <2>1, <2>2 DEF IngestInv
<1>2. IngestInv /\ [Next]_vars => IngestInv'
  BY TypeStep, QueueStep, KeptStep DEF IngestInv
<1> QED BY <1>1, <1>2, PTL DEF Spec

\* The state of a classic collector is well typed, with a file in hand exactly while
\* it is ingested.
THEOREM TypeCorrect == Spec => []TypeOK
BY IngestInvariant, PTL DEF IngestInv

\* The Collectors of flow, dns and proxy: nothing that appeared in the directory is
\* lost, wherever ^C falls and whatever fails, but what HDFS refused and what editcap
\* could not split.
THEOREM ContentsAreKept == Spec => []ContentKept
BY IngestInvariant, PTL DEF IngestInv

-----------------------------------------------------------------------------
(* HDFS and the topic *)

\* A file that is in HDFS and whose path has not been sent yet.
Uploading == {"rm", "send"}

\* With no call that failed the directory of the hour exists when a file is uploaded,
\* so that what is announced is there; and what is there is announced, or in hand.
AgreeInv ==
  /\ faults \in Nat /\ interrupts \in Nat
  /\ faults = 0 =>
       /\ hour # "file"
       /\ pc = "upload" => hour = "directory"
       /\ pc \in Uploading => binary[file] # 0
       /\ \A p \in Announced : binary[p] # 0
       /\ interrupts = 0 =>
            \A p \in Paths : binary[p] # 0 => p \in Announced \/ (p = file /\ pc \in Uploading)

\* A step that neither uploads nor sends.
LEMMA AgreeOn ==
  ASSUME AgreeInv, UNCHANGED <<binary, sent, hour>>,
         UNCHANGED faults \/ Fault, UNCHANGED interrupts \/ interrupts' = interrupts + 1,
         faults' = 0 /\ pc' = "upload" => pc = "upload" \/ hour = "directory",
         faults' = 0 /\ pc' \in Uploading => pc \in Uploading /\ file' = file,
         pc \in Uploading /\ interrupts' = interrupts => pc' \in Uploading /\ file' = file
  PROVE  AgreeInv'
<1>1. /\ faults' \in Nat /\ (faults' = 0 => faults = 0)
      /\ interrupts' \in Nat /\ (interrupts' = 0 => interrupts = 0 /\ interrupts' = interrupts)
  BY DEF AgreeInv, Fault
<1>2. Announced' = Announced
  BY DEF Announced
<1> QED BY <1>1, <1>2 DEF AgreeInv

\* The file in hand is uploaded into the directory, unless it is there.
LEMMA UploadAgrees ==
  ASSUME AgreeInv, TypeOK, QueueInDirectory, Upload
  PROVE  AgreeInv'
<1>1. /\ pc = "upload" /\ pc' = "rm" /\ UNCHANGED <<file, sent, interrupts>>
      /\ Uploaded \/ Refused
  BY DEF Upload, Goto, kafkaVars
<1>2. faults \in Nat /\ faults' \in Nat /\ (faults' = 0 => faults = 0 /\ faults' = faults)
  BY <1>1 DEF AgreeInv, Uploaded, Refused, Fault
<1>3. SUFFICES ASSUME faults' = 0, faults = 0, faults' = faults
               PROVE  AgreeInv'
  BY <1>1, <1>2 DEF AgreeInv
<1>4. hour = "directory"
  BY <1>1, <1>3 DEF AgreeInv
<1>5. file \in Paths /\ directory[file] # 0
  BY <1>1, InHandHasContent DEF Pending, Working, QueueInDirectory
<1>6. binary \in [Paths -> 0 .. MaxCreated]
  BY DEF TypeOK
<1>7. /\ hour' = "directory"
      /\ binary'[file] # 0
      /\ \A p \in Paths : p # file => binary'[p] = binary[p]
      /\ \A p \in Paths : binary[p] # 0 => binary'[p] # 0
  <2>1. CASE Uploaded
    BY <1>4, <1>5, <1>6, <2>1 DEF Uploaded
  <2>2. CASE Refused
    <3>1. RefusedAsExisting
      BY <1>3, <2>2 DEF Refused, Fault
    <3> QED BY <1>4, <2>2, <3>1 DEF Refused, RefusedAsExisting, hdfsVars
  <2> QED BY <1>1, <2>1, <2>2
<1>8. Announced' = Announced /\ Announced \subseteq Paths
  BY <1>1, PathsAssumption DEF Announced, TypeOK
<1> QED BY <1>1, <1>2, <1>3, <1>5, <1>7, <1>8 DEF AgreeInv, Uploading

\* Its path is sent.
LEMMA SendAgrees ==
  ASSUME AgreeInv, TypeOK, SendMessage
  PROVE  AgreeInv'
<1>1. /\ pc = "send" /\ pc' = "done" /\ UNCHANGED <<file, binary, hour, interrupts>>
      /\ \/ sent' = Append(sent, file) /\ UNCHANGED faults
         \/ Fault /\ UNCHANGED sent
  BY DEF SendMessage, Goto, hdfsVars, kafkaVars
<1>2. CASE Fault
  <2>1. faults' \in Nat /\ faults' # 0
    BY <1>2 DEF AgreeInv, Fault
  <2> QED BY <1>1, <2>1 DEF AgreeInv
<1>3. CASE sent' = Append(sent, file) /\ UNCHANGED faults
  <2>1. sent \in Seq(Supported)
    BY DEF TypeOK
  <2>2. Announced' = Announced \cup {file}
    <3>1. /\ DOMAIN sent' = 1 .. Len(sent) + 1 /\ DOMAIN sent = 1 .. Len(sent) /\ Len(sent) \in Nat
          /\ sent'[Len(sent) + 1] = file
          /\ \A i \in 1 .. Len(sent) : sent'[i] = sent[i]
      BY <1>3, <2>1
    <3> QED BY <3>1 DEF Announced
  <2> QED BY <1>1, <1>3, <2>2 DEF AgreeInv, Uploading
<1> QED BY <1>1, <1>2, <1>3

\* Every step keeps it.
LEMMA AgreeStep ==
  ASSUME AgreeInv, TypeOK, QueueInDirectory, [Next]_vars
  PROVE  AgreeInv'
<1>1. CASE Upload
  BY <1>1, UploadAgrees
<1>2. CASE SendMessage
  BY <1>2, SendAgrees
<1>3. CASE Mkdir
  <2>1. /\ pc = "mkdir" /\ pc' = "upload" /\ UNCHANGED <<file, binary, sent, interrupts>>
        /\ \/ hour' = (IF hour = "none" THEN "directory" ELSE hour) /\ UNCHANGED faults
           \/ Fault /\ UNCHANGED hour
    BY <1>3 DEF Mkdir, Goto, kafkaVars
  <2>2. faults' \in Nat /\ (faults' = 0 => faults = 0 /\ faults' = faults)
    BY <2>1 DEF AgreeInv, Fault
  <2>3. faults' = 0 => hour' = "directory"
    <3>1. faults' = 0 => hour \in {"none", "directory"} /\ ~Fault
      BY <2>2 DEF AgreeInv, TypeOK, Fault
    <3> QED BY <2>1, <3>1
  <2>4. Announced' = Announced
    BY <2>1 DEF Announced
  <2> QED BY <2>1, <2>2, <2>3, <2>4 DEF AgreeInv, Uploading
<1>4. CASE Unreachable
  <2>1. Fault /\ UNCHANGED interrupts
    BY <1>4 DEF Unreachable
  <2>2. faults' \in Nat /\ faults' # 0 /\ interrupts' \in Nat
    BY <2>1 DEF AgreeInv, Fault
  <2> QED BY <2>2 DEF AgreeInv
<1>5. CASE ListDir
  BY <1>5, AgreeOn DEF ListDir, Goto, HourHasFiles, hdfsVars, kafkaVars, Uploading
<1>6. CASE Split
  BY <1>6, AgreeOn DEF Split, Goto, hdfsVars, kafkaVars, Uploading
<1>7. CASE RemoveRaw \/ RemovePcap
  BY <1>7, AgreeOn DEF RemoveRaw, RemovePcap, Goto, hdfsVars, kafkaVars, history, Uploading
<1>8. CASE Observe \/ UNCHANGED vars
  BY <1>8, AgreeOn DEF Observe, vars, mainVars, hdfsVars, kafkaVars, history
<1>9. CASE Start \/ BeginPool \/ TakeFile \/ HandToPool \/ EndOfFile
  <2>1. /\ UNCHANGED <<binary, sent, hour, faults, interrupts>>
        /\ pc \notin Uploading /\ pc' \notin Uploading \cup {"upload"}
    BY <1>9 DEF Start, BeginPool, TakeFile, HandToPool, EndOfFile, FirstStep, NextFile,
                hdfsVars, kafkaVars, history, Uploading
  <2> QED BY <2>1, AgreeOn
<1>10. CASE KeyboardInterrupt
  <2>1. /\ UNCHANGED <<binary, sent, hour, faults>> /\ pc' = "interrupted"
        /\ interrupts' = interrupts + 1 /\ interrupts' # interrupts
    BY <1>10 DEF KeyboardInterrupt, hdfsVars, kafkaVars, AgreeInv
  <2>2. pc' \notin Uploading \cup {"upload"}
    BY <2>1 DEF Uploading
  <2> QED BY <2>1, <2>2, AgreeOn
<1>11. CASE RemoveKafkaTopic \/ CloseQueue \/ End
  <2>1. /\ UNCHANGED <<binary, sent, hour, faults, interrupts>>
        /\ pc \notin Uploading /\ pc' \notin Uploading \cup {"upload"}
    BY <1>11 DEF RemoveKafkaTopic, CloseQueue, End, Goto, hdfsVars, kafkaVars, history,
                 Uploading
  <2> QED BY <2>1, AgreeOn
<1> QED BY <1>1, <1>2, <1>3, <1>4, <1>5, <1>6, <1>7, <1>8, <1>9, <1>10, <1>11
        DEF Next, MainStep, IngestStep

\* The invariant.
LEMMA AgreeInvariant == Spec => []AgreeInv
<1>1. Init => AgreeInv
  <2> SUFFICES ASSUME Init PROVE AgreeInv
    OBVIOUS
  <2>1. sent = << >> /\ faults = 0 /\ interrupts = 0 /\ hour = "none" /\ pc = "new"
        /\ \A p \in Paths : binary[p] = 0
    BY DEF Init
  <2>2. Announced = {}
    BY <2>1 DEF Announced
  <2> QED BY <2>1, <2>2 DEF AgreeInv, Uploading
<1>2. AgreeInv /\ IngestInv /\ [Next]_vars => AgreeInv'
  BY AgreeStep DEF IngestInv
<1> QED BY <1>1, <1>2, IngestInvariant, PTL DEF Spec

\* HDFSAndTopicAgree: while no call fails, a worker finds every file it is told of in
\* HDFS and, but for an interrupt, is told of every file that is there.
THEOREM HDFSAgreesWithTopic == Spec => []HDFSAndTopicAgree
<1>1. AgreeInv /\ IngestInv => HDFSAndTopicAgree
  <2> SUFFICES ASSUME AgreeInv, TypeOK PROVE HDFSAndTopicAgree
    BY DEF IngestInv
  <2>1. file = None => pc \notin Uploading
    BY DEF TypeOK, Working, Uploading
  <2> QED BY <2>1 DEF AgreeInv, HDFSAndTopicAgree
<1> QED BY <1>1, AgreeInvariant, IngestInvariant, PTL

-----------------------------------------------------------------------------
(* With the workers *)

\* Files that nfcapd is still writing.
Writing == {p \in Paths \ Supported : directory[p] # 0}

\* Of the files detected, the first Passed ones have been sent or not; no more files
\* are detected than have appeared.
SentArePassed ==
  /\ \A i \in DOMAIN sent : \E k \in 1 .. Passed : sent[i] = detected[k]
  /\ Len(sent) <= Passed
  /\ IsFiniteSet(Writing)
  /\ Len(detected) + Cardinality(Writing) <= created

\* A collector that nothing happens to; what it ingests has a date.
Healthy ==
  /\ pipeline = "flow" /\ processes = 1
  /\ faults = 0 /\ interrupts = 0
  /\ topic = sent
  /\ pc \notin {"interrupted", "stop", "closed", "split", "rmpcap"}
  /\ pc \in Working \ {"done"} => file \in Dated
  /\ IsInjective(detected)

\* The children have files of the topic.
ChildrenAnnounced ==
  /\ position \in [Workers -> Nat \cup {None}]
  /\ committed \in [Workers -> Nat \cup {None}]
  /\ child \in [Workers -> [pc : W!ChildPcs, file : Announced \cup {None},
                            stage : StageIds \cup {None}]]
  /\ \A w \in Workers : child[w].pc # "poll" => child[w].file \in Announced

CollectorInv == ChannelInv /\ IngestInv /\ AgreeInv

ComposedInv == CollectorInv /\ SentArePassed /\ Healthy /\ ChildrenAnnounced

\* A step of the composition is one of the collector, or none.
LEMMA ComposedIsCollector ==
  IngestNext => [Next]_vars
BY DEF IngestNext, CollectorStep, WorkersStep, ObserveOnce, Next

\* Files that appear while others are renamed: each is detected once.
LEMMA AppearsOnce ==
  ASSUME TypeOK, SentArePassed, Observe
  PROVE  /\ IsFiniteSet(Writing') /\ Len(detected') + Cardinality(Writing') <= created'
<1>1. /\ IsFiniteSet(Writing) /\ Len(detected) + Cardinality(Writing) <= created
      /\ Cardinality(Writing) \in Nat /\ Len(detected) \in Nat /\ created \in Nat
      /\ directory \in [Paths -> 0 .. MaxCreated]
      /\ detected \in Seq(Supported)
  BY FS_CardinalityType DEF SentArePassed, TypeOK, WatcherTypeOK
<1>2. ASSUME NEW p \in Paths, OnCreated(p)
      PROVE  /\ IsFiniteSet(Writing') /\ Len(detected') + Cardinality(Writing') <= created'
  <2>1. /\ directory[p] = 0 /\ created' = created + 1 /\ created' # 0
        /\ directory' = [directory EXCEPT ![p] = created + 1]
    BY <1>1, <1>2 DEF OnCreated
  <2>2. CASE p \in Supported
    <3>1. Writing' = Writing
      BY <1>1, <2>1, <2>2 DEF Writing
    <3>2. Len(detected') <= Len(detected) + 1 /\ Len(detected') \in Nat
      BY <1>1, <1>2, <2>2 DEF OnCreated, NewFileDetected, Queued
    <3> QED BY <1>1, <2>1, <3>1, <3>2
  <2>3. CASE p \notin Supported
    <3>1. Writing' = Writing \cup {p} /\ p \notin Writing
      BY <1>1, <2>1, <2>3 DEF Writing
    <3>2. IsFiniteSet(Writing') /\ Cardinality(Writing') = Cardinality(Writing) + 1
      BY <1>1, <3>1, FS_AddElement
    <3>3. UNCHANGED detected
      BY <1>2, <2>3 DEF OnCreated, NewFileDetected
    <3> QED BY <1>1, <2>1, <3>2, <3>3
  <2> QED BY <2>2, <2>3
<1>3. ASSUME NEW p \in Paths, NEW q \in Paths, p \notin Supported, OnMoved(p, q)
      PROVE  /\ IsFiniteSet(Writing') /\ Len(detected') + Cardinality(Writing') <= created'
  <2>1. /\ directory[p] # 0 /\ directory[q] = 0 /\ p # q
        /\ directory' = [directory EXCEPT ![p] = 0, ![q] = directory[p]]
        /\ UNCHANGED created
    BY <1>3 DEF OnMoved
  <2>2. p \in Writing /\ q \notin Writing
    BY <1>1, <1>3, <2>1 DEF Writing
  <2>3. IsFiniteSet(Writing \ {p}) /\ Cardinality(Writing \ {p}) = Cardinality(Writing) - 1
    BY <1>1, <2>2, FS_RemoveElement
  <2>4. CASE q \in Supported
    <3>1. Writing' = Writing \ {p}
      BY <1>1, <1>3, <2>1, <2>4 DEF Writing
    <3>2. Len(detected') <= Len(detected) + 1 /\ Len(detected') \in Nat
      BY <1>1, <1>3, <2>1 DEF OnMoved, NewFileDetected, Queued
    <3> QED BY <1>1, <2>1, <2>3, <3>1, <3>2
  <2>5. CASE q \notin Supported
    <3>1. Writing' = (Writing \ {p}) \cup {q} /\ q \notin Writing \ {p}
      BY <1>1, <1>3, <2>1, <2>2, <2>5 DEF Writing
    <3>2. IsFiniteSet(Writing') /\ Cardinality(Writing') = Cardinality(Writing \ {p}) + 1
      BY <2>3, <3>1, FS_AddElement
    <3>3. UNCHANGED detected
      BY <1>3, <2>5 DEF OnMoved, NewFileDetected
    <3> QED BY <1>1, <2>1, <2>3, <3>2, <3>3
  <2> QED BY <2>4, <2>5
<1> QED BY <1>2, <1>3 DEF Observe

\* What the channel passes and announces.
LEMMA ChannelPasses ==
  ASSUME ChannelInv, ChannelInv', SentArePassed, [Channel!Next]_channelVars
  PROVE  /\ \A i \in DOMAIN sent' : \E k \in 1 .. Passed' : sent'[i] = detected'[k]
         /\ Len(sent') <= Passed'
<1>1. /\ detected \in Seq(Supported) /\ sent \in Seq(Supported)
      /\ Len(detected) \in Nat /\ Len(sent) \in Nat /\ DOMAIN sent = 1 .. Len(sent)
      /\ Passed \in Nat /\ Passed <= Len(detected)
  BY DEF ChannelInv, InHand, Passed
<1>2. /\ \A i \in DOMAIN sent : \E k \in 1 .. Passed : sent[i] = detected[k]
      /\ Len(sent) <= Passed
  BY DEF SentArePassed
<1>3. CASE \E f \in Supported : Channel!Arrive(f)
  <2>1. PICK f \in Supported : detected' = Append(detected, f) /\ Passed' = Passed /\ sent' = sent
    BY <1>3 DEF Channel!Arrive, Passed
  <2>2. \A k \in 1 .. Passed : detected'[k] = detected[k]
    BY <1>1, <2>1
  <2>3. Len(sent') <= Passed' /\ DOMAIN sent' = DOMAIN sent
    BY <1>2, <2>1
  <2>4. ASSUME NEW i \in DOMAIN sent' PROVE \E k \in 1 .. Passed' : sent'[i] = detected'[k]
    <3>1. PICK k \in 1 .. Passed : sent[i] = detected[k]
      BY <1>2, <2>3
    <3> QED BY <2>1, <2>2, <3>1
  <2> QED BY <2>3, <2>4
<1>4. CASE Channel!Announce
  <2>1. /\ Passed' = Passed + 1 /\ sent' = Append(sent, detected[Passed + 1])
        /\ detected' = detected
    BY <1>4 DEF Channel!Announce, Passed
  <2>2. /\ Len(sent') = Len(sent) + 1 /\ DOMAIN sent' = 1 .. Len(sent) + 1
        /\ sent'[Len(sent) + 1] = detected[Passed + 1]
        /\ \A i \in 1 .. Len(sent) : sent'[i] = sent[i]
    <3>1. Passed < Len(detected)
      BY <1>4 DEF Channel!Announce, Passed
    <3>2. detected[Passed + 1] \in Supported
      BY <1>1, <3>1
    <3> QED BY <1>1, <2>1, <3>2
  <2>3. ASSUME NEW i \in DOMAIN sent' PROVE \E k \in 1 .. Passed' : sent'[i] = detected'[k]
    <3>1. CASE i = Len(sent) + 1
      BY <1>1, <2>1, <2>2, <3>1
    <3>2. CASE i \in DOMAIN sent
      <4>1. PICK k \in 1 .. Passed : sent[i] = detected[k]
        BY <1>2, <3>2
      <4>2. k \in 1 .. Passed' /\ sent'[i] = detected'[k]
        BY <1>1, <2>1, <2>2, <3>2, <4>1
      <4> QED BY <4>2
    <3> QED BY <1>1, <2>2, <3>1, <3>2
  <2> QED BY <1>1, <1>2, <2>1, <2>2, <2>3
<1>5. CASE Channel!PassOver
  <2>1. Passed' \in Passed + 1 .. Len(detected) /\ UNCHANGED <<detected, sent>>
    BY <1>5 DEF Channel!PassOver, Passed
  <2>2. 1 .. Passed \subseteq 1 .. Passed'
    BY <1>1, <2>1
  <2> QED BY <1>1, <1>2, <2>1, <2>2
<1>6. CASE UNCHANGED channelVars
  BY <1>2, <1>6 DEF channelVars
<1> QED BY <1>3, <1>4, <1>5, <1>6 DEF Channel!Next


\* Nothing happens to the collector.
LEMMA StaysHealthy ==
  ASSUME MaxFaults = 0, ComposedInv, [IngestNext]_<<vars, workerVars>>
  PROVE  Healthy'
<1>1. ~Fault
  BY DEF ComposedInv, Healthy, Fault
<1>2. Healthy /\ InProcess
  BY DEF ComposedInv, Healthy, InProcess
<1>3. CASE UNCHANGED vars
  BY <1>2, <1>3 DEF Healthy, vars, mainVars, kafkaVars, history, watcherVars
<1>4. CASE ObserveOnce
  BY <1>2, <1>4 DEF ObserveOnce, Observe, Healthy, mainVars, kafkaVars, history
<1>5. CASE Start \/ BeginPool \/ EndOfFile
  <2>1. /\ UNCHANGED <<pipeline, processes, faults, interrupts, topic, sent, detected>>
        /\ pc' \in {"sleep", "pool"}
    BY <1>5 DEF Start, BeginPool, EndOfFile, NextFile, WatcherStart, watcherVars, kafkaVars,
                history
  <2> QED BY <1>2, <2>1 DEF Healthy, Working
<1>6. CASE TakeFile
  <2>1. PICK p \in Supported : file' = p /\ pc' = FirstStep(p)
    BY <1>6 DEF TakeFile
  <2>2. pc' = IF p \in Dated THEN "list" ELSE "done"
    BY <1>2, <2>1 DEF FirstStep, Healthy
  <2>3. UNCHANGED <<pipeline, processes, faults, interrupts, topic, sent, detected>>
    BY <1>6 DEF TakeFile, kafkaVars, history
  <2> QED BY <1>2, <2>1, <2>2, <2>3 DEF Healthy, Working
<1>7. CASE ListDir \/ Mkdir \/ Upload \/ RemoveRaw
  <2>1. /\ UNCHANGED <<pipeline, processes, faults, interrupts, topic, sent, detected, file>>
        /\ pc \in {"list", "mkdir", "upload", "rm"}
        /\ pc' \in {"mkdir", "upload", "rm", "send"}
    BY <1>1, <1>7 DEF ListDir, Mkdir, Upload, Uploaded, Refused, RemoveRaw, Goto, watcherVars,
                      kafkaVars, history
  <2> QED BY <1>2, <2>1 DEF Healthy, Working
<1>8. CASE SendMessage
  <2>1. /\ UNCHANGED <<pipeline, processes, faults, interrupts, detected, file>>
        /\ pc' = "done"
        /\ topic' = Append(topic, file) /\ sent' = Append(sent, file)
    BY <1>1, <1>8 DEF SendMessage, Goto, watcherVars, kafkaVars, history
  <2> QED BY <1>2, <2>1 DEF Healthy
<1>9. ~(HandToPool \/ Unreachable \/ Split \/ RemovePcap \/ RemoveKafkaTopic \/ CloseQueue \/ End)
  BY <1>1, <1>2 DEF Healthy, HandToPool, Unreachable, Split, RemovePcap, RemoveKafkaTopic,
                    CloseQueue, End
<1> QED BY <1>3, <1>4, <1>5, <1>6, <1>7, <1>8, <1>9
        DEF IngestNext, CollectorStep, WorkersStep, MainStep, IngestStep

\* What was announced remains so.
LEMMA StaysAnnounced ==
  ASSUME ComposedInv, [IngestNext]_<<vars, workerVars>>
  PROVE  Announced \subseteq Announced'
<1>1. UNCHANGED sent \/ sent' = Append(sent, file)
  BY DEF IngestNext, CollectorStep, WorkersStep, ObserveOnce, Observe, Start, MainStep,
         BeginPool, TakeFile, HandToPool, IngestStep, ListDir, Mkdir, Upload, Unreachable,
         RemoveRaw, SendMessage, Split, RemovePcap, EndOfFile, RemoveKafkaTopic, CloseQueue,
         End, vars, kafkaVars
<1>2. CASE UNCHANGED sent
  BY <1>2 DEF Announced
<1>3. CASE sent' = Append(sent, file)
  <2>1. sent \in Seq(Supported)
    BY DEF ComposedInv, CollectorInv, ChannelInv
  <2>2. /\ DOMAIN sent = 1 .. Len(sent) /\ DOMAIN sent' = 1 .. Len(sent) + 1 /\ Len(sent) \in Nat
        /\ \A i \in 1 .. Len(sent) : sent'[i] = sent[i]
    BY <1>3, <2>1
  <2> QED BY <2>2 DEF Announced
<1> QED BY <1>1, <1>2, <1>3

\* The files passed and announced.
LEMMA StaysPassed ==
  ASSUME ComposedInv, ChannelInv', [IngestNext]_<<vars, workerVars>>
  PROVE  SentArePassed'
<1>1. [Next]_vars /\ ChannelInv /\ TypeOK /\ SentArePassed
  BY ComposedIsCollector DEF ComposedInv, CollectorInv, IngestInv
<1>2. /\ \A i \in DOMAIN sent' : \E k \in 1 .. Passed' : sent'[i] = detected'[k]
      /\ Len(sent') <= Passed'
  BY <1>1, ChannelStep, ChannelPasses
<1>3. IsFiniteSet(Writing') /\ Len(detected') + Cardinality(Writing') <= created'
  <2>1. CASE Observe
    BY <1>1, <2>1, AppearsOnce
  <2>2. CASE RemoveRaw \/ RemovePcap
    <3>1. UNCHANGED <<detected, created>> /\ directory' = [directory EXCEPT ![file] = 0]
      BY <2>2 DEF RemoveRaw, RemovePcap
    <3>2. file \in Supported /\ directory \in [Paths -> 0 .. MaxCreated]
      BY <1>1, <2>2 DEF TypeOK, WatcherTypeOK, RemoveRaw, RemovePcap, Working
    <3>3. Writing' = Writing
      BY <3>1, <3>2 DEF Writing
    <3> QED BY <1>1, <3>1, <3>3 DEF SentArePassed
  <2>3. CASE UNCHANGED <<directory, detected, created>>
    <3>1. Writing' = Writing
      BY <2>3 DEF Writing
    <3> QED BY <1>1, <2>3, <3>1 DEF SentArePassed
  <2>4. CASE ~Observe /\ ~RemoveRaw /\ ~RemovePcap
    BY <1>1, <2>3, <2>4
    DEF Next, Start, MainStep, BeginPool, TakeFile, HandToPool, IngestStep, ListDir, Mkdir,
        Upload, Unreachable, SendMessage, Split, EndOfFile, RemoveKafkaTopic, CloseQueue, End,
        KeyboardInterrupt, WatcherStart, vars, watcherVars
  <2> QED BY <2>1, <2>2, <2>4
<1> QED BY <1>2, <1>3 DEF SentArePassed


\* The children's files.
LEMMA ChildrenStep ==
  ASSUME ComposedInv, [IngestNext]_<<vars, workerVars>>
  PROVE  ChildrenAnnounced'
<1> DEFINE Records == [pc : W!ChildPcs, file : Announced \cup {None}, stage : StageIds \cup {None}]
<1>1. /\ position \in [Workers -> Nat \cup {None}] /\ committed \in [Workers -> Nat \cup {None}]
      /\ child \in [Workers -> Records]
      /\ \A w \in Workers : child[w].pc # "poll" => child[w].file \in Announced
  BY DEF ComposedInv, ChildrenAnnounced
<1>2. CASE UNCHANGED workerVars
  <2>1. Announced \subseteq Announced'
    BY StaysAnnounced
  <2>2. /\ child \in [Workers -> [pc : W!ChildPcs, file : Announced' \cup {None},
                                  stage : StageIds \cup {None}]]
        /\ \A w \in Workers : child[w].pc # "poll" => child[w].file \in Announced'
    BY <1>1, <2>1
  <2>3. UNCHANGED <<position, committed, child>>
    BY <1>2 DEF workerVars
  <2> QED BY <1>1, <2>2, <2>3 DEF ChildrenAnnounced, W!ChildPcs
<1>3. CASE WorkersStep
  <2>1. PICK w \in Workers : W!WorkerStep(w) \/ W!Commit(w)
    BY <1>3 DEF WorkersStep
  <2>2. Announced' = Announced
    BY <1>3 DEF WorkersStep, vars, kafkaVars, Announced
  <2>3. SUFFICES /\ position' \in [Workers -> Nat \cup {None}]
                 /\ committed' \in [Workers -> Nat \cup {None}]
                 /\ child' \in [Workers -> Records]
                 /\ child'[w].pc # "poll" => child'[w].file \in Announced
                 /\ \A v \in Workers : v # w => child'[v] = child[v]
    BY <1>1, <2>2 DEF ChildrenAnnounced, W!ChildPcs
  <2>4. child[w] \in Records
    BY <1>1
  <2>5. CASE W!Subscribe(w) \/ W!Commit(w)
    <3>1. W!ResetOffset = 0
      BY DEF W!ResetOffset
    <3>2. UNCHANGED child
      BY <2>5 DEF W!Subscribe, W!Commit
    <3>3. position' \in [Workers -> Nat \cup {None}] /\ committed' \in [Workers -> Nat \cup {None}]
      BY <1>1, <2>5, <3>1 DEF W!Subscribe, W!Commit
    <3> QED BY <1>1, <3>2, <3>3
  <2>6. CASE W!Poll(w)
    <3> DEFINE new == [W!NoChild EXCEPT !.pc = "download", !.file = topic[position[w] + 1]]
    <3>1. /\ position[w] \in Nat /\ position[w] < Len(topic) /\ topic = sent
          /\ UNCHANGED committed
          /\ position' = [position EXCEPT ![w] = @ + 1]
          /\ child' = [child EXCEPT ![w] = new]
      BY <1>1, <2>6 DEF W!Poll, ComposedInv, Healthy
    <3>2. sent \in Seq(Supported)
      BY DEF ComposedInv, CollectorInv, ChannelInv
    <3>3. topic[position[w] + 1] \in Announced
      BY <3>1, <3>2 DEF Announced
    <3>4. new \in Records /\ new.file = topic[position[w] + 1]
      BY <3>3 DEF W!NoChild, W!ChildPcs
    <3> HIDE DEF new
    <3> QED BY <1>1, <3>1, <3>3, <3>4
  <2>7. CASE \E p \in W!ChildPcs : W!Goto(w, p) /\ child[w].pc # "poll"
                                   /\ UNCHANGED <<position, committed>>
    <3>1. PICK p \in W!ChildPcs : child' = [child EXCEPT ![w].pc = p]
      BY <2>7 DEF W!Goto
    <3>2. child'[w] = [child[w] EXCEPT !.pc = p]
      BY <1>1, <3>1
    <3>3. child'[w] \in Records /\ child'[w].file = child[w].file
      BY <2>4, <3>2
    <3> QED BY <1>1, <2>7, <3>1, <3>3
  <2>8. CASE W!Mkdir(w)
    <3>1. PICK i \in StageIds : child' = [child EXCEPT ![w].pc = "upload", ![w].stage = i]
      BY <2>8 DEF W!Mkdir
    <3>2. child[w].pc # "poll" /\ UNCHANGED <<position, committed>>
      BY <2>8 DEF W!Mkdir, W!At, W!kafkaVars
    <3>3. child'[w] = [child[w] EXCEPT !.pc = "upload", !.stage = i]
      BY <1>1, <3>1
    <3>4. child'[w] \in Records /\ child'[w].file = child[w].file
      BY <2>4, <3>3 DEF W!ChildPcs
    <3> QED BY <1>1, <3>1, <3>2, <3>4
  <2>9. CASE W!RemoveLocal(w) \/ W!ChildFails(w)
    <3>1. child' = [child EXCEPT ![w] = W!NoChild] /\ UNCHANGED <<position, committed>>
      BY <2>9 DEF W!RemoveLocal, W!ChildFails, W!kafkaVars
    <3>2. W!NoChild \in Records /\ W!NoChild.pc = "poll"
      BY DEF W!NoChild, W!ChildPcs
    <3> QED BY <1>1, <3>1, <3>2
  <2>10. CASE \/ W!Download(w) \/ W!Nfdump(w) \/ W!Upload(w) \/ W!DropTable(w)
              \/ W!CreateTable(w) \/ W!Insert(w) \/ W!DeleteStage(w)
    BY <2>7, <2>10 DEF W!Download, W!Nfdump, W!Upload, W!DropTable, W!CreateTable, W!Insert,
                       W!DeleteStage, W!At, W!ChildPcs, W!kafkaVars
  <2> QED BY <2>1, <2>5, <2>6, <2>8, <2>9, <2>10 DEF W!WorkerStep, W!ChildStep
<1> QED BY <1>2, <1>3 DEF IngestNext, CollectorStep, WorkersStep


\* The composition leaves the collector as it is.
LEMMA IngestIsCollector == IngestSpec => Spec
<1>1. IngestInit => Init
  BY DEF IngestInit
<1>2. [IngestNext]_<<vars, workerVars>> => [Next]_vars
  BY ComposedIsCollector
<1> QED BY <1>1, <1>2, PTL DEF IngestSpec, Spec

\* What holds of the collector alone.
LEMMA CollectorInvariant == Spec => []CollectorInv
<1>1. Init => ChannelInv
  <2> SUFFICES ASSUME Init PROVE ChannelInv
    OBVIOUS
  <2>1. /\ detected = << >> /\ queue = << >> /\ sent = << >> /\ InHand = 0
        /\ pc \notin Working
    BY DEF Init, WatcherInit, InHand, Working
  <2>2. detected \in Seq(Supported) /\ Len(detected) = 0 /\ Len(queue) = 0
    BY <2>1
  <2> QED BY <2>1, <2>2 DEF ChannelInv
<1>2. ChannelInv /\ [Next]_vars => ChannelInv'
  BY ChannelStep
<1>3. Spec => []ChannelInv
  BY <1>1, <1>2, PTL DEF Spec
<1> QED BY <1>3, IngestInvariant, AgreeInvariant, PTL DEF CollectorInv

\* The invariant of the composition.
LEMMA ComposedInvariant ==
  ASSUME MaxFaults = 0
  PROVE  IngestSpec => []ComposedInv
<1>1. IngestInit /\ CollectorInv => ComposedInv
  <2> SUFFICES ASSUME IngestInit, CollectorInv PROVE ComposedInv
    OBVIOUS
  <2>1. /\ detected = << >> /\ queue = << >> /\ sent = << >> /\ topic = << >>
        /\ created = 0 /\ pc = "new" /\ faults = 0 /\ interrupts = 0
        /\ pipeline = "flow" /\ processes = 1
        /\ \A p \in Paths : directory[p] = 0
    BY DEF IngestInit, Init, WatcherInit
  <2>2. SentArePassed
    <3>1. Writing = {}
      BY <2>1 DEF Writing
    <3>2. IsFiniteSet(Writing) /\ Cardinality(Writing) = 0
      BY <3>1, FS_EmptySet
    <3>3. Len(sent) = 0 /\ Len(detected) = 0 /\ Len(queue) = 0 /\ DOMAIN sent = {} /\ InHand = 0
      BY <2>1 DEF InHand, Working
    <3>4. Passed = 0
      BY <3>3 DEF Passed
    <3> QED BY <2>1, <3>2, <3>3, <3>4 DEF SentArePassed
  <2>3. Healthy
    <3>1. IsInjective(detected)
      BY <2>1 DEF IsInjective
    <3> QED BY <2>1, <3>1 DEF Healthy, Working
  <2>4. ChildrenAnnounced
    <3>1. W!NoChild \in [pc : W!ChildPcs, file : Announced \cup {None},
                         stage : StageIds \cup {None}]
          /\ W!NoChild.pc = "poll"
      BY DEF W!NoChild, W!ChildPcs
    <3> QED BY <3>1 DEF IngestInit, W!Init, ChildrenAnnounced
  <2> QED BY <2>2, <2>3, <2>4 DEF ComposedInv
<1>2. ComposedInv /\ CollectorInv' /\ [IngestNext]_<<vars, workerVars>> => ComposedInv'
  BY StaysHealthy, StaysPassed, ChildrenStep DEF ComposedInv, CollectorInv
<1>3. IngestSpec => []CollectorInv
  BY IngestIsCollector, CollectorInvariant, PTL
<1> QED BY <1>1, <1>2, <1>3, PTL DEF IngestSpec

\* What the workers see of HDFS and the topic.
stubVars == <<topic, position, committed, Announced, stage, local, csv, flow_tmp, flow, clash, child,
              successes, faults, 0>>

\* A file that is sent is new to the workers, and there is room for it.
LEMMA SendIsArrive ==
  ASSUME MaxFaults = 0, ComposedInv, SendMessage, UNCHANGED workerVars
  PROVE  \E f \in Dated : Stub!Arrive(f)
<1>1. ~Fault
  BY DEF ComposedInv, Healthy, Fault
<1>2. /\ pc = "send" /\ topic' = Append(topic, file) /\ sent' = Append(sent, file)
      /\ UNCHANGED faults
  BY <1>1 DEF SendMessage
<1>3. /\ detected \in Seq(Supported) /\ sent \in Seq(Supported) /\ Len(queue) \in Nat
      /\ InHand = 1 /\ Len(detected) \in Nat /\ Len(sent) \in Nat
      /\ Len(queue) + 1 <= Len(detected)
      /\ file = detected[Passed + 1]
      /\ Passed \in Nat /\ Passed + 1 \in DOMAIN detected
  <2>1. pc \in Working \ {"done"}
    BY <1>2 DEF Working
  <2>2. /\ ChannelInv /\ InHand = 1
    BY <2>1 DEF ComposedInv, CollectorInv, InHand
  <2> QED BY <2>1, <2>2 DEF ChannelInv, Passed
<1>4. file \in Dated /\ topic = sent
  BY <1>2 DEF ComposedInv, Healthy, Working
<1>5. file \notin Announced
  <2> SUFFICES ASSUME NEW i \in DOMAIN sent, sent[i] = file PROVE FALSE
    BY DEF Announced
  <2>1. PICK k \in 1 .. Passed : sent[i] = detected[k]
    BY DEF ComposedInv, SentArePassed
  <2>2. k \in DOMAIN detected /\ k # Passed + 1
    BY <1>3
  <2> QED BY <1>3, <2>1, <2>2 DEF ComposedInv, Healthy, IsInjective
<1>6. Len(topic) < MaxCreated
  <2>1. /\ Len(sent) <= Passed /\ Len(detected) + Cardinality(Writing) <= created
        /\ IsFiniteSet(Writing)
    BY DEF ComposedInv, SentArePassed
  <2>2. created <= MaxCreated /\ created \in Nat /\ MaxCreated \in Nat
    BY PathsAssumption DEF ComposedInv, CollectorInv, IngestInv, TypeOK, WatcherTypeOK
  <2>3. Cardinality(Writing) \in Nat
    BY <2>1, FS_CardinalityType
  <2>4. Passed + 1 <= Len(detected)
    BY <1>3 DEF Passed
  <2> QED BY <1>3, <1>4, <2>1, <2>2, <2>3, <2>4
<1>7. Announced' = Announced \cup {file}
  <2>1. /\ DOMAIN sent' = 1 .. Len(sent) + 1 /\ DOMAIN sent = 1 .. Len(sent)
        /\ sent'[Len(sent) + 1] = file
        /\ \A i \in 1 .. Len(sent) : sent'[i] = sent[i]
    BY <1>2, <1>3
  <2> QED BY <1>3, <2>1 DEF Announced
<1>8. Stub!Arrive(file)
  BY <1>2, <1>5, <1>6, <1>7
  DEF workerVars, Stub!Arrive, Stub!localVars, Stub!hiveVars, Stub!bounds
<1> QED BY <1>4, <1>8

\* No other step of the collector concerns them.
LEMMA CollectorStepIsHidden ==
  ASSUME MaxFaults = 0, ComposedInv, CollectorStep, ~SendMessage
  PROVE  UNCHANGED stubVars
<1>1. UNCHANGED workerVars /\ ~Fault /\ ~RemoveKafkaTopic
  BY DEF CollectorStep, ComposedInv, Healthy, Fault, RemoveKafkaTopic
<1>2. UNCHANGED <<topic, sent, faults>>
  BY <1>1 DEF CollectorStep, ObserveOnce, Observe, Start, MainStep, BeginPool, TakeFile,
              HandToPool, IngestStep, ListDir, Mkdir, Upload, Uploaded, Refused, Unreachable,
              RemoveRaw, Split, RemovePcap, EndOfFile, CloseQueue, End, kafkaVars, history
<1> QED BY <1>1, <1>2 DEF stubVars, workerVars, Announced

\* A step of a worker is the same step when the files are there from their messages on.
LEMMA WorkerStepIsAlone ==
  ASSUME ComposedInv, WorkersStep
  PROVE  \E w \in Workers : Stub!WorkerStep(w) \/ Stub!Commit(w)
<1>1. PICK w \in Workers : W!WorkerStep(w) \/ W!Commit(w)
  BY DEF WorkersStep
<1>2. UNCHANGED <<InHDFS, Announced, topic, faults>>
  BY DEF WorkersStep, vars, hdfsVars, kafkaVars, history, InHDFS, Announced
<1>3. CASE W!Download(w)
  <2>1. child[w].file \in Announced
    BY <1>3 DEF ComposedInv, ChildrenAnnounced, W!Download, W!At
  <2>2. Announced \subseteq InHDFS
    <3>1. sent \in Seq(Supported) /\ faults = 0 /\ AgreeInv
      BY DEF ComposedInv, CollectorInv, ChannelInv, Healthy
    <3>2. Announced \subseteq Paths
      BY <3>1, PathsAssumption DEF Announced
    <3> QED BY <3>1, <3>2 DEF AgreeInv, InHDFS
  <2>3. Stub!Download(w)
    BY <1>2, <1>3, <2>1, <2>2
    DEF W!Download, Stub!Download, W!At, Stub!At, W!Goto, Stub!Goto, W!File, Stub!File, W!Host,
        Stub!Host, W!Fault, Stub!Fault, W!kafkaVars, Stub!kafkaVars, W!hdfsVars, Stub!hdfsVars,
        W!hiveVars, Stub!hiveVars
  <2> QED BY <2>3 DEF Stub!WorkerStep, Stub!ChildStep
<1> USE DEF W!At, Stub!At, W!Goto, Stub!Goto, W!File, Stub!File, W!Host, Stub!Host, W!Fault,
            Stub!Fault, W!NoChild, Stub!NoChild, W!kafkaVars, Stub!kafkaVars, W!hdfsVars,
            Stub!hdfsVars, W!localVars, Stub!localVars, W!hiveVars, Stub!hiveVars, W!bounds,
            Stub!bounds
<1>4. W!Subscribe(w) => Stub!Subscribe(w)
  BY <1>2 DEF W!Subscribe, Stub!Subscribe, W!ResetOffset, Stub!ResetOffset
<1>5. W!Commit(w) => Stub!Commit(w)
  BY <1>2 DEF W!Commit, Stub!Commit
<1>6. W!Poll(w) => Stub!Poll(w)
  BY <1>2 DEF W!Poll, Stub!Poll
<1>7. W!Nfdump(w) => Stub!Nfdump(w)
  BY <1>2 DEF W!Nfdump, Stub!Nfdump
<1>8. W!Mkdir(w) => Stub!Mkdir(w)
  BY <1>2 DEF W!Mkdir, Stub!Mkdir, W!InUse, Stub!InUse
<1>9. W!Upload(w) => Stub!Upload(w)
  BY <1>2 DEF W!Upload, Stub!Upload
<1>10. W!DropTable(w) => Stub!DropTable(w)
  BY <1>2 DEF W!DropTable, Stub!DropTable
<1>11. W!CreateTable(w) => Stub!CreateTable(w)
  BY <1>2 DEF W!CreateTable, Stub!CreateTable
<1>12. W!Insert(w) => Stub!Insert(w)
  BY <1>2 DEF W!Insert, Stub!Insert, W!Rows, Stub!Rows
<1>13. W!DeleteStage(w) => Stub!DeleteStage(w)
  BY <1>2 DEF W!DeleteStage, Stub!DeleteStage
<1>14. W!RemoveLocal(w) => Stub!RemoveLocal(w)
  BY <1>2 DEF W!RemoveLocal, Stub!RemoveLocal
<1>15. W!ChildFails(w) => Stub!ChildFails(w)
  BY <1>2 DEF W!ChildFails, Stub!ChildFails
<1> QED BY <1>1, <1>3, <1>4, <1>5, <1>6, <1>7, <1>8, <1>9,
           <1>10, <1>11, <1>12, <1>13, <1>14, <1>15
        DEF W!WorkerStep, W!ChildStep, Stub!WorkerStep, Stub!ChildStep

\* WorkersAsAlone: while no call fails the composition of the collector and the workers
\* implements FlowWorkers, in which a file is in HDFS from its message on, and its
\* message is sent once.
THEOREM WorkersCannotTell ==
  ASSUME MaxFaults = 0
  PROVE  IngestSpec => WorkersAsAlone
<1>1. IngestInit => Stub!Init
  BY DEF IngestInit, Init, W!Init, Stub!Init, Announced, W!NoChild, Stub!NoChild, W!Hosts,
         Stub!Hosts, W!Hours, Stub!Hours
<1>2. ComposedInv /\ [IngestNext]_<<vars, workerVars>> => [Stub!Next]_stubVars
  <2> SUFFICES ASSUME ComposedInv, [IngestNext]_<<vars, workerVars>>
               PROVE  Stub!Next \/ UNCHANGED stubVars
    OBVIOUS
  <2>1. CASE CollectorStep /\ SendMessage
    BY <2>1, SendIsArrive DEF CollectorStep, Stub!Next
  <2>2. CASE CollectorStep /\ ~SendMessage
    BY <2>2, CollectorStepIsHidden
  <2>3. CASE WorkersStep
    BY <2>3, WorkerStepIsAlone DEF Stub!Next
  <2>4. CASE UNCHANGED <<vars, workerVars>>
    BY <2>4 DEF stubVars, vars, workerVars, kafkaVars, history, Announced
  <2> QED BY <2>1, <2>2, <2>3, <2>4 DEF IngestNext
<1>3. [Stub!Next]_stubVars => [Stub!Next]_(Stub!vars)
  BY DEF stubVars, Stub!vars, Stub!kafkaVars, Stub!hdfsVars, Stub!localVars, Stub!hiveVars,
         Stub!bounds
<1> QED BY <1>1, <1>2, <1>3, ComposedInvariant, PTL DEF IngestSpec, WorkersAsAlone, Stub!Spec

=============================================================================
