------------------------ MODULE DistributedCollector ------------------------
(***************************************************************************)
(* spot-ingest/collector.py: the main thread of the Distributed Collector  *)
(* takes files from the FileWatcher and hands them to a pool of processes, *)
(* each of which converts a file, groups it into segments (Segmenter) and  *)
(* sends them to Kafka one at a time (common/producer.py).                 *)
(*                                                                         *)
(* A task is the index of a file in `handed': the pool's task queue is     *)
(* handed[taken + 1 .. Len(handed)].  A message is <<task, path, seg>>:    *)
(* the segment `seg' of the content of `path', sent on behalf of `task'.   *)
(***************************************************************************)
EXTENDS FileWatcher, FiniteSets, SequencesExt

CONSTANTS
  Workers,          \* the processes of the pool
  NumSegs,          \* [Paths -> Nat]: segments `prepare' yields for a file
  Ending,           \* [Paths -> ...]: how `prepare' ends, as in Segmenter
  Name,             \* [Paths -> names]: os.path.basename
  SkipConversion,   \* --skip-conversion
  MaxFaults,        \* bound: sends that fail or time out, broken conversions
  MaxDeaths,        \* bound: pool processes that die
  None

Tasks == 1 .. MaxDetected
Endings == {"done", "IOError", "ValueError"}

ASSUME WorkersAssumption ==
  /\ IsFiniteSet(Workers) /\ Workers # {}
  /\ None \notin Paths
  /\ NumSegs \in [Paths -> Nat]
  /\ Ending \in [Paths -> Endings]
  /\ SkipConversion \in BOOLEAN
  /\ MaxFaults \in Nat
  /\ MaxDeaths \in Nat
  /\ \A p \in Paths : Name[p] \notin Tasks

VARIABLES
  pc,           \* where the main thread is
  isalive,      \* self._isalive
  slots,        \* FileWatcher.dequeue calls left in the list comprehension
  batch,        \* `files': taken off the queue, not handed to the pool yet
  handed,       \* history: files given to the pool by apply_async
  taken,        \* tasks the pool's processes have taken
  worker,       \* [Workers -> state of the call to publish it runs]
  staging,      \* files of the local staging area: name -> inode (a task), 0 none
  content,      \* [Tasks -> the path whose content the inode holds]
  topic,        \* messages in Kafka
  stored,       \* failed segments in the staging area: <<name, message>>
  report,       \* [Tasks -> how publish ended], "none" before
  failed,       \* history: messages for which producer.send_async raised
  faults, deaths

mainVars   == <<pc, isalive, slots, batch>>
poolVars   == <<handed, taken, worker>>
dataVars   == <<staging, content, topic, stored, report, failed, faults>>
vars == <<watcherVars, mainVars, poolVars, dataVars, deaths>>

Call(p, t) == [pc |-> p, task |-> t, inode |-> 0, seg |-> 1, items |-> None,
               buffer |-> {}, result |-> "none"]

Idle == Call("idle", 0)

StagingNames == Tasks \cup {Name[p] : p \in Paths}

Init ==
  /\ WatcherInit
  /\ pc = "new"
  /\ isalive = TRUE
  /\ slots = 0
  /\ batch = << >>
  /\ handed = << >>
  /\ taken = 0
  /\ worker = [w \in Workers |-> Idle]
  /\ staging = [n \in StagingNames |-> 0]
  /\ content = [t \in Tasks |-> None]
  /\ topic = {}
  /\ stored = {}
  /\ report = [t \in Tasks |-> "none"]
  /\ failed = {}
  /\ faults = 0
  /\ deaths = 0

-----------------------------------------------------------------------------
(* The observer thread *)

Observe ==
  /\ \E p \in Paths : OnCreated(p) \/ \E q \in Paths : OnMoved(p, q)
  /\ UNCHANGED <<mainVars, poolVars, dataVars, deaths>>

-----------------------------------------------------------------------------
(* The main thread *)

Start ==
  /\ pc = "new"
  /\ WatcherStart
  /\ pc' = "sleep"
  /\ UNCHANGED <<isalive, slots, batch, poolVars, dataVars, deaths>>

\* Mutant of Processes: the list comprehension runs once too often.
ProcessesAndOne == Cardinality(Workers) + 1

Processes == Cardinality(Workers)

\* `while self.isalive': the property sleeps for the interval, then reads the flag.
WakeUp ==
  /\ pc = "sleep"
  /\ IF isalive
       THEN pc' = "dequeue" /\ slots' = Processes
       ELSE pc' = "finally" /\ UNCHANGED slots
  /\ UNCHANGED <<isalive, batch, watcherVars, poolVars, dataVars, deaths>>

\* Mutant of NothingToDequeue: the last file is left on the queue.
AtMostOneToDequeue == Len(queue) <= 1

NothingToDequeue == queue = << >>

\* One iteration of the list comprehension; an empty queue gives a None, which
\* the next line filters out.
Dequeue ==
  /\ pc = "dequeue" /\ slots > 0
  /\ slots' = slots - 1
  /\ IF NothingToDequeue
       THEN UNCHANGED <<queue, batch>>
       ELSE queue' = WithoutOldest /\ batch' = Append(batch, Oldest)
  /\ UNCHANGED <<pc, isalive, disk, observer, detected, dropped, poolVars, dataVars,
                 deaths>>

Dequeued ==
  /\ pc = "dequeue" /\ slots = 0
  /\ pc' = "dispatch"
  /\ UNCHANGED <<isalive, slots, batch, watcherVars, poolVars, dataVars, deaths>>

\* self._pool.apply_async(publish, ...): it never blocks.
Dispatch ==
  /\ pc = "dispatch" /\ batch # << >>
  /\ handed' = Append(handed, Head(batch))
  /\ batch' = Tail(batch)
  /\ UNCHANGED <<pc, isalive, slots, watcherVars, taken, worker, dataVars, deaths>>

Dispatched ==
  /\ pc = "dispatch" /\ batch = << >>
  /\ pc' = "sleep"
  /\ UNCHANGED <<isalive, slots, batch, watcherVars, poolVars, dataVars, deaths>>

InLoop == pc \in {"sleep", "dequeue", "dispatch"}

\* KeyboardInterrupt is raised at whatever instruction the main thread is.
KeyboardInterrupt ==
  /\ InLoop
  /\ pc' = "finally"
  /\ UNCHANGED <<isalive, slots, batch, watcherVars, poolVars, dataVars, deaths>>

\* SIGUSR1: `kill' is registered as a handler and takes no argument but self;
\* Python calls it with two, so a TypeError, and no assignment to _isalive,
\* leaves the loop through `finally'.
SignalUsr1 ==
  /\ InLoop
  /\ pc' = "killed"
  /\ UNCHANGED <<isalive, slots, batch, watcherVars, poolVars, dataVars, deaths>>

Finally ==
  /\ pc \in {"finally", "killed"}
  /\ StopObserver
  /\ pc' = "join"
  /\ UNCHANGED <<isalive, slots, batch, poolVars, dataVars, deaths>>

Join ==
  /\ pc = "join"
  /\ JoinObserver
  /\ pc' = "drop"
  /\ UNCHANGED <<isalive, slots, batch, poolVars, dataVars, deaths>>

Drop ==
  /\ pc = "drop"
  /\ DropOne
  /\ UNCHANGED <<mainVars, poolVars, dataVars, deaths>>

\* The queue is empty; self._pool.close().
ClosePool ==
  /\ pc = "drop" /\ queue = << >>
  /\ pc' = "pooljoin"
  /\ UNCHANGED <<isalive, slots, batch, watcherVars, poolVars, dataVars, deaths>>

Finished(t) == report[t] # "none"

\* Mutant of JoinPool: terminate() the pool in place of waiting for it.
TerminatePool ==
  /\ pc = "pooljoin"
  /\ pc' = "stopped"
  /\ UNCHANGED <<isalive, slots, batch, watcherVars, poolVars, dataVars, deaths>>

\* self._pool.join() returns once every task has a result.  A task whose process
\* died never has one: the pool starts another process and waits for ever.
JoinPool ==
  /\ pc = "pooljoin"
  /\ \A t \in 1 .. Len(handed) : Finished(t)
  /\ pc' = "stopped"
  /\ UNCHANGED <<isalive, slots, batch, watcherVars, poolVars, dataVars, deaths>>

\* __del__: shutil.rmtree(self._tmpdir).
Destroy ==
  /\ pc = "stopped"
  /\ pc' = "gone"
  /\ staging' = [n \in StagingNames |-> 0]
  /\ stored' = {}
  /\ UNCHANGED <<isalive, slots, batch, watcherVars, poolVars, content, topic, report,
                 failed, faults, deaths>>

MainStep ==
  \/ Start \/ WakeUp \/ Dequeue \/ Dequeued \/ Dispatch \/ Dispatched
  \/ Finally \/ Join \/ Drop \/ ClosePool \/ JoinPool \/ Destroy

-----------------------------------------------------------------------------
(* A process of the pool: publish(rawfile, ...) *)

\* Mutant of StagingName: one name, made before the processes are started.
OneStagingName(t) == IF SkipConversion THEN Name[handed[1]] ELSE t

\* `basename(rawfile)' is shared by all the processes when no conversion is done;
\* a conversion makes a temporary file of its own in the process's directory.
StagingName(t) == IF SkipConversion THEN Name[handed[t]] ELSE t

Goto(w, p) == worker' = [worker EXCEPT ![w].pc = p]

\* Leave the try block with an outcome; `finally' closes the producer.
Leave(w, outcome) ==
  worker' = [worker EXCEPT ![w].pc = "close", ![w].result = outcome]

Fault == faults < MaxFaults /\ faults' = faults + 1

TakeTask(w) ==
  /\ worker[w].pc = "idle"
  /\ taken < Len(handed)
  /\ taken' = taken + 1
  /\ worker' = [worker EXCEPT ![w] = Call("begin", taken + 1)]
  /\ UNCHANGED <<watcherVars, mainVars, handed, dataVars, deaths>>

NewProducer(w) ==
  /\ worker[w].pc = "begin"
  /\ Goto(w, "convert")
  /\ UNCHANGED <<watcherVars, mainVars, handed, taken, dataVars, deaths>>

\* Mutant of NoProducer: the call never returns a result to the pool.
NoProducerNoResult(w) ==
  /\ worker[w].pc = "begin"
  /\ Fault
  /\ worker' = [worker EXCEPT ![w] = Idle]
  /\ UNCHANGED <<watcherVars, mainVars, handed, taken, staging, content, topic, stored,
                 report, failed, deaths>>

\* No broker: Producer() raises, and so does `if producer' in `finally', where
\* the name is not bound.
NoProducer(w) ==
  /\ worker[w].pc = "begin"
  /\ Fault
  /\ report' = [report EXCEPT ![worker[w].task] = "UnboundLocalError"]
  /\ worker' = [worker EXCEPT ![w] = Idle]
  /\ UNCHANGED <<watcherVars, mainVars, handed, taken, staging, content, topic, stored,
                 failed, deaths>>

\* convert: the temporary file is made, then the command fills it.
Convert(w) ==
  /\ worker[w].pc = "convert" /\ ~SkipConversion
  /\ LET t == worker[w].task IN
       /\ handed[t] \in disk
       /\ staging' = [staging EXCEPT ![t] = t]
       /\ content' = [content EXCEPT ![t] = handed[t]]
  /\ Goto(w, "open")
  /\ UNCHANGED <<watcherVars, mainVars, handed, taken, topic, stored, report, failed,
                 faults, deaths>>

\* The command writes to stderr: OSError, and the temporary file stays.
ConvertFails(w) ==
  /\ worker[w].pc = "convert" /\ ~SkipConversion
  /\ LET t == worker[w].task IN
       /\ \/ handed[t] \notin disk /\ UNCHANGED faults
          \/ Fault
       /\ staging' = [staging EXCEPT ![t] = t]
  /\ Leave(w, "error")
  /\ UNCHANGED <<watcherVars, mainVars, handed, taken, content, topic, stored, report,
                 failed, deaths>>

\* shutil.copy2 writes over a file that has the name already.
CopyOver(t) ==
  LET n == StagingName(t)
      inode == IF staging[n] = 0 THEN t ELSE staging[n]
  IN /\ handed[t] \in disk
     /\ staging' = [staging EXCEPT ![n] = inode]
     /\ content' = [content EXCEPT ![inode] = handed[t]]

Copy(w) ==
  /\ worker[w].pc = "convert" /\ SkipConversion
  /\ CopyOver(worker[w].task)
  /\ Goto(w, "open")
  /\ UNCHANGED <<watcherVars, mainVars, handed, taken, topic, stored, report, failed,
                 faults, deaths>>

\* The raw file is gone or cannot be read, or the copy cannot be created.
CopyFails(w) ==
  /\ worker[w].pc = "convert" /\ SkipConversion
  /\ \/ handed[worker[w].task] \notin disk /\ UNCHANGED faults
     \/ Fault
  /\ Leave(w, "IOError")
  /\ UNCHANGED <<watcherVars, mainVars, handed, taken, staging, content, topic, stored,
                 report, failed, deaths>>

\* The disk is full halfway: the beginning of the file, which is not told from the
\* whole of it here, is left under the name.
CopyCutShort(w) ==
  /\ worker[w].pc = "convert" /\ SkipConversion
  /\ Fault
  /\ CopyOver(worker[w].task)
  /\ Leave(w, "IOError")
  /\ UNCHANGED <<watcherVars, mainVars, handed, taken, topic, stored, report, failed,
                 deaths>>

\* The generator opens the file when its first segment is pulled.
Open(w) ==
  /\ worker[w].pc = "open"
  /\ LET inode == staging[StagingName(worker[w].task)] IN
       IF inode = 0
         THEN Leave(w, "IOError")
         ELSE worker' = [worker EXCEPT ![w].pc = "sending", ![w].inode = inode]
  /\ UNCHANGED <<watcherVars, mainVars, handed, taken, dataVars, deaths>>

Content(w) == content[worker[w].inode]

Message(w) == <<worker[w].task, Content(w), worker[w].seg>>

HasSegment(w) == worker[w].pc = "sending" /\ worker[w].seg <= NumSegs[Content(w)]

NextSegment(w) == [worker EXCEPT ![w].pc = "sending", ![w].seg = @ + 1,
                                 ![w].items = None]

\* The future has a result within the ten seconds of its timeout.
Send(w) ==
  /\ HasSegment(w)
  /\ topic' = topic \cup {Message(w)}
  /\ worker' = NextSegment(w)
  /\ UNCHANGED <<watcherVars, mainVars, handed, taken, staging, content, stored, report,
                 failed, faults, deaths>>

\* The broker, or the size of the message, refuses it: RuntimeError.
SendRefused(w) ==
  /\ HasSegment(w)
  /\ Fault
  /\ failed' = failed \cup {Message(w)}
  /\ worker' = [worker EXCEPT ![w].pc = "store", ![w].items = Message(w)]
  /\ UNCHANGED <<watcherVars, mainVars, handed, taken, staging, content, topic, stored,
                 report, deaths>>

\* Mutant of SendTimesOut: what is in the buffer counts as sent.
SendTimesOutAsSent(w) ==
  /\ HasSegment(w)
  /\ Fault
  /\ failed' = failed \cup {Message(w)}
  /\ worker' = [NextSegment(w) EXCEPT ![w].buffer = @ \cup {Message(w)}]
  /\ UNCHANGED <<watcherVars, mainVars, handed, taken, staging, content, topic, stored,
                 report, deaths>>

\* future.get times out: RuntimeError, with the message still in the producer's
\* buffer.
SendTimesOut(w) ==
  /\ HasSegment(w)
  /\ Fault
  /\ failed' = failed \cup {Message(w)}
  /\ worker' = [worker EXCEPT ![w].pc = "store", ![w].items = Message(w),
                               ![w].buffer = @ \cup {Message(w)}]
  /\ UNCHANGED <<watcherVars, mainVars, handed, taken, staging, content, topic, stored,
                 report, deaths>>

\* The producer's own thread goes on sending what is in the buffer.
DeliverLate(w) ==
  /\ \E m \in worker[w].buffer :
       /\ topic' = topic \cup {m}
       /\ worker' = [worker EXCEPT ![w].buffer = @ \ {m}]
  /\ UNCHANGED <<watcherVars, mainVars, handed, taken, staging, content, stored, report,
                 failed, faults, deaths>>

SegmentFile(w) == <<Name[handed[worker[w].task]], worker[w].seg>>

\* _store_failed_segment opens '<name>_segment-<id>.csv' for writing: a segment
\* of the same name is lost.  send_async then returns False, which is ignored.
StoreFailedSegment(w) ==
  /\ worker[w].pc = "store"
  /\ stored' = {x \in stored : x[1] # SegmentFile(w)} \cup {<<SegmentFile(w), worker[w].items>>}
  /\ worker' = NextSegment(w)
  /\ UNCHANGED <<watcherVars, mainVars, handed, taken, staging, content, topic, report,
                 failed, faults, deaths>>

\* open() or write() raises an IOError, which ends the publishing of the file.
StoreFails(w) ==
  /\ worker[w].pc = "store"
  /\ Fault
  /\ Leave(w, "IOError")
  /\ UNCHANGED <<watcherVars, mainVars, handed, taken, staging, content, topic, stored,
                 report, failed, deaths>>

\* The generator has no more segments: it ends, or raises.
EndOfSegments(w) ==
  /\ worker[w].pc = "sending" /\ ~HasSegment(w)
  /\ CASE Ending[Content(w)] = "done"       -> Goto(w, "remove")
       [] Ending[Content(w)] = "IOError"    -> Leave(w, "IOError")
       [] Ending[Content(w)] = "ValueError" -> Leave(w, "error")
  /\ UNCHANGED <<watcherVars, mainVars, handed, taken, dataVars, deaths>>

\* os.remove(staging).  `allpassed' is still True: no send_async raises.
RemoveStaging(w) ==
  /\ worker[w].pc = "remove"
  /\ LET n == StagingName(worker[w].task) IN
       /\ staging' = [staging EXCEPT ![n] = 0]
       /\ Leave(w, IF staging[n] = 0 THEN "error" ELSE "success")
  /\ UNCHANGED <<watcherVars, mainVars, handed, taken, content, topic, stored, report,
                 failed, faults, deaths>>

\* producer.close() waits for the buffer: what has not been delivered by now
\* has failed.  publish returns and the pool gets the result.
Close(w) ==
  /\ worker[w].pc = "close"
  /\ report' = [report EXCEPT ![worker[w].task] = worker[w].result]
  /\ worker' = [worker EXCEPT ![w] = Idle]
  /\ UNCHANGED <<watcherVars, mainVars, handed, taken, staging, content, topic, stored,
                 failed, faults, deaths>>

\* The process is killed: its task has no result, the pool starts another one.
Die(w) ==
  /\ worker[w].pc # "idle"
  /\ deaths < MaxDeaths
  /\ deaths' = deaths + 1
  /\ worker' = [worker EXCEPT ![w] = Idle]
  /\ UNCHANGED <<watcherVars, mainVars, handed, taken, dataVars>>

WorkerStep(w) ==
  \/ TakeTask(w) \/ NewProducer(w) \/ NoProducer(w)
  \/ Convert(w) \/ ConvertFails(w) \/ Copy(w) \/ CopyFails(w) \/ CopyCutShort(w)
  \/ Open(w) \/ Send(w) \/ SendRefused(w) \/ SendTimesOut(w)
  \/ StoreFailedSegment(w) \/ StoreFails(w)
  \/ EndOfSegments(w) \/ RemoveStaging(w) \/ Close(w)

Next ==
  \/ Observe
  \/ MainStep
  \/ KeyboardInterrupt
  \/ SignalUsr1
  \/ \E w \in Workers : WorkerStep(w) \/ DeliverLate(w) \/ Die(w)

Spec == Init /\ [][Next]_vars

\* The main thread and the processes run; files and signals need not arrive.
FairSpec == Spec /\ WF_vars(MainStep) /\ \A w \in Workers : WF_vars(WorkerStep(w))

-----------------------------------------------------------------------------
(* Properties *)

MainPcs == {"new", "sleep", "dequeue", "dispatch", "finally", "killed", "join",
            "drop", "pooljoin", "stopped", "gone"}
WorkerPcs == {"idle", "begin", "convert", "open", "sending", "store", "remove", "close"}
Results == {"none", "success", "IOError", "error", "UnboundLocalError"}

Messages == Tasks \X Paths \X Nat

WorkerState == [pc : WorkerPcs, task : 0 .. MaxDetected, inode : 0 .. MaxDetected,
                seg : Nat, items : Messages \cup {None}, buffer : SUBSET Messages,
                result : Results]

MainTypeOK ==
  /\ pc \in MainPcs
  /\ isalive \in BOOLEAN
  /\ slots \in 0 .. Cardinality(Workers)
  /\ batch \in Seq(Supported)
  /\ handed \in Seq(Supported)

PoolTypeOK ==
  /\ taken \in 0 .. Len(handed)
  /\ worker \in [Workers -> WorkerState]
  /\ \A w \in Workers :
       IF worker[w].pc = "idle" THEN worker[w] = Idle ELSE worker[w].task \in 1 .. taken
  /\ staging \in [StagingNames -> 0 .. MaxDetected]
  /\ content \in [Tasks -> Paths \cup {None}]
  /\ topic \subseteq Messages
  /\ \A x \in stored : x[2] \in Messages
  /\ report \in [Tasks -> Results]
  /\ failed \subseteq Messages
  /\ faults \in Nat
  /\ deaths \in Nat

\* Type correctness: a worker that is not idle has a task the main thread handed.
TypeOK == WatcherTypeOK /\ MainTypeOK /\ PoolTypeOK

\* From the observer thread to the pool no supported file is lost, duplicated or
\* reordered, wherever an interrupt falls: the files detected are those handed
\* to the pool, then the batch in hand (abandoned once the loop is left), then
\* those dropped by `stop', then those on the queue.
FilesConserved == detected = handed \o batch \o dropped \o Reverse(queue)

Stored(p, s) == \E x \in stored : x[1] = <<Name[p], s>> /\ x[2][2] = p

\* "All segments of ... published successfully" (collector.py:253): by then each
\* segment of the file is in Kafka or, when it failed to be sent, stored in the
\* staging area (README:139), also if it timed out and is delivered later.
SegmentsAccounted ==
  pc # "gone" =>
    \A t \in Tasks : report[t] = "success" =>
      \A s \in 1 .. NumSegs[handed[t]] :
        IF <<t, handed[t], s>> \in failed
          THEN Stored(handed[t], s)
          ELSE <<t, handed[t], s>> \in topic

\* The staging area is removed only when nothing uses it: no process runs, none
\* has a task to take and no file waits on the queue.
QuietWhenStopped ==
  pc \in {"stopped", "gone"} =>
    /\ queue = << >>
    /\ taken = Len(handed)
    /\ \A w \in Workers : worker[w].pc = "idle"

\* Whatever is in Kafka or stored on behalf of a file is a segment of that file or,
\* when no conversion is done and the copies share the staging area, of a file of
\* the same base name: a process reads under no other name than its file's, also
\* while others write over it, remove it or fail halfway.
SentUnderTheirName ==
  \A m \in topic \cup {x[2] : x \in stored} :
    IF SkipConversion THEN Name[m[2]] = Name[handed[m[1]]] ELSE m[2] = handed[m[1]]

\* Once it leaves the loop the collector ends, with the files it handed to the
\* pool all published or reported, unless a process of the pool died.
InterruptEndsCollector ==
  pc \in {"finally", "killed"} ~> (pc = "gone" \/ deaths > 0)

\* Every file the main thread hands to the pool gets a result, before or after
\* an interrupt, unless a process of the pool died.
TasksFinish ==
  \A t \in Tasks : Len(handed) >= t ~> (Finished(t) \/ deaths > 0)

\* While no interrupt comes, a supported file that appears is handed to the pool.
DetectedFilesAreHanded ==
  \A t \in Tasks : Len(detected) >= t ~> (Len(handed) >= t \/ ~InLoop)

=============================================================================
