--------------------------- MODULE MasterCollector ---------------------------
(***************************************************************************)
(* spot-ingest/master_collector.py with the Collector of one of the        *)
(* pipelines (pipelines/{flow,dns,proxy}/collector.py), the topic it       *)
(* creates and the HDFS directory it uploads to.                           *)
(*                                                                         *)
(* The main thread takes files from the FileWatcher and, with one process, *)
(* ingests them itself, a call at a time; with more it hands them to its   *)
(* pool.  ^C (KeyboardInterrupt, which no `except Exception' catches) may  *)
(* fall anywhere.  All files belong to one hour, hence to one directory.   *)
(***************************************************************************)
EXTENDS FileCollector, FiniteSets

CONSTANTS
  Dated,        \* files whose name has the second part the date is taken from
  MaxProcesses, \* bound: conf["collector_processes"]
  MaxFaults,    \* bound: calls that fail
  MaxRuns,      \* bound: times the collector is started
  None

ASSUME CollectorAssumption ==
  /\ Dated \subseteq Paths /\ None \notin Paths
  /\ {MaxProcesses, MaxFaults, MaxRuns} \subseteq Nat

VARIABLES
  pipeline,     \* the type of the configuration: "flow", "dns" or "proxy"
  processes,    \* self._processes
  pc,           \* where the main thread is
  slots,        \* iterations left in _ingest_files_pool
  file,         \* new_file, None between two files
  hour,         \* <root>/binary/<date>/<hour>: "none", "directory" or a "file"
  binary,       \* [Paths -> content of the file in HDFS], 0: no file
  misplaced,    \* contents in HDFS under the name of the directory
  split,        \* contents editcap has split into the staging directory
  topic,        \* messages in the topic: names of files
  sent,         \* history: messages delivered to Kafka, in order
  refused,      \* history: contents whose upload returned an error
  unsplit,      \* history: contents that editcap failed to split
  interrupts,   \* history: ^C so far
  faults, runs

mainVars == <<pipeline, processes, pc, slots, file>>
hdfsVars == <<hour, binary, misplaced>>
kafkaVars == <<topic, sent>>
history == <<refused, unsplit, interrupts, faults, runs>>
vars == <<watcherVars, mainVars, hdfsVars, split, kafkaVars, history>>

Init ==
  /\ WatcherInit
  /\ pipeline \in {"flow", "dns", "proxy"}
  /\ processes \in 1 .. MaxProcesses
  /\ pc = "new" /\ slots = 0 /\ file = None
  /\ hour = "none"
  /\ binary = [p \in Paths |-> 0]
  /\ misplaced = {}
  /\ split = {}
  /\ topic = << >> /\ sent = << >>
  /\ refused = {} /\ unsplit = {}
  /\ interrupts = 0 /\ faults = 0 /\ runs = 0

Fault == faults < MaxFaults /\ faults' = faults + 1

\* nfcapd writes "nfcapd.current..." and renames it when it is complete; who puts
\* a file there under another name may rename it too.  Nobody renames a raw file.
Observe ==
  /\ \E p \in Paths :
       \/ OnCreated(p)
       \/ p \notin Supported /\ \E q \in Paths : OnMoved(p, q)
  /\ UNCHANGED <<mainVars, hdfsVars, split, kafkaVars, history>>

-----------------------------------------------------------------------------
(* start and _ingest_files_pool *)

\* start_collector: the topic is created unless it exists, the watcher started.
\* What is in the directory already is not looked at.
Start ==
  /\ pc = "new" /\ runs < MaxRuns
  /\ runs' = runs + 1
  /\ pc' = "sleep"
  /\ WatcherStart
  /\ UNCHANGED <<pipeline, processes, slots, file, hdfsVars, split, kafkaVars,
                 refused, unsplit, interrupts, faults>>

BeginPool ==
  /\ pc = "sleep" /\ HasFiles
  /\ pc' = "pool" /\ slots' = processes
  /\ UNCHANGED <<pipeline, processes, file, watcherVars, hdfsVars, split, kafkaVars,
                 history>>

\* Mutant of NextFile: until the queue is empty, whatever the number of processes.
NextFileUntilEmpty(q) ==
  IF q # << >>
    THEN pc' = "pool" /\ slots' = slots - 1
    ELSE pc' = "sleep" /\ slots' = 0

\* `if not self._watcher.HasFiles: break'
NextFile(q) ==
  IF slots > 1 /\ q # << >>
    THEN pc' = "pool" /\ slots' = slots - 1
    ELSE pc' = "sleep" /\ slots' = 0

InProcess == processes <= 1 /\ pipeline # "proxy"

FirstStep(p) ==
  CASE pipeline = "dns"  -> "split"
    [] p \in Dated       -> "list"
    [] p \notin Dated    -> "done"     \* IndexError, then hdfs_file is not bound

TakeFile ==
  /\ pc = "pool" /\ InProcess
  /\ \E p \in Supported :
       GetNextFile(p) /\ file' = p /\ pc' = FirstStep(p)
  /\ UNCHANGED <<pipeline, processes, slots, directory, created, closed, observer,
                 detected, hdfsVars, split, kafkaVars, history>>

\* apply_async: the arguments of flow and dns hold a Producer or an HDFS client,
\* which cannot be pickled, so that the task never leaves the pool's thread;
\* proxy's task calls SendMessage on the class, a TypeError that is logged.
HandToPool ==
  /\ pc = "pool" /\ ~InProcess
  /\ \E p \in Supported : GetNextFile(p) /\ NextFile(queue')
  /\ UNCHANGED <<pipeline, processes, file, directory, created, closed, observer,
                 detected, hdfsVars, split, kafkaVars, history>>

-----------------------------------------------------------------------------
(* _ingest_file of flow *)

Goto(step) == pc' = step /\ UNCHANGED <<pipeline, processes, slots, file>>

\* Mutant of HourHasFiles: the test the other way round.
HourHasNone == \A p \in Paths : binary[p] = 0

HourHasFiles == hour = "directory" /\ \E p \in Paths : binary[p] # 0

\* list_dir answers {} when it fails.
ListDir ==
  /\ pc = "list"
  /\ \/ Goto(IF HourHasFiles THEN "upload" ELSE "mkdir") /\ UNCHANGED faults
     \/ Goto("mkdir") /\ Fault
  /\ UNCHANGED <<watcherVars, hdfsVars, split, kafkaVars, refused, unsplit, interrupts,
                 runs>>

\* mkdir answers False when it fails, as it does on a file; nobody looks.
Mkdir ==
  /\ pc = "mkdir"
  /\ Goto("upload")
  /\ \/ hour' = (IF hour = "none" THEN "directory" ELSE hour) /\ UNCHANGED faults
     \/ Fault /\ UNCHANGED hour
  /\ UNCHANGED <<watcherVars, binary, misplaced, split, kafkaVars, refused, unsplit,
                 interrupts, runs>>

\* client.upload goes into a directory, or makes a file of the given path; it
\* does not overwrite.
Uploaded ==
  /\ UNCHANGED <<refused, faults>>
  /\ \/ /\ hour = "directory" /\ binary[file] = 0
        /\ binary' = [binary EXCEPT ![file] = directory[file]]
        /\ UNCHANGED <<hour, misplaced>>
     \/ /\ hour = "none"
        /\ hour' = "file" /\ misplaced' = misplaced \cup {directory[file]}
        /\ UNCHANGED binary

RefusedAsExisting == hour = "file" \/ (hour = "directory" /\ binary[file] # 0)

\* upload_file returns the HdfsError in place of raising it.
Refused ==
  /\ \/ RefusedAsExisting /\ UNCHANGED faults
     \/ Fault
  /\ refused' = refused \cup {directory[file]}
  /\ UNCHANGED hdfsVars

\* An HdfsError is as true as a result: the raw file is removed all the same.
Upload ==
  /\ pc = "upload"
  /\ Goto("rm")
  /\ Uploaded \/ Refused
  /\ UNCHANGED <<watcherVars, split, kafkaVars, unsplit, interrupts, runs>>

\* Mutant of Unreachable: the raw file is removed as after an upload.
UnreachableRemoves ==
  /\ pc \in {"list", "mkdir", "upload"}
  /\ Fault
  /\ Goto("rm")
  /\ UNCHANGED <<watcherVars, hdfsVars, split, kafkaVars, refused, unsplit, interrupts,
                 runs>>

\* No connection to the name node: not an HdfsError.  The file is kept, and its
\* path sent.
Unreachable ==
  /\ pc \in {"list", "mkdir", "upload"}
  /\ Fault
  /\ Goto("send")
  /\ UNCHANGED <<watcherVars, hdfsVars, split, kafkaVars, refused, unsplit, interrupts,
                 runs>>

RemoveRaw ==
  /\ pc = "rm"
  /\ Goto("send")
  /\ directory' = [directory EXCEPT ![file] = 0]
  /\ UNCHANGED <<created, queue, closed, observer, detected, hdfsVars, split, kafkaVars,
                 history>>

\* Mutant of SendMessage: the message is produced again.
SendMessageTwice ==
  /\ pc = "send"
  /\ Goto("done")
  /\ topic' = topic \o <<file, file>>
  /\ sent' = sent \o <<file, file>>
  /\ UNCHANGED <<watcherVars, hdfsVars, split, history>>

\* produce and flush; a message that is not delivered is only written to stderr.
SendMessage ==
  /\ pc = "send"
  /\ Goto("done")
  /\ \/ topic' = Append(topic, file) /\ sent' = Append(sent, file) /\ UNCHANGED faults
     \/ Fault /\ UNCHANGED kafkaVars
  /\ UNCHANGED <<watcherVars, hdfsVars, split, refused, unsplit, interrupts, runs>>

EndOfFile ==
  /\ pc = "done"
  /\ NextFile(queue)
  /\ file' = None
  /\ UNCHANGED <<pipeline, processes, watcherVars, hdfsVars, split, kafkaVars, history>>

-----------------------------------------------------------------------------
(* _ingest_file of dns *)

\* editcap -c; its exit status is not looked at.
Split ==
  /\ pc = "split"
  /\ Goto("rmpcap")
  /\ \/ split' = split \cup {directory[file]} /\ UNCHANGED <<unsplit, faults>>
     \/ Fault /\ unsplit' = unsplit \cup {directory[file]} /\ UNCHANGED split
  /\ UNCHANGED <<watcherVars, hdfsVars, kafkaVars, refused, interrupts, runs>>

\* Then, for each piece in the staging directory, the HDFS client is asked for
\* mkdir or upload_file, which it does not have: an AttributeError that is logged.
RemovePcap ==
  /\ pc = "rmpcap"
  /\ Goto("done")
  /\ directory' = [directory EXCEPT ![file] = 0]
  /\ UNCHANGED <<created, queue, closed, observer, detected, hdfsVars, split, kafkaVars,
                 history>>

-----------------------------------------------------------------------------
(* ^C *)

Working == {"list", "mkdir", "upload", "rm", "send", "split", "rmpcap", "done"}

Running == {"sleep", "pool"} \cup Working

KeyboardInterrupt ==
  /\ pc \in Running
  /\ pc' = "interrupted"
  /\ file' = None /\ slots' = 0
  /\ interrupts' = interrupts + 1
  /\ UNCHANGED <<pipeline, processes, watcherVars, hdfsVars, split, kafkaVars, refused,
                 unsplit, faults, runs>>

\* kafka-topics --delete: the broker may not allow it; nobody looks.
RemoveKafkaTopic ==
  /\ pc = "interrupted"
  /\ Goto("stop")
  /\ topic' = << >> \/ UNCHANGED topic
  /\ UNCHANGED <<watcherVars, hdfsVars, split, sent, history>>

CloseQueue ==
  /\ pc = "stop"
  /\ Goto("closed")
  /\ closed' = TRUE
  /\ UNCHANGED <<directory, created, queue, observer, detected, hdfsVars, split,
                 kafkaVars, history>>

\* empty() of the closed queue is an IOError: observer.stop, the pool's terminate
\* and join are never called, the process ends and with it its daemon threads.
End ==
  /\ pc = "closed"
  /\ Goto("new")
  /\ queue' = << >> /\ closed' = FALSE /\ observer' = "new"
  /\ UNCHANGED <<directory, created, detected, hdfsVars, split, kafkaVars, history>>

IngestStep ==
  \/ ListDir \/ Mkdir \/ Upload \/ Unreachable \/ RemoveRaw \/ SendMessage
  \/ Split \/ RemovePcap \/ EndOfFile

MainStep ==
  \/ BeginPool \/ TakeFile \/ HandToPool \/ IngestStep
  \/ RemoveKafkaTopic \/ CloseQueue \/ End

Next == Observe \/ Start \/ MainStep \/ KeyboardInterrupt

Spec == Init /\ [][Next]_vars

\* The main thread runs on; files, starts and interrupts need not come.
FairSpec == Spec /\ WF_vars(MainStep)

-----------------------------------------------------------------------------
(* Properties *)

\* Type correctness; there is a file in hand exactly while one is ingested.
TypeOK ==
  /\ WatcherTypeOK
  /\ pipeline \in {"flow", "dns", "proxy"}
  /\ processes \in 1 .. MaxProcesses
  /\ pc \in {"new", "interrupted", "stop", "closed"} \cup Running
  /\ slots \in 0 .. processes
  /\ file \in Supported \cup {None}
  /\ file # None <=> pc \in Working
  /\ hour \in {"none", "directory", "file"}
  /\ binary \in [Paths -> 0 .. MaxCreated]
  /\ misplaced \cup split \cup refused \cup unsplit \subseteq Contents
  /\ topic \in Seq(Supported)
  /\ sent \in Seq(Supported)

\* The files already announced or passed over: all that were detected, but for
\* those on the queue and the one in hand.
InHand == IF pc \in Working \ {"done"} THEN 1 ELSE 0

Channel == INSTANCE IngestChannel WITH
  Files <- Supported,
  arrived <- detected,
  passed <- Len(detected) - Len(queue) - InHand,
  announced <- sent

\* The collector implements the channel: whatever fails, and wherever ^C and a
\* new start fall, the topic gets the files in the order in which the watcher
\* saw them, none of them twice.
AnnouncesInOrder == Channel!Spec

Kept(c) ==
  \/ \E p \in Paths : directory[p] = c \/ binary[p] = c
  \/ c \in misplaced \cup split

\* Nothing that appeared in the directory is ever lost, wherever ^C falls, but
\* what HDFS refused to take and what editcap could not split.
ContentKept == \A c \in 1 .. created : Kept(c) \/ c \in refused \cup unsplit

Announced == {sent[i] : i \in DOMAIN sent}

\* With no call that fails a worker finds every file it is told of in HDFS and,
\* unless a ^C fell between the two, is told of every file that is there.
HDFSAndTopicAgree ==
  faults = 0 =>
    /\ \A p \in Announced : binary[p] # 0
    /\ interrupts = 0 /\ file = None =>
         \A p \in Paths : binary[p] # 0 => p \in Announced

DatedUpTo(n) == Cardinality({i \in 1 .. n : i \in DOMAIN detected /\ detected[i] \in Dated})

\* A flow collector of one process sends every file it detects, in any number
\* of rounds, unless its name has no date, a call fails or ^C comes.
DetectedFilesAreSent ==
  \A n \in 1 .. MaxCreated :
    pipeline = "flow" /\ processes = 1 /\ Len(detected) >= n
      ~> Len(sent) >= DatedUpTo(n) \/ faults > 0 \/ interrupts > 0

=============================================================================
