----------------------------- MODULE FlowWorkers -----------------------------
(***************************************************************************)
(* spot-ingest/worker.py and pipelines/flow/worker.py: the flow workers of *)
(* the classic ingest.  Each polls the Kafka topic for the HDFS path of a  *)
(* raw file and, in a child process it joins, downloads the file, converts *)
(* it, uploads the result to a stage directory and has Hive load it:       *)
(* DROP TABLE flow_tmp, CREATE EXTERNAL TABLE flow_tmp on the directory,   *)
(* INSERT INTO flow PARTITION (hour of the file) SELECT ... FROM flow_tmp. *)
(*                                                                         *)
(* The topic, the HDFS directories and the tables are shared; the local    *)
(* staging directory is shared by the workers of a host.  What Kafka does  *)
(* for a consumer (one group per worker, since group.id is the worker's    *)
(* id) is modelled from how common/kafka_client.py configures it.          *)
(***************************************************************************)
EXTENDS Naturals, Sequences

CONSTANTS
  Files,          \* names of raw files
  Hour,           \* [Files -> hours]: y, m, d, h taken from the file name
  Workers,
  HostOf,         \* [Workers -> hosts]
  StageIds,       \* the values of '%M%S%f'[:-4]
  ResetSmallest,  \* auto.offset.reset: set to 'smallest' only with Kerberos
  MaxFaults,      \* bound: HDFS calls and Hive statements that fail
  MaxCrashes,     \* bound: workers killed
  MaxMessages,    \* bound: length of the topic
  None

ASSUME WorkersAssumption == None \notin Files \cup StageIds \cup Nat

Hosts == {HostOf[w] : w \in Workers}
Hours == {Hour[f] : f \in Files}

VARIABLES
  binary,         \* raw files in HDFS: <app>/flow/binary/<date>/<hour>/<name>
  log,            \* the topic: file names, in order
  position,       \* [Workers -> consumed messages], None: not subscribed
  committed,      \* [Workers -> committed offset of its group], None: no offset
  child,          \* [Workers -> state of _process_new_file]
  local,          \* raw files in the local staging: <<host, file>>
  csv,            \* [Hosts \X Files -> content of <file>.csv]
  stage,          \* [StageIds -> CSV files in the directory], None: no directory
  flow_tmp,       \* location of the external table, None: no table
  flow,           \* [Workers \X Files \X Hours -> how many times the worker's
                  \* INSERTs put the rows of the file in the partition]
  clash,          \* history: a child dropped the table before another's INSERT, or
                  \* took a stage directory in use
  successes,      \* history: <<worker, file>> logged as successfully processed
  faults, crashes

kafkaVars == <<log, position, committed>>
hdfsVars  == <<binary, stage>>
localVars == <<local, csv>>
hiveVars  == <<flow_tmp, flow, clash>>
bounds    == <<faults, crashes>>
vars == <<kafkaVars, hdfsVars, localVars, hiveVars, child, successes, bounds>>

NoChild == [pc |-> "poll", file |-> None, stage |-> None]

Init ==
  /\ binary = {}
  /\ log = << >>
  /\ position = [w \in Workers |-> None]
  /\ committed = [w \in Workers |-> None]
  /\ child = [w \in Workers |-> NoChild]
  /\ local = {}
  /\ csv = [x \in Hosts \X Files |-> "none"]
  /\ stage = [i \in StageIds |-> None]
  /\ flow_tmp = None
  /\ flow = [x \in Workers \X Files \X Hours |-> 0]
  /\ clash = FALSE
  /\ successes = {}
  /\ faults = 0
  /\ crashes = 0

Fault == faults < MaxFaults /\ faults' = faults + 1

\* pipelines/flow/collector.py: the raw file is in HDFS when its path is sent.
Arrive(f) ==
  /\ f \notin binary
  /\ Len(log) < MaxMessages
  /\ binary' = binary \cup {f}
  /\ log' = Append(log, f)
  /\ UNCHANGED <<position, committed, stage, localVars, hiveVars, child, successes, bounds>>

-----------------------------------------------------------------------------
(* The consumer *)

\* Mutant of ResetOffset: past the end of the topic.
ResetOffsetPast == Len(log) + 1

\* Where a group without a committed offset starts reading.
ResetOffset == IF ResetSmallest THEN 0 ELSE Len(log)

Subscribe(w) ==
  /\ position[w] = None
  /\ position' = [position EXCEPT ![w] =
                    IF committed[w] = None THEN ResetOffset ELSE committed[w]]
  /\ UNCHANGED <<log, committed, hdfsVars, localVars, hiveVars, child, successes, bounds>>

\* Auto-commit: what has been polled, whether or not it has been processed.
Commit(w) ==
  /\ position[w] # None
  /\ committed[w] # position[w]
  /\ committed' = [committed EXCEPT ![w] = position[w]]
  /\ UNCHANGED <<log, position, hdfsVars, localVars, hiveVars, child, successes, bounds>>

\* Mutant of Poll: the position is not moved past the message.
PollAgain(w) ==
  /\ child[w].pc = "poll"
  /\ position[w] # None
  /\ position[w] < Len(log)
  /\ child' = [child EXCEPT ![w] = [NoChild EXCEPT !.pc = "download",
                                                   !.file = log[position[w] + 1]]]
  /\ UNCHANGED <<kafkaVars, hdfsVars, localVars, hiveVars, successes, bounds>>

\* consumer.poll gives a message; _new_file starts a process for it and joins it.
Poll(w) ==
  /\ child[w].pc = "poll"
  /\ position[w] # None
  /\ position[w] < Len(log)
  /\ position' = [position EXCEPT ![w] = @ + 1]
  /\ child' = [child EXCEPT ![w] = [NoChild EXCEPT !.pc = "download",
                                                   !.file = log[position[w] + 1]]]
  /\ UNCHANGED <<log, committed, hdfsVars, localVars, hiveVars, successes, bounds>>

-----------------------------------------------------------------------------
(* _process_new_file *)

At(w, p) == child[w].pc = p
Goto(w, p) == child' = [child EXCEPT ![w].pc = p]
Host(w) == HostOf[w]
File(w) == child[w].file

\* download_file does not overwrite; that it failed, or that there is no file,
\* is not looked at.
Download(w) ==
  /\ At(w, "download")
  /\ Goto(w, "nfdump")
  /\ \/ /\ File(w) \in binary
        /\ local' = local \cup {<<Host(w), File(w)>>}
        /\ UNCHANGED faults
     \/ /\ File(w) \notin binary
        /\ UNCHANGED <<local, faults>>
     \/ Fault /\ UNCHANGED local
  /\ UNCHANGED <<kafkaVars, hdfsVars, csv, hiveVars, successes, crashes>>

\* The shell makes the output file even when there is nothing to read.
Nfdump(w) ==
  /\ At(w, "nfdump")
  /\ Goto(w, "mkdir")
  /\ csv' = [csv EXCEPT ![<<Host(w), File(w)>>] =
               IF <<Host(w), File(w)>> \in local THEN "rows" ELSE "empty"]
  /\ UNCHANGED <<kafkaVars, hdfsVars, local, hiveVars, successes, bounds>>

\* Mutant of Mkdir: every run stages its file in one directory.
MkdirFixed(w) ==
  /\ At(w, "mkdir")
  /\ LET i == CHOOSE i \in StageIds : TRUE IN
       /\ stage' = [stage EXCEPT ![i] = IF @ = None THEN {} ELSE @]
       /\ child' = [child EXCEPT ![w].pc = "upload", ![w].stage = i]
  /\ UNCHANGED <<kafkaVars, binary, localVars, hiveVars, successes, bounds>>

\* '%M%S%f'[:-4] is the same for two runs in a hundredth of a second, and comes
\* again after an hour.
InUse(i) == stage[i] # None \/ \E v \in Workers : child[v].stage = i

\* hdfs.mkdir: makedirs of a directory that exists succeeds; that it returned
\* False is not looked at.
Mkdir(w) ==
  /\ At(w, "mkdir")
  /\ \E i \in StageIds :
       /\ \/ stage' = [stage EXCEPT ![i] = IF @ = None THEN {} ELSE @] /\ UNCHANGED faults
          \/ Fault /\ UNCHANGED stage
       /\ child' = [child EXCEPT ![w].pc = "upload", ![w].stage = i]
       /\ clash' = (clash \/ InUse(i))
  /\ UNCHANGED <<kafkaVars, binary, localVars, flow_tmp, flow, successes, crashes>>

\* upload_file returns the error of a missing local file or an existing remote
\* one in place of raising it.  An empty file adds no rows; a path that does not
\* exist becomes the file itself.
Upload(w) ==
  /\ At(w, "upload")
  /\ Goto(w, "drop")
  /\ \/ /\ stage' = [stage EXCEPT ![child[w].stage] =
                       IF csv[<<Host(w), File(w)>>] # "rows" THEN @
                       ELSE IF @ = None THEN {File(w)} ELSE @ \cup {File(w)}]
        /\ UNCHANGED faults
     \/ Fault /\ UNCHANGED stage
  /\ UNCHANGED <<kafkaVars, binary, localVars, hiveVars, successes, crashes>>

\* Mutant of DropTable: the table of the last run is kept.
KeepTable(w) ==
  /\ At(w, "drop")
  /\ Goto(w, "create")
  /\ UNCHANGED <<kafkaVars, hdfsVars, localVars, hiveVars, successes, bounds>>

DropTable(w) ==
  /\ At(w, "drop")
  /\ Goto(w, "create")
  /\ flow_tmp' = None
  /\ clash' = (clash \/ \E v \in Workers \ {w} : At(v, "insert"))
  /\ UNCHANGED <<kafkaVars, hdfsVars, localVars, flow, successes, bounds>>

\* CREATE of a table that exists fails, see ChildFails.
CreateTable(w) ==
  /\ At(w, "create")
  /\ flow_tmp = None
  /\ Goto(w, "insert")
  /\ flow_tmp' = child[w].stage
  /\ UNCHANGED <<kafkaVars, hdfsVars, localVars, flow, clash, successes, bounds>>

Rows == IF stage[flow_tmp] = None THEN {} ELSE stage[flow_tmp]

\* Whatever the table's location holds now goes to the partition of this file.
Insert(w) ==
  /\ At(w, "insert")
  /\ flow_tmp # None
  /\ Goto(w, "clean")
  /\ flow' = [x \in DOMAIN flow |->
                IF x[1] = w /\ x[2] \in Rows /\ x[3] = Hour[File(w)] THEN flow[x] + 1
                ELSE flow[x]]
  /\ UNCHANGED <<kafkaVars, hdfsVars, localVars, flow_tmp, clash, successes, bounds>>

\* hdfs.delete_folder; its failure is swallowed.
DeleteStage(w) ==
  /\ At(w, "clean")
  /\ Goto(w, "rm")
  /\ \/ stage' = [stage EXCEPT ![child[w].stage] = None] /\ UNCHANGED faults
     \/ Fault /\ UNCHANGED stage
  /\ UNCHANGED <<kafkaVars, binary, localVars, hiveVars, successes, crashes>>

\* rm of both local files, then "File ... was successfully processed."
RemoveLocal(w) ==
  /\ At(w, "rm")
  /\ child' = [child EXCEPT ![w] = NoChild]
  /\ local' = local \ {<<Host(w), File(w)>>}
  /\ csv' = [csv EXCEPT ![<<Host(w), File(w)>>] = "none"]
  /\ successes' = successes \cup {<<w, File(w)>>}
  /\ UNCHANGED <<kafkaVars, hdfsVars, hiveVars, bounds>>

\* Mutant of ChildFails: a CREATE that fails raises nothing, and the INSERT then
\* waits for the table.
ChildFailsSilently(w) ==
  /\ At(w, "create")
  /\ Fault
  /\ Goto(w, "insert")
  /\ UNCHANGED <<kafkaVars, hdfsVars, localVars, hiveVars, successes, crashes>>

\* Hive refuses a CREATE of a table that exists and an INSERT from one that does
\* not; it or HDFS may also be down.  The exception ends the child process, and
\* the worker, which only joins it, polls the next message.
ChildFails(w) ==
  /\ \/ At(w, "create") /\ flow_tmp # None /\ UNCHANGED faults
     \/ At(w, "insert") /\ flow_tmp = None /\ UNCHANGED faults
     \/ ~At(w, "poll") /\ Fault
  /\ child' = [child EXCEPT ![w] = NoChild]
  /\ UNCHANGED <<kafkaVars, hdfsVars, localVars, hiveVars, successes, crashes>>

\* The worker and its child are killed, to be started again by hand.
Crash(w) ==
  /\ crashes < MaxCrashes
  /\ crashes' = crashes + 1
  /\ position' = [position EXCEPT ![w] = None]
  /\ child' = [child EXCEPT ![w] = NoChild]
  /\ UNCHANGED <<log, committed, hdfsVars, localVars, hiveVars, successes, faults>>

ChildStep(w) ==
  \/ Download(w) \/ Nfdump(w) \/ Mkdir(w) \/ Upload(w) \/ DropTable(w)
  \/ CreateTable(w) \/ Insert(w) \/ DeleteStage(w) \/ RemoveLocal(w) \/ ChildFails(w)

WorkerStep(w) == Subscribe(w) \/ Poll(w) \/ ChildStep(w)

Next ==
  \/ \E f \in Files : Arrive(f)
  \/ \E w \in Workers : WorkerStep(w) \/ Commit(w) \/ Crash(w)

Spec == Init /\ [][Next]_vars

\* A worker that has something to do does it; commits and files may never come.
FairSpec == Spec /\ \A w \in Workers : WF_vars(WorkerStep(w))

-----------------------------------------------------------------------------
(* Properties *)

ChildPcs == {"poll", "download", "nfdump", "mkdir", "upload", "drop", "create",
             "insert", "clean", "rm"}

\* Type correctness; a child that is running has a file of the topic, and from
\* the upload on a stage directory of its own choice.
TypeOK ==
  /\ binary \subseteq Files
  /\ log \in Seq(Files)
  /\ position \in [Workers -> (0 .. Len(log)) \cup {None}]
  /\ committed \in [Workers -> (0 .. Len(log)) \cup {None}]
  /\ child \in [Workers -> [pc : ChildPcs, file : Files \cup {None},
                            stage : StageIds \cup {None}]]
  /\ \A w \in Workers :
       /\ At(w, "poll") <=> File(w) = None
       /\ child[w].pc \in {"upload", "drop", "create", "insert", "clean", "rm"}
            <=> child[w].stage # None
  /\ local \subseteq Hosts \X Files
  /\ csv \in [Hosts \X Files -> {"none", "empty", "rows"}]
  /\ stage \in [StageIds -> (SUBSET Files) \cup {None}]
  /\ flow_tmp \in StageIds \cup {None}
  /\ flow \in [Workers \X Files \X Hours -> Nat]
  /\ clash \in BOOLEAN
  /\ successes \subseteq Workers \X Files
  /\ faults \in Nat
  /\ crashes \in Nat

\* The rows of a file are in the partition of its hour and in no other, although
\* the INSERT takes whatever is in the directory that the table all workers share
\* points to, and whatever failed or was killed before; unless a child dropped the
\* table while another was about to INSERT from it, or took a stage directory that
\* was in use, which nothing in worker.py prevents.
RowsInTheirPartition ==
  ~clash => \A w \in Workers, f \in Files, h \in Hours : flow[<<w, f, h>>] > 0 => h = Hour[f]

\* A worker, which is a consumer group of its own, loads a file again only when a
\* crash makes Kafka deliver its message again; with the same exception.
LoadedOncePerDelivery ==
  ~clash => \A w \in Workers, f \in Files : flow[<<w, f, Hour[f]>>] <= 1 + crashes

\* flow/worker.py:233, "File ... was successfully processed.": its rows are in
\* the table, in its partition.
SuccessMeansLoaded ==
  \A w \in Workers, f \in Files : <<w, f>> \in successes =>
    \E v \in Workers : flow[<<v, f, Hour[f]>>] > 0

\* Whatever fails in a child, and wherever a crash leaves the table and the
\* files, no worker is held up: it takes every message past its position in hand,
\* unless it is killed.  What `Subscribe' skipped it does not get to.
EveryMessagePolled ==
  \A w \in Workers, n \in 1 .. MaxMessages :
    (Len(log) >= n /\ position[w] # None /\ position[w] < n)
      ~> (position[w] = None \/ (position[w] = n /\ File(w) = log[n]))

=============================================================================
