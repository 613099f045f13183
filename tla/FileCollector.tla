---------------------------- MODULE FileCollector ----------------------------
(***************************************************************************)
(* spot-ingest/common/file_collector.py: the FileWatcher of the classic    *)
(* collectors.  A watchdog observer thread puts the supported files that   *)
(* appear in the collector's directory on a multiprocessing Queue, from    *)
(* which the main thread takes them in that order.                         *)
(*                                                                         *)
(* A file's content is the number of its appearance: a later file of the   *)
(* same name is another content.                                           *)
(***************************************************************************)
EXTENDS Naturals, Sequences

CONSTANTS
  Paths,        \* names of files of the collector's directory
  Supported,    \* those of a supported name, without ".current"
  MaxCreated    \* bound: files that appear

ASSUME PathsAssumption == Supported \subseteq Paths /\ MaxCreated \in Nat

VARIABLES
  directory,    \* [Paths -> content of the file], 0: no file
  created,      \* contents that have appeared
  queue,        \* self._files_queue
  closed,       \* whether it has been closed
  observer,     \* the observer thread: "new", "running" or "dead"
  detected      \* history: what new_file_detected put on the queue, in order

watcherVars == <<directory, created, queue, closed, observer, detected>>

Contents == 1 .. MaxCreated

WatcherInit ==
  /\ directory = [p \in Paths |-> 0]
  /\ created = 0
  /\ queue = << >>
  /\ closed = FALSE
  /\ observer = "new"
  /\ detected = << >>

WatcherStart ==
  /\ observer' = "running"
  /\ UNCHANGED <<directory, created, queue, closed, detected>>

Queued(path) ==
  /\ queue' = Append(queue, path)
  /\ detected' = Append(detected, path)

\* put() on a closed queue is an AssertionError, which ends the observer thread.
NewFileDetected(path) ==
  IF observer # "running" \/ path \notin Supported
    THEN UNCHANGED <<queue, detected, observer>>
    ELSE IF closed
      THEN observer' = "dead" /\ UNCHANGED <<queue, detected>>
      ELSE Queued(path) /\ UNCHANGED observer

\* A file of a new name; one that is written over is not created.
OnCreated(path) ==
  /\ directory[path] = 0
  /\ created < MaxCreated
  /\ created' = created + 1
  /\ directory' = [directory EXCEPT ![path] = created + 1]
  /\ NewFileDetected(path)
  /\ UNCHANGED closed

\* A file gets another name.
OnMoved(path, dest) ==
  /\ directory[path] # 0 /\ directory[dest] = 0
  /\ directory' = [directory EXCEPT ![path] = 0, ![dest] = directory[path]]
  /\ NewFileDetected(dest)
  /\ UNCHANGED <<created, closed>>

\* Mutant of GetNextFile: the newest first.
GetLastFile(path) ==
  /\ queue # << >>
  /\ path = queue[Len(queue)]
  /\ queue' = SubSeq(queue, 1, Len(queue) - 1)

\* GetNextFile blocks on an empty queue.
GetNextFile(path) ==
  /\ queue # << >>
  /\ path = Head(queue)
  /\ queue' = Tail(queue)

\* Mutant of HasFiles: one file is not enough.
HasSeveralFiles == Len(queue) > 1

HasFiles == queue # << >>

WatcherTypeOK ==
  /\ directory \in [Paths -> 0 .. MaxCreated]
  /\ created \in 0 .. MaxCreated
  /\ queue \in Seq(Supported)
  /\ closed \in BOOLEAN
  /\ observer \in {"new", "running", "dead"}
  /\ detected \in Seq(Supported)

=============================================================================
