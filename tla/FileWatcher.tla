----------------------------- MODULE FileWatcher -----------------------------
(***************************************************************************)
(* spot-ingest/common/file_watcher.py: an observer thread that puts the    *)
(* files created in, or moved into, a directory on a queue which its       *)
(* client, the collector's main thread, empties.  The queue is a list:     *)
(* `detect' inserts at index 0, `dequeue' pops from the end.               *)
(*                                                                         *)
(* The module has the state and the operations of the class; the          *)
(* specification that runs them against a client is DistributedCollector.  *)
(***************************************************************************)
EXTENDS Naturals, Sequences

CONSTANTS Paths,        \* file paths under the watched directory
          Supported,    \* those whose name matches one of `supported_files'
          MaxDetected   \* bound: supported files detected in a behaviour

ASSUME SupportedAssumption == Supported \subseteq Paths
ASSUME MaxDetectedAssumption == MaxDetected \in Nat

VARIABLES disk,         \* the files that exist
          queue,        \* FileWatcher._queue
          observer,     \* "new", "running", "stopping" or "joined"
          detected,     \* history: the files put on the queue, in order
          dropped       \* history: the files `stop' took off it, in order

watcherVars == <<disk, queue, observer, detected, dropped>>

WatcherInit ==
  /\ disk = {}
  /\ queue = << >>
  /\ observer = "new"
  /\ detected = << >>
  /\ dropped = << >>

Oldest == queue[Len(queue)]
WithoutOldest == SubSeq(queue, 1, Len(queue) - 1)

WatcherStart ==
  /\ observer = "new"
  /\ observer' = "running"
  /\ UNCHANGED <<disk, queue, detected, dropped>>

\* The thread dispatches events until it is joined: stop() only sets a flag that
\* it reads between two events.
Dispatching == observer \in {"running", "stopping"}

\* Mutant of Detect: the file goes to the end `dequeue' pops from.
DetectAtTheEnd(newfile) ==
  IF newfile \in Supported
    THEN /\ Len(detected) < MaxDetected
         /\ queue' = Append(queue, newfile)
         /\ detected' = Append(detected, newfile)
    ELSE UNCHANGED <<queue, detected>>

\* detect: a file whose name is not supported is skipped.
Detect(newfile) ==
  IF newfile \in Supported
    THEN /\ Len(detected) < MaxDetected
         /\ queue' = <<newfile>> \o queue
         /\ detected' = Append(detected, newfile)
    ELSE UNCHANGED <<queue, detected>>

OnCreated(src) ==
  /\ Dispatching
  /\ src \notin disk
  /\ disk' = disk \cup {src}
  /\ Detect(src)
  /\ UNCHANGED <<observer, dropped>>

OnMoved(src, dest) ==
  /\ Dispatching
  /\ src \in disk /\ dest # src
  /\ disk' = (disk \ {src}) \cup {dest}
  /\ Detect(dest)
  /\ UNCHANGED <<observer, dropped>>

\* stop: set the flag, wait for the thread, then drop what is on the queue.
StopObserver ==
  /\ observer = "running"
  /\ observer' = "stopping"
  /\ UNCHANGED <<disk, queue, detected, dropped>>

JoinObserver ==
  /\ observer = "stopping"
  /\ observer' = "joined"
  /\ UNCHANGED <<disk, queue, detected, dropped>>

DropOne ==
  /\ observer = "joined"
  /\ queue # << >>
  /\ dropped' = Append(dropped, Oldest)
  /\ queue' = WithoutOldest
  /\ UNCHANGED <<disk, observer, detected>>

WatcherTypeOK ==
  /\ disk \subseteq Paths
  /\ queue \in Seq(Supported)
  /\ observer \in {"new", "running", "stopping", "joined"}
  /\ detected \in Seq(Supported) /\ Len(detected) <= MaxDetected
  /\ dropped \in Seq(Supported)

=============================================================================
