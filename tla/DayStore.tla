------------------------------ MODULE DayStore -------------------------------
(***************************************************************************)
(* What the machine learning job, the OA job and the OA API share of one   *)
(* day of one type of data: the Impala tables of the day, each a directory *)
(* of HDFS that may be deleted underneath it, the feedback file, the files *)
(* of the story board, and the results of the machine learning.  Modelled  *)
(* from how spot-oa/api/resources/{impala_engine,hdfs_client}.py and       *)
(* ml_ops.sh use them.                                                     *)
(***************************************************************************)
EXTENDS Naturals, FiniteSets, SequencesExt

CONSTANTS
  Conns,          \* connections of the day
  Tables,         \* named after the directories under <data type>/hive/oa
  MaxStarts,      \* bound: jobs started and requests sent
  MaxFaults,      \* bound: calls that fail, processes that are killed
  MaxUndeleted,   \* bound: deletions that fail and are taken for done
  None

\* A path that leads to no table of this type.
Nowhere == "nowhere"

ASSUME DayAssumption ==
  /\ None \notin Conns /\ Nowhere \notin Tables
  /\ {"suspicious", "edge", "threat_investigation", "storyboard", "summary"} \subseteq Tables
  /\ {MaxStarts, MaxFaults, MaxUndeleted} \subseteq Nat

VARIABLES
  tables,         \* [Tables -> rows of the day's partition, in order of insertion]
  stories,        \* addresses that have story board files
  feedback,       \* lines of ml_feedback.csv, None: no file
  results,        \* scores directory of the day
  acked,          \* history: comments the analyst was told are saved
  cleared,        \* history: the story board was cleared during the request
  starts, faults, undeleted

fileVars  == <<stories, feedback, results>>
history   == <<acked, cleared>>
bounds    == <<starts, faults, undeleted>>
storeVars == <<tables, fileVars, history, bounds>>

NoResults == [csv |-> "absent", run |-> 0, rows |-> << >>]

StoreInit ==
  /\ tables = [t \in Tables |-> << >>]
  /\ stories = {}
  /\ feedback = None
  /\ results = NoResults
  /\ acked = {}
  /\ cleared = FALSE
  /\ starts = 0
  /\ faults = 0
  /\ undeleted = 0

Starts ==
  starts < MaxStarts /\ starts' = starts + 1 /\ UNCHANGED <<faults, undeleted>>

Fault ==
  faults < MaxFaults /\ faults' = faults + 1 /\ UNCHANGED <<starts, undeleted>>

Undeleted ==
  undeleted < MaxUndeleted /\ undeleted' = undeleted + 1 /\ UNCHANGED <<starts, faults>>

\* INSERT INTO ... PARTITION (the day)
Insert(t, rows) == tables' = [tables EXCEPT ![t] = @ \o rows]

\* delete_folder of the partition's directory: an HdfsError is swallowed, and a
\* folder that does not exist is none.
Delete(t) ==
  \/ t \in Tables /\ tables' = [tables EXCEPT ![t] = << >>] /\ UNCHANGED bounds
  \/ t = Nowhere /\ UNCHANGED <<tables, bounds>>
  \/ Undeleted /\ UNCHANGED tables

\* A deletion that is meant to discard what the analyst did.
Clear(t) ==
  /\ Delete(t)
  /\ IF t = "storyboard"
     THEN acked' = {} /\ cleared' = TRUE
     ELSE UNCHANGED <<acked, cleared>>

RowsOf(t) == Range(tables[t])

\* SELECT ... WHERE: the rows that are chosen, in the order of the table.  What
\* SelectSeq computes, of a set and not of an operator.
Where(rows, chosen) ==
  LET upTo[i \in 0 .. Len(rows)] ==
        IF i = 0 THEN << >>
        ELSE IF rows[i] \in chosen THEN Append(upTo[i - 1], rows[i]) ELSE upTo[i - 1]
  IN  upTo[Len(rows)]

=============================================================================
