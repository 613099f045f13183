------------------------------- MODULE MLJob --------------------------------
(***************************************************************************)
(* spot-ml/ml_ops.sh and the job it submits, SuspiciousConnects:           *)
(* the scores of the day are removed, the model is trained on the day's    *)
(* records and on the feedback, and the results are saved in parts that    *)
(* are then merged into the one file the OA job reads.                     *)
(***************************************************************************)
EXTENDS DayStore

CONSTANTS
  Results         \* what the model may find: connections, most suspicious first

\* Every record of the day is scored once.
ASSUME ResultsAssumption ==
  \A found \in Results : found \in Seq(Conns) /\ IsInjective(found)

VARIABLES
  ml,             \* where the job is
  mlRun           \* which run it is: the number of its start

mlVars == <<ml, mlRun>>

MLInit == ml = "idle" /\ mlRun = 0

Severities == {"1", "2", "3"}

\* The first field of line.split("\t"): the whole line when it holds no tab.
FirstField(line) == IF line.delimiter = "tab" THEN line.sev ELSE "whole line"

\* loadFeedbackDF: lines.first() is the header, which an empty file lacks; of
\* every other line the first field must be an integer.
Readable(file) ==
  \/ file = None
  \/ /\ file # << >>
     /\ \A i \in DOMAIN file : file[i] # file[1] => FirstField(file[i]) \in Severities

MLStart ==
  /\ ml \in {"idle", "unreadable"}
  /\ Starts
  /\ mlRun' = starts + 1
  /\ ml' = "remove"
  /\ UNCHANGED <<tables, fileVars, history>>

\* hdfs dfs -rm -R -f: the script goes on when it fails.
RemoveScores ==
  /\ ml = "remove"
  /\ ml' = "train"
  /\ \/ results' = NoResults /\ UNCHANGED bounds
     \/ Undeleted /\ UNCHANGED results
  /\ UNCHANGED <<mlRun, tables, stories, feedback, history>>

Train ==
  /\ ml = "train"
  /\ ml' = IF Readable(feedback) THEN "save" ELSE "unreadable"
  /\ UNCHANGED <<mlRun, storeVars>>

\* saveAsTextFile does not write to a directory that exists.
Save ==
  /\ ml = "save"
  /\ IF results = NoResults
     THEN /\ ml' = "merge"
          /\ results' = [NoResults EXCEPT !.csv = "parts"]
     ELSE ml' = "idle" /\ UNCHANGED results
  /\ UNCHANGED <<mlRun, tables, stories, feedback, history, bounds>>

\* copyMerge creates flow_results.csv, and a reader sees what is flushed of it.
MergeBegins ==
  /\ ml = "merge"
  /\ results.csv = "parts"
  /\ \E found \in Results : \E n \in 0 .. Len(found) :
       results' = [csv |-> "partial", run |-> mlRun, rows |-> SubSeq(found, 1, n)]
  /\ UNCHANGED <<mlVars, tables, stories, feedback, history, bounds>>

MergeEnds ==
  /\ ml = "merge"
  /\ results.csv = "partial"
  /\ \E found \in Results :
       /\ IsPrefix(results.rows, found)
       /\ results' = [results EXCEPT !.csv = "complete", !.rows = found]
  /\ ml' = "idle"
  /\ UNCHANGED <<mlRun, tables, stories, feedback, history, bounds>>

\* The job fails, or there are no records of the day.
MLFails ==
  /\ ml \in {"train", "save", "merge"}
  /\ Fault
  /\ ml' = "idle"
  /\ UNCHANGED <<mlRun, tables, fileVars, history>>

MLStep ==
  \/ MLStart \/ RemoveScores \/ Train \/ Save \/ MergeBegins \/ MergeEnds \/ MLFails

=============================================================================
