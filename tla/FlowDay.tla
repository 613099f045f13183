------------------------------- MODULE FlowDay -------------------------------
(***************************************************************************)
(* One day of flow data after its ingest: the machine learning job, the OA *)
(* job and the OA API together, over the tables and files they share.  An  *)
(* operator starts the jobs, one of each kind at a time, in any order.     *)
(***************************************************************************)
EXTENDS MLJob, FlowOA, FlowResource

vars == <<storeVars, mlVars, oaVars, apiVars>>

Init == StoreInit /\ MLInit /\ OAInit /\ APIInit

Next ==
  \/ MLStep /\ UNCHANGED <<oaVars, apiVars>>
  \/ OAStep /\ UNCHANGED <<mlVars, apiVars>>
  \/ APIStep /\ UNCHANGED <<mlVars, oaVars>>

Spec == Init /\ [][Next]_vars

-----------------------------------------------------------------------------
(* Properties *)

\* The model's reader drops the first line of the feedback file as the header,
\* so a scored connection must not be there: the header is first, and nowhere
\* else, although score_connection decides on it by a listing that may fail and
\* the OA job may remove the file between that listing and the write.  A write
\* that ended before the header leaves a file that never gets one.
HeaderOnlyFirst ==
  feedback # None =>
    /\ faults = 0 => feedback # << >> /\ feedback[1] = Header
    /\ \A i \in 2 .. Len(feedback) : feedback[i] # Header

\* What analysts scored stays in the feedback file, in order, until the OA job
\* removes the whole file: a listing that fails must not lose it.
FeedbackOnlyGrows ==
  [][feedback # None /\ feedback' # None => IsPrefix(feedback, feedback')]_feedback

\* Unless a directory was not deleted, flow_scores holds the results of one run
\* of the machine learning, each connection once: neither a job that failed and
\* was run again nor results replaced while it ran leave a mixture.
ScoresOfOneRun ==
  undeleted = 0 =>
    \A i, j \in DOMAIN tables["suspicious"] :
      /\ tables["suspicious"][i].run = tables["suspicious"][j].run
      /\ i # j => tables["suspicious"][i].conn # tables["suspicious"][j].conn

\* save_comment replaces comments by deleting all and inserting them again: an
\* address never has two, whatever fails or is cleared in between.
OneCommentPerIp ==
  undeleted = 0 =>
    \A i, j \in DOMAIN tables["storyboard"] :
      tables["storyboard"][i].anchor = tables["storyboard"][j].anchor => i = j

\* A comment the analyst was told is saved is in the table, or among those a
\* later request is about to insert again, until the day is reset or rebuilt,
\* as long as no call fails.
AckedCommentsKept ==
  faults = 0 /\ undeleted = 0 =>
    \A c \in acked : CommentKept(c)

\* A job whose children did all of their work has inserted the records of every
\* connection it shows, though a child process inserts them, an earlier run of the
\* day may have been killed anywhere, and the children it left insert as well.
ShownHaveDetails ==
  oa = "done" /\ ~missed /\ undeleted = 0 =>
    \A r \in RowsOf("suspicious") : Alike[r.conn] \in RowsOf("edge")

-----------------------------------------------------------------------------
(* What the repository says and the code does not do *)

\* spot-ml/README.md: the feedback is a tab-separated file, which is what the
\* model's reader expects: the job can train on what the API wrote.
FeedbackNeverStopsTraining == ml # "unreadable"

\* flow_oa.py gets the results of the machine learning from HDFS: when a
\* complete file is there, the scores it shows are those of that file.
LatestResultsShown ==
  [][oa = "results" /\ oa' = "scores" /\ results.csv = "complete" =>
       local'.run = results.run]_vars

=============================================================================
