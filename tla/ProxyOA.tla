------------------------------- MODULE ProxyOA -------------------------------
(***************************************************************************)
(* spot-oa/oa/proxy/proxy_oa.py: the OA job of one day of proxy data.  Its *)
(* one child process is started and not joined: the details are inserted   *)
(* while the summary is, and after it.  An interpreter that ends, also by  *)
(* an exception, waits for its children (multiprocessing does), unless it  *)
(* is killed.                                                              *)
(***************************************************************************)
EXTENDS OAJob

ProxyTables == {"suspicious", "edge", "threat_investigation", "timeline",
                "storyboard", "summary"}

\* Mutant of ProxyClearList: the details are forgotten.
ProxyAllButEdge == << "suspicious", "threat_investigation", "timeline",
                      "storyboard", "summary" >>

ProxyClearList == << "suspicious", "edge", "threat_investigation", "timeline",
                     "storyboard", "summary" >>

ProxyStart         == JobStarts
ProxyClear         == JobClears(ProxyClearList)
ProxyClearFeedback == JobClearsFeedback(ProxyClearList)
ProxyClearStories  == JobClearsStories
ProxyGetResults    == JobGetsResults

\* _create_proxy_scores_csv, and the start of the child
ProxyCreateScores == JobInsertsScores("summary")

\* _get_proxy_details, in the child
ProxyInsertEdge == JobInsertsEdge

ProxyChildDies == EdgeChildDies

\* _ingest_summary: what it raises ends the job as well.
ProxyIngestSummary ==
  /\ JobSummary
  /\ oa' = "exit"
  /\ UNCHANGED <<clearing, scores, edges>>

ProxySummaryFails ==
  /\ oa = "summary"
  /\ Fault
  /\ oa' = "exit failed"
  /\ UNCHANGED <<clearing, local, scores, childVars, tables, fileVars, history>>

ChildDone == edges = << >>

ProxyExit ==
  /\ oa \in {"exit", "exit failed"}
  /\ ChildDone
  /\ OAExit(IF oa = "exit" THEN "done" ELSE "idle")
  /\ UNCHANGED <<local, strayVars, missed, storeVars>>

ProxyFails == JobFails

ProxyKilled == JobKilled

ProxyOrphans == OrphanInsertsEdge \/ OrphanDies

ProxyOAStep ==
  \/ ProxyStart \/ ProxyClear \/ ProxyClearFeedback \/ ProxyClearStories \/ ProxyGetResults
  \/ ProxyCreateScores \/ ProxyInsertEdge \/ ProxyChildDies
  \/ ProxyIngestSummary \/ ProxySummaryFails \/ ProxyExit \/ ProxyFails
  \/ ProxyKilled \/ ProxyOrphans

=============================================================================
