-------------------------------- MODULE DNSOA --------------------------------
(***************************************************************************)
(* spot-oa/oa/dns/dns_oa.py: the OA job of one day of dns data.  Like that *)
(* of flow, but for the details, whose retrieval may fail and is then      *)
(* skipped, and for the dendrogram, which is inserted for every connection *)
(* shown, whether or not its client had one before.                        *)
(***************************************************************************)
EXTENDS OAJob, DNSRecords

VARIABLES
  dendro,         \* connections whose client's dendrogram is still to be inserted
  strayDendros    \* such lists of children whose job was killed

dendroVars == <<dendro, strayDendros>>

DNSTables == {"suspicious", "edge", "dendro", "threat_dendro",
              "threat_investigation", "storyboard", "summary"}

DNSClearList == << "suspicious", "edge", "dendro", "threat_dendro",
                   "threat_investigation", "storyboard", "summary" >>

DNSStart         == JobStarts /\ UNCHANGED dendroVars
DNSClear         == JobClears(DNSClearList) /\ UNCHANGED dendroVars
DNSClearFeedback == JobClearsFeedback(DNSClearList) /\ UNCHANGED dendroVars
DNSClearStories  == JobClearsStories /\ UNCHANGED dendroVars
DNSGetResults    == JobGetsResults /\ UNCHANGED dendroVars

\* _create_dns_scores, and the start of the two children
DNSCreateScores ==
  JobInsertsScores("details") /\ dendro' = scores /\ UNCHANGED strayDendros

\* _get_dns_details: what raises in the SELECT is logged and skipped.
DNSInsertEdge == JobInsertsEdge /\ UNCHANGED dendroVars

DNSSkipEdge ==
  /\ NextEdge
  /\ Fault
  /\ missed' = TRUE
  /\ UNCHANGED <<dendroVars, tables>>

\* _get_dns_dendrogram
DNSInsertDendro ==
  /\ dendro # << >>
  /\ Insert("dendro", << Client[Head(dendro)] >>)
  /\ dendro' = Tail(dendro)
  /\ UNCHANGED <<strayDendros, jobVars, fileVars, history, bounds>>

DNSChildDies ==
  \/ EdgeChildDies /\ UNCHANGED dendroVars
  \/ /\ dendro # << >>
     /\ Fault
     /\ dendro' = << >>
     /\ missed' = TRUE
     /\ UNCHANGED <<strayDendros, oa, clearing, local, scores, edges, strayVars, tables,
                    fileVars, history>>

\* Mutant of DNSJoinChildren: the second join is forgotten.
DNSJoinFirstChild ==
  /\ oa = "details"
  /\ edges = << >>
  /\ oa' = "summary"
  /\ UNCHANGED <<clearing, local, scores, childVars, dendroVars, storeVars>>

DNSJoinChildren ==
  /\ oa = "details"
  /\ edges = << >>
  /\ dendro = << >>
  /\ oa' = "summary"
  /\ UNCHANGED <<clearing, local, scores, childVars, dendroVars, storeVars>>

DNSIngestSummary == JobSummary /\ OAExit("done") /\ UNCHANGED dendroVars

DNSFails == JobFails /\ dendro' = << >> /\ UNCHANGED strayDendros

DNSKilled ==
  /\ JobKilled
  /\ dendro' = << >>
  /\ strayDendros' = LeftTo(strayDendros, dendro, << >>)

OrphanInsertsDendro ==
  /\ \E i \in DOMAIN strayDendros :
       /\ strayDendros[i] # << >>
       /\ Insert("dendro", << Client[Head(strayDendros[i])] >>)
       /\ strayDendros' = [strayDendros EXCEPT ![i] = Tail(@)]
  /\ UNCHANGED <<dendro, jobVars, fileVars, history, bounds>>

\* Children of jobs that were killed.
DNSOrphans ==
  \/ (OrphanInsertsEdge \/ OrphanDies) /\ UNCHANGED dendroVars
  \/ OrphanInsertsDendro
  \/ \E i \in DOMAIN strayDendros :
       /\ strayDendros[i] # << >>
       /\ strayDendros' = [strayDendros EXCEPT ![i] = << >>]
       /\ UNCHANGED <<dendro, jobVars, storeVars>>

DNSOAStep ==
  \/ DNSStart \/ DNSClear \/ DNSClearFeedback \/ DNSClearStories \/ DNSGetResults
  \/ DNSCreateScores \/ DNSInsertEdge \/ DNSSkipEdge \/ DNSInsertDendro \/ DNSChildDies
  \/ DNSJoinChildren \/ DNSIngestSummary \/ DNSFails \/ DNSKilled \/ DNSOrphans

=============================================================================
