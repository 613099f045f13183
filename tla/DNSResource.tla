----------------------------- MODULE DNSResource -----------------------------
(***************************************************************************)
(* spot-oa/api/resources/dns.py and graphql/dns/mutation.py: the mutations *)
(* and queries of the OA API on a day of dns data.  The notebook gives of  *)
(* a threat either the client or the query name, its anchor.               *)
(***************************************************************************)
EXTENDS Request, DNSRecords

CONSTANTS
  DNSSevs         \* severities an analyst gives

-----------------------------------------------------------------------------
(* Scoring *)

\* _score_records: the severity is that of what is given, the other is 0.
DNSCommand(ip, dns, sev) ==
  [ip |-> ip, dns |-> dns,
   ip_sev |-> IF ip # None THEN sev ELSE 0,
   dns_sev |-> IF dns # None THEN sev ELSE 0]

DNSSelects(cmd, c) ==
  \/ cmd.ip # None /\ Client[c] = cmd.ip
  \/ cmd.dns # None /\ Name[c] = cmd.dns

DNSScore(ip, dns, sev) ==
  LET cmd == DNSCommand(ip, dns, sev) IN
  /\ ip # None \/ dns # None
  /\ Selects([c \in Conns |-> DNSSelects(cmd, c)], cmd)

\* threat_data: a severity of 0 for what the command did not name.
DNSScored(c) ==
  [conn |-> c,
   ip_sev |-> IF req.score.ip = Client[c] THEN req.score.ip_sev ELSE 0,
   dns_sev |-> IF req.score.dns = Name[c] THEN req.score.dns_sev ELSE 0]

DNSInsertScores == InsertsScored([c \in Conns |-> DNSScored(c)])

\* Mutant of DNSLine: the two severities are swapped.
DNSSwapped(c) == Line([ip |-> req.score.dns_sev, dns |-> req.score.ip_sev], c)

\* Each row has both severities of the command, whichever it was selected by.
DNSLine(c) == Line([ip |-> req.score.ip_sev, dns |-> req.score.dns_sev], c)

DNSFeedbackLines ==
  (IF req.append_file THEN << >> ELSE << Header >>)
    \o [i \in DOMAIN req.rows |-> DNSLine(req.rows[i].conn)]

DNSPutFeedback == PutsFeedback(DNSFeedbackLines)

-----------------------------------------------------------------------------
(* The story board *)

\* expanded_search: what a client asked for, or who asked for a name.
DNSExpandedSearch(a) == SetToSeq({c \in Conns : Client[c] = a \/ Name[c] = a})

DNSCreateStoryboard(a, t) ==
  /\ NewRequest(IF DNSExpandedSearch(a) = << >> THEN "select comments" ELSE "dendro",
                [NoRequest EXCEPT !.anchor = a, !.text = t, !.expanded = DNSExpandedSearch(a)])
  /\ UNCHANGED <<tables, fileVars, history>>

\* create_dendro: one INSERT per row of the search.
DNSInsertThreatDendro ==
  /\ api = "dendro"
  /\ Insert("threat_dendro", << [anchor |-> req.anchor, conn |-> Head(req.expanded)] >>)
  /\ req' = [req EXCEPT !.expanded = Tail(@)]
  /\ api' = IF Len(req.expanded) > 1 THEN "dendro" ELSE "select comments"
  /\ UNCHANGED <<fileVars, history, bounds>>

\* save_comments
DNSSelectComments == SelectComments
DNSDeleteComments == DeleteComments
DNSInsertComment  == InsertComment

\* reset_scored_connections: of the three paths the second leads nowhere.
DNSResetList == << "storyboard", Nowhere, "threat_investigation" >>

DNSReset == Resets
DNSResetNext == ResetsNext(DNSResetList)

-----------------------------------------------------------------------------
(* Queries *)

\* incident_progression
DNSIncidentProgression(a) == {r.conn : r \in {x \in RowsOf("threat_dendro") : x.anchor = a}}

DNSAPIStep ==
  \/ \E ip \in Clients \cup {None}, dns \in Names \cup {None}, s \in DNSSevs :
       DNSScore(ip, dns, s)
  \/ DNSInsertScores \/ ListFeedback \/ DNSPutFeedback
  \/ \E a \in Clients \cup Names, t \in Texts : DNSCreateStoryboard(a, t)
  \/ DNSInsertThreatDendro \/ DNSSelectComments \/ DNSDeleteComments \/ DNSInsertComment
  \/ DNSReset \/ DNSResetNext
  \/ RequestFails

=============================================================================
