---------------------------- MODULE ProxyResource ----------------------------
(***************************************************************************)
(* spot-oa/api/resources/proxy.py and graphql/proxy/mutation.py: the       *)
(* mutations and queries of the OA API on a day of proxy data.             *)
(***************************************************************************)
EXTENDS Request, ProxyRecords

CONSTANTS
  ProxySevs       \* severities an analyst gives

-----------------------------------------------------------------------------
(* Scoring *)

\* Mutant of ProxyAsked: one request of the URI, as with LIMIT 1.
OneOfUri(uri) ==
  [c \in Conns |-> c = CHOOSE d \in Conns : Uri[d] = uri]

ProxyAsked(uri) == [c \in Conns |-> Uri[c] = uri]

ProxyScore(uri, sev) == Selects(ProxyAsked(uri), sev)

ProxyInsertScores == InsertsScored([c \in Conns |-> [conn |-> c, uri_sev |-> req.score]])

\* What proxy_oa.py wrote of a URI's reputation: no severity.
Reputation == "uri_rep"

\* The score is put before the fields ml_score, uri_rep and those after them: under
\* the header's score, while the reputation comes under its uri_sev.
ProxyLine(c) == Line([score |-> req.score, uri_sev |-> Reputation], c)

ProxyFeedbackLines ==
  (IF req.append_file THEN << >> ELSE << Header >>)
    \o [i \in DOMAIN req.rows |-> ProxyLine(req.rows[i].conn)]

ProxyPutFeedback == PutsFeedback(ProxyFeedbackLines)

-----------------------------------------------------------------------------
(* The story board *)

\* Sorts what the user interface sends of the requests of and by the URI.
ProxyCreateStoryboard(uri, t) ==
  /\ NewRequest("incident progression", [NoRequest EXCEPT !.anchor = uri, !.text = t])
  /\ UNCHANGED <<tables, fileVars, history>>

\* create_incident_progression
ProxyWriteProgression == api = "incident progression" /\ WritesStory("select timelines")

\* Mutants of OfOthers: the timelines of the URI itself are kept as well; all
\* are read after the directory was removed.
OfAll(rows, uri) == rows
OfNone(rows, uri) == << >>

\* p_threat != the anchor
OfOthers(rows, uri) == Where(rows, Range(rows) \ {uri})

\* create_timeline: the rows of others are read, the directory removed, they
\* are inserted again one by one, and then those of the URI.
ProxySelectTimelines ==
  /\ api = "select timelines"
  /\ req' = [req EXCEPT !.tmp = OfOthers(tables["timeline"], req.anchor)]
  /\ api' = "delete timelines"
  /\ UNCHANGED <<tables, fileVars, history, bounds>>

ProxyDeleteTimelines ==
  /\ api = "delete timelines"
  /\ Delete("timeline")
  /\ Then("insert timelines")
  /\ UNCHANGED <<fileVars, history>>

ProxyInsertTimeline ==
  /\ api = "insert timelines"
  /\ IF req.tmp # << >>
     THEN /\ Insert("timeline", << Head(req.tmp) >>)
          /\ req' = [req EXCEPT !.tmp = Tail(@)]
          /\ api' = api
     ELSE /\ Insert("timeline", << req.anchor >>)
          /\ Then("select comments")
  /\ UNCHANGED <<fileVars, history, bounds>>

\* save_comments
ProxySelectComments == SelectComments
ProxyDeleteComments == DeleteComments
ProxyInsertComment  == InsertComment

\* reset_scored_connections: of the three paths the second leads nowhere.
ProxyResetList == << "storyboard", Nowhere, "threat_investigation" >>

ProxyReset == Resets
ProxyResetNext == ResetsNext(ProxyResetList)

-----------------------------------------------------------------------------
(* Queries *)

\* suspicious_requests
ProxyHidden(c) == \E r \in RowsOf("threat_investigation") : Uri[r.conn] = Uri[c]

\* time_line; the timeline is there, or the request is about to insert it again.
TimelineKept(uri) ==
  \/ uri \in RowsOf("timeline")
  \/ /\ api \in {"delete timelines", "insert timelines"}
     /\ uri = req.anchor \/ uri \in Range(req.tmp)

ProxyAPIStep ==
  \/ \E uri \in Uris, s \in ProxySevs : ProxyScore(uri, s)
  \/ ProxyInsertScores \/ ListFeedback \/ ProxyPutFeedback
  \/ \E uri \in Uris, t \in Texts : ProxyCreateStoryboard(uri, t)
  \/ ProxyWriteProgression \/ ProxySelectTimelines \/ ProxyDeleteTimelines
  \/ ProxyInsertTimeline \/ ProxySelectComments \/ ProxyDeleteComments \/ ProxyInsertComment
  \/ ProxyReset \/ ProxyResetNext
  \/ RequestFails

=============================================================================
