---------------------------- MODULE ProxyAnswers -----------------------------
(***************************************************************************)
(* The columns of proxy data: the rows of the OA job (proxy_oa.py), the    *)
(* tables (create_proxy_parquet.hql), the SELECTs of                       *)
(* api/resources/proxy.py, the types of api/graphql/proxy and the fields   *)
(* its notebooks ask for.                                                  *)
(***************************************************************************)
EXTENDS Columns

---------------------------------------------------------------------------
(* The OA job *)

ResultsFields == << "p_date", "p_time", "clientip", "host", "reqmethod", "useragent",
                    "resconttype", "duration", "username", "webcat", "referer",
                    "respcode", "uriport", "uripath", "uriquery", "serverip", "scbytes",
                    "csbytes", "fulluri", "word", "score" >>

\* rep_results[conn[key]]: without an answer for a uri the job ends.
AddReputation(conf) ==
  CASE conf.reputation \in {"none", "silent"} -> << Blank >>
    [] conf.reputation = "complete"           -> << "uri-rep" >>
    [] OTHER                                  -> Raises

AddIana(conf) == IF "iana" \in conf.files THEN << "respcode-name" >> ELSE << Blank >>

AddNetworkContext(conf) ==
  IF "nc" \in conf.files THEN << "network-context" >> ELSE << Blank >>

Added(conf) == << AddReputation(conf), AddIana(conf), AddNetworkContext(conf) >>

\* _get_proxy_details: "proxy_iana" is unbound without the iana configuration.
EdgeCells(conf) ==
  IF "iana" \in conf.files
  THEN << "p_date", "p_time", "clientip", "host", "webcat", "respcode", "reqmethod",
          "useragent", "resconttype", "referer", "uriport", "serverip", "scbytes",
          "csbytes", "fulluri", "h", "respcode-name" >>
  ELSE Raises

Details(conf) == [edge |-> EdgeCells(conf)]

SummaryCells == << "minute", "count" >>

---------------------------------------------------------------------------
(* The tables *)

RawColumns == << "p_date", "p_time", "clientip", "host", "reqmethod", "useragent",
                 "resconttype", "duration", "username", "authgroup", "exceptionid",
                 "filterresult", "webcat", "referer", "respcode", "action", "urischeme",
                 "uriport", "uripath", "uriquery", "uriextension", "serverip", "scbytes",
                 "csbytes", "virusid", "bcappname", "bcappoper", "fulluri" >>

EdgeColumns == << "tdate", "time", "clientip", "host", "webcat", "respcode", "reqmethod",
                  "useragent", "resconttype", "referer", "uriport", "serverip",
                  "scbytes", "csbytes", "fulluri", "hh", "respcode_name" >>

SummaryColumns == << "tdate", "total" >>

ScoresColumns == << "tdate", "time", "clientip", "host", "reqmethod", "useragent",
                    "resconttype", "duration", "username", "webcat", "referer",
                    "respcode", "uriport", "uripath", "uriquery", "serverip", "scbytes",
                    "csbytes", "fulluri", "word", "ml_score", "uri_rep",
                    "respcode_name", "network_context" >>

StoryboardColumns == << "p_threat", "title", "text" >>

ThreatColumns == << "tdate", "fulluri", "uri_sev" >>

TimelineColumns == << "p_threat", "tstart", "tend", "duration", "clientip", "respcode",
                      "respcodename" >>

\* incident-progression-<hash>.json: a dictionary and those of its requests.
ProgressionKeys == << "fulluri", "referer_for", "clientip", "referer", "reqmethod",
                      "resconttype" >>

Tables ==
  [raw |-> RawColumns, scores |-> ScoresColumns, edge |-> EdgeColumns,
   summary |-> SummaryColumns, threats |-> ThreatColumns,
   storyboard |-> StoryboardColumns, timeline |-> TimelineColumns,
   progression |-> ProgressionKeys]

---------------------------------------------------------------------------
(* The SELECTs *)

SuspiciousList ==
  Same({"tdate", "time", "clientip", "host", "reqmethod", "useragent", "resconttype",
        "duration", "username", "webcat", "referer", "respcode", "uriport", "uripath",
        "uriquery", "serverip", "scbytes", "csbytes", "fulluri", "ml_score", "uri_rep",
        "respcode_name", "network_context"})

DetailsList ==
  Same({"tdate", "time", "clientip", "host", "webcat", "respcode", "respcode_name",
        "reqmethod", "useragent", "resconttype", "referer", "uriport", "serverip",
        "scbytes", "csbytes", "fulluri", "hh"})

ExpandedList ==
  Same({"p_date", "p_time", "clientip", "username", "duration", "fulluri", "webcat",
        "respcode", "reqmethod", "useragent", "resconttype", "referer", "uriport",
        "serverip", "scbytes", "csbytes"})

ScoredList == Same({"tdate", "fulluri", "uri_sev"})

StoryboardList == Same({"p_threat", "title", "text"})

TimelineList ==
  Same({"p_threat", "tstart", "tend", "duration", "clientip", "respcode", "respcodename"})

ScoreSelect == << "tdate", "time", "clientip", "host", "reqmethod", "useragent",
                  "resconttype", "duration", "username", "webcat", "referer",
                  "respcode", "uriport", "uripath", "uriquery", "serverip", "scbytes",
                  "csbytes", "fulluri" >>

\* score_request: (row[0], row[18], score)
ScoredCells(scores) == << scores[ScoreSelect[1]], scores[ScoreSelect[19]], "severity" >>

---------------------------------------------------------------------------
(* api/graphql/proxy/query.py *)

Uri == {<<"uri", "fulluri">>}

\* "datetime" is put together from two columns.
Started == {<<"datetime", "tdate">>, <<"datetime", "time">>}

Headers ==
  {<<"clientIp", "clientip">>, <<"requestMethod", "reqmethod">>,
   <<"userAgent", "useragent">>, <<"responseContentType", "resconttype">>,
   <<"webCategory", "webcat">>, <<"referer", "referer">>, <<"responseCode", "respcode">>,
   <<"uriPort", "uriport">>, <<"serverIp", "serverip">>,
   <<"serverToClientBytes", "scbytes">>, <<"clientToServerBytes", "csbytes">>}

SuspiciousType ==
  Uri \cup Started \cup Headers \cup Same({"host", "duration", "username"}) \cup
  {<<"uriPath", "uripath">>, <<"uriQuery", "uriquery">>, <<"score", "ml_score">>,
   <<"uriRep", "uri_rep">>, <<"responseCodeLabel", "respcode_name">>,
   <<"networkContext", "network_context">>}

\* A GraphQLInt, read from a column that is a FLOAT
Truncated == {"score"}

EdgeDetailsType ==
  Uri \cup Started \cup Headers \cup
  {<<"host", "host">>, <<"responseCodeLabel", "respcode_name">>}

ScoredRequestType == Uri \cup {<<"datetime", "tdate">>, <<"score", "uri_sev">>}

CommentType == Same({"title", "text"}) \cup {<<"uri", "p_threat">>}

ThreatDetailsType ==
  Uri \cup Headers \cup Same({"username", "duration"}) \cup
  {<<"datetime", "p_date">>, <<"datetime", "p_time">>}

\* The label reads a key that time_line does not select.
TimelineType ==
  {<<"startDatetime", "tstart">>, <<"endDatetime", "tend">>, <<"duration", "duration">>,
   <<"clientIp", "clientip">>, <<"responseCode", "respcode">>,
   <<"responseCodeLabel", "respcode_name">>}

QueryType ==
  [suspicious  |-> [table |-> "scores", list |-> SuspiciousList, type |-> SuspiciousType],
   edgeDetails |-> [table |-> "edge", list |-> DetailsList, type |-> EdgeDetailsType],
   ingestSummary |-> [table |-> "summary", list |-> SummaryList, type |-> IngestSummaryType]]

ThreatsInformationType ==
  [list     |-> [table |-> "threats", list |-> ScoredList, type |-> ScoredRequestType],
   comments |-> [table |-> "storyboard", list |-> StoryboardList, type |-> CommentType]]

\* incidentProgression is left out: file_exists calls list_dir with its arguments
\* swapped, so its resolver raises before the file is read and it is answered null.
ThreatInformationType ==
  [details  |-> [table |-> "raw", list |-> ExpandedList, type |-> ThreatDetailsType],
   timeline |-> [table |-> "timeline", list |-> TimelineList, type |-> TimelineType]]

---------------------------------------------------------------------------
(* ingest_summary(start_date, end_date): year, month and day on their own *)

SummaryRange(s, e, day) ==
  /\ day.y \in s.y .. e.y
  /\ day.m \in s.m .. e.m
  /\ day.d \in s.d .. e.d

---------------------------------------------------------------------------
(* The notebooks, and what they send back *)

SearchFields ==
  {"username", "webCategory", "responseContentType", "datetime", "referer",
   "clientToServerBytes", "duration", "userAgent", "uri", "serverIp", "requestMethod",
   "responseCode", "uriPort", "clientIp", "serverToClientBytes"}

ListFields == {"score", "uri", "datetime"}

AdvancedFields ==
  {"clientIp", "clientToServerBytes", "datetime", "duration", "host", "networkContext",
   "referer", "requestMethod", "responseCode", "responseCodeLabel",
   "responseContentType", "score", "serverIp", "serverToClientBytes", "uri", "uriPath",
   "uriPort", "uriQuery", "uriRep", "userAgent", "username", "webCategory"}

ThreatDetailsInput ==
  {"datetime", "clientIp", "username", "duration", "uri", "webCategory", "responseCode",
   "requestMethod", "userAgent", "responseContentType", "referer", "uriPort",
   "serverIp", "serverToClientBytes", "clientToServerBytes"}

\* create_storyboard
StoryReads == {"clientIp", "requestMethod", "responseContentType", "uri", "referer"}

\* create_incident_progression, create_timeline and save_comments
StoryRows(row, byClient) ==
  [progression |-> << "threat", row["uri"], row["clientIp"], row["referer"],
                      row["requestMethod"], row["responseContentType"] >>,
   timeline    |-> << "threat", "p_date-first-p_time", "p_date-last-p_time",
                      "sum-duration", "clientip", "respcode", "respCodeName" >>,
   storyboard  |-> << "threat", "title", "text" >>]

=============================================================================
