----------------------------- MODULE DNSAnswers ------------------------------
(***************************************************************************)
(* The columns of dns data: the rows of the OA job (dns_oa.py), the tables *)
(* (create_dns_parquet.hql), the SELECTs of api/resources/dns.py, the      *)
(* types of api/graphql/dns and the fields its notebooks ask for.          *)
(***************************************************************************)
EXTENDS Columns

---------------------------------------------------------------------------
(* The OA job *)

ResultsFields == << "frame_time", "unix_tstamp", "frame_len", "ip_dst", "dns_qry_name",
                    "dns_qry_class", "dns_qry_type", "dns_qry_rcode", "score" >>

AddTld == << "tld" >>

\* The results are looked up by the index of the column, not by the name in
\* it: whatever the services answer, None is written.
AddReputation(conf) ==
  IF conf.reputation \in {"none", "silent"} THEN << Blank >> ELSE << Null >>

AddHh == << "hh" >>

IanaNames == << "class-name", "type-name", "rcode-name" >>

AddIana(conf) == IF "iana" \in conf.files THEN IanaNames ELSE << Blank, Blank, Blank >>

AddNetworkContext(conf) ==
  IF "nc" \in conf.files THEN << "network-context" >> ELSE << Blank >>

Added(conf) ==
  << AddTld, AddReputation(conf), AddHh, AddIana(conf), AddNetworkContext(conf) >>

\* _get_dns_details: "dns_iana" is unbound without the iana configuration.
EdgeCells(conf) ==
  IF "iana" \in conf.files
  THEN << "unix_tstamp", "frame_len", "ip_dst", "ip_src", "dns_qry_name",
          "dns_qry_class", "dns_qry_type", "dns_qry_rcode", "dns_a", "h" >>
         \o IanaNames \o AddNetworkContext(conf)
  ELSE Raises

\* _get_dns_dendrogram
DendroCells == << "unix_tstamp", "dns_a", "dns_qry_name", "ip_dst" >>

Details(conf) == [edge |-> EdgeCells(conf), dendro |-> DendroCells]

SummaryCells == << "minute", "count" >>

---------------------------------------------------------------------------
(* The tables *)

RawColumns == << "frame_time", "unix_tstamp", "frame_len", "ip_dst", "ip_src",
                 "dns_qry_name", "dns_qry_class", "dns_qry_type", "dns_qry_rcode",
                 "dns_a" >>

DendroColumns == << "unix_tstamp", "dns_a", "dns_qry_name", "ip_dst" >>

EdgeColumns == << "unix_tstamp", "frame_len", "ip_dst", "ip_src", "dns_qry_name",
                  "dns_qry_class", "dns_qry_type", "dns_qry_rcode", "dns_a", "hh",
                  "dns_qry_class_name", "dns_qry_type_name", "dns_qry_rcode_name",
                  "network_context" >>

SummaryColumns == << "tdate", "total" >>

ScoresColumns == << "frame_time", "unix_tstamp", "frame_len", "ip_dst", "dns_qry_name",
                    "dns_qry_class", "dns_qry_type", "dns_qry_rcode", "ml_score", "tld",
                    "query_rep", "hh", "dns_qry_class_name", "dns_qry_type_name",
                    "dns_qry_rcode_name", "network_context" >>

StoryboardColumns == << "ip_threat", "dns_threat", "title", "text" >>

ThreatDendroColumns == << "anchor", "total", "dns_qry_name", "ip_dst" >>

ThreatColumns == << "unix_tstamp", "ip_dst", "dns_qry_name", "ip_sev", "dns_sev" >>

Tables ==
  [raw |-> RawColumns, scores |-> ScoresColumns, edge |-> EdgeColumns,
   dendro |-> DendroColumns, summary |-> SummaryColumns, threats |-> ThreatColumns,
   storyboard |-> StoryboardColumns, threat_dendro |-> ThreatDendroColumns]

---------------------------------------------------------------------------
(* The SELECTs *)

SuspiciousList ==
  Same({"unix_tstamp", "frame_len", "ip_dst", "dns_qry_name", "dns_qry_class",
        "dns_qry_type", "dns_qry_rcode", "ml_score", "tld", "query_rep", "hh",
        "dns_qry_class_name", "dns_qry_type_name", "dns_qry_rcode_name",
        "network_context"})

DetailsList ==
  Same({"unix_tstamp", "frame_len", "ip_dst", "ip_src", "dns_qry_name",
        "dns_qry_class", "dns_qry_type", "dns_qry_rcode", "dns_a",
        "dns_qry_type_name", "dns_qry_rcode_name", "dns_qry_class_name"})

ClientDetailsList == Same({"ip_dst", "dns_a", "dns_qry_name"})

\* incident_progression(date, query, ip): the other end of the threat
ProgressionList(byClient) ==
  Same({"anchor", "total", IF byClient THEN "dns_qry_name" ELSE "ip_dst"})

CommentsList == Same({"ip_threat", "dns_threat", "title", "text"})

ScoredList == Same({"unix_tstamp", "ip_dst", "dns_qry_name", "ip_sev", "dns_sev"})

ExpandedList == Same({"dns_qry_name", "ip_dst"}) \cup {<<"total", "count">>}

ScoreSelect == << "frame_time", "unix_tstamp", "frame_len", "ip_dst", "dns_qry_name" >>

\* score_connection: (row[1], row[3], row[4], ip_sev, dns_sev)
ScoredCells(scores) ==
  << scores[ScoreSelect[2]], scores[ScoreSelect[4]], scores[ScoreSelect[5]],
     "client-severity", "query-severity" >>

---------------------------------------------------------------------------
(* api/graphql/dns/query.py *)

QueryName == {<<"dnsQuery", "dns_qry_name">>}
Client    == {<<"clientIp", "ip_dst">>}

Connection ==
  QueryName \cup Client \cup
  {<<"frameTime", "unix_tstamp">>, <<"unixTimestamp", "unix_tstamp">>,
   <<"frameLength", "frame_len">>, <<"dnsQueryClass", "dns_qry_class">>,
   <<"dnsQueryType", "dns_qry_type">>, <<"dnsQueryRcode", "dns_qry_rcode">>,
   <<"dnsQueryClassLabel", "dns_qry_class_name">>,
   <<"dnsQueryTypeLabel", "dns_qry_type_name">>,
   <<"dnsQueryRcodeLabel", "dns_qry_rcode_name">>}

SuspiciousType ==
  Connection \cup
  {<<"score", "ml_score">>, <<"tld", "tld">>, <<"dnsQueryRep", "query_rep">>,
   <<"clientIpSev", "ip_sev">>, <<"dnsQuerySev", "dns_sev">>,
   <<"networkContext", "network_context">>}

\* The fields answered 0 when the row has no value for them
OrZero == {"dnsQueryType", "dnsQueryRcode", "score", "clientIpSev", "dnsQuerySev",
           "unixTimestamp", "dnsScore", "clientIpScore"}

EdgeDetailsType ==
  Connection \cup {<<"serverIp", "ip_src">>, <<"dnsQueryAnswers", "dns_a">>}

ThreatDetailsType == QueryName \cup Client \cup {<<"total", "total">>}

IpDetailsType == QueryName \cup {<<"dnsQueryAnswers", "dns_a">>}

ScoredThreatType ==
  QueryName \cup Client \cup
  {<<"datetime", "unix_tstamp">>, <<"dnsScore", "dns_sev">>, <<"clientIpScore", "ip_sev">>}

QueryCommentType == Same({"title", "text"}) \cup {<<"dnsQuery", "dns_threat">>}

ClientIpCommentType == Same({"title", "text"}) \cup {<<"clientIp", "ip_threat">>}

\* resolve_type
CommentInterface(row) ==
  IF row["dns_threat"] # Blank THEN QueryCommentType ELSE ClientIpCommentType

IncidentProgressionClientIpType == Client \cup {<<"total", "total">>}

IncidentProgressionQueryType == QueryName \cup {<<"total", "total">>}

IncidentProgressionInterface(row) ==
  IF "dns_qry_name" \in DOMAIN row THEN IncidentProgressionQueryType
                                   ELSE IncidentProgressionClientIpType

QueryType ==
  [suspicious  |-> [table |-> "scores", list |-> SuspiciousList, type |-> SuspiciousType],
   edgeDetails |-> [table |-> "edge", list |-> DetailsList, type |-> EdgeDetailsType],
   ipDetails   |-> [table |-> "dendro", list |-> ClientDetailsList, type |-> IpDetailsType],
   ingestSummary |-> [table |-> "summary", list |-> SummaryList, type |-> IngestSummaryType]]

ThreatsInformationType ==
  [list     |-> [table |-> "threats", list |-> ScoredList, type |-> ScoredThreatType],
   comments |-> [table |-> "storyboard", list |-> CommentsList, type |-> {}]]

ThreatInformationType ==
  [details |-> [table |-> "raw", list |-> ExpandedList, type |-> ThreatDetailsType],
   queriesOfClient |-> [table |-> "threat_dendro", list |-> ProgressionList(TRUE), type |-> {}],
   clientsOfQuery  |-> [table |-> "threat_dendro", list |-> ProgressionList(FALSE), type |-> {}]]

\* The type of a row, for the fields that are lists of an interface.
Interface(query, row) ==
  IF query = "comments" THEN CommentInterface(row) ELSE IncidentProgressionInterface(row)

InterfaceFields == {"title", "text", "dnsQuery", "clientIp", "total"}

---------------------------------------------------------------------------
(* ingest_summary(start_date, end_date): year, month and day on their own *)

SummaryRange(s, e, day) ==
  /\ day.y \in s.y .. e.y
  /\ day.m \in s.m .. e.m
  /\ day.d \in s.d .. e.d

---------------------------------------------------------------------------
(* The notebooks, and what they send back *)

SearchFields == {"total", "clientIp", "dnsQuery"}

ListFields == {"dnsScore", "clientIpScore", "clientIp", "dnsQuery"}

AdvancedFields ==
  {"clientIp", "clientIpSev", "dnsQuery", "dnsQueryClass", "dnsQueryClassLabel",
   "dnsQueryRcode", "dnsQueryRcodeLabel", "dnsQueryRep", "dnsQuerySev", "dnsQueryType",
   "dnsQueryTypeLabel", "frameLength", "frameTime", "networkContext", "score", "tld",
   "unixTimestamp"}

ThreatDetailsInput == {"total", "dnsQuery", "clientIp"}

\* create_dendro
StoryReads == {"total", "dnsQuery", "clientIp"}

\* create_dendro and save_comments: the threat is a client or a query name.
StoryRows(row, byClient) ==
  [threat_dendro |-> << "threat", row["total"], row["dnsQuery"], row["clientIp"] >>,
   storyboard    |-> IF byClient THEN << "threat", Blank, "title", "text" >>
                                 ELSE << Blank, "threat", "title", "text" >>]

=============================================================================
