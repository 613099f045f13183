----------------------------- MODULE FlowAnswers -----------------------------
(***************************************************************************)
(* The columns of flow data: the rows of the OA job (flow_oa.py), the      *)
(* tables (create_flow_parquet.hql), the SELECTs of api/resources/flow.py, *)
(* the types of api/graphql/flow and the fields its notebooks ask for.     *)
(***************************************************************************)
EXTENDS Columns

---------------------------------------------------------------------------
(* The OA job *)

ResultsFields == << "treceived", "tryear", "trmonth", "trday", "trhour", "trminute",
                    "trsec", "tdur", "sip", "dip", "sport", "dport", "proto",
                    "ipkt", "ibyt", "opkt", "obyt", "score" >>

ColumnIndexesFilter == << 0, 8, 9, 10, 11, 12, 13, 14, 15, 16, 17 >>

FlowResults ==
  [i \in DOMAIN ColumnIndexesFilter |-> ResultsFields[ColumnIndexesFilter[i] + 1]]
    \o << "rank" >>

AddNetworkContext(conf) ==
  IF "ipranges" \in conf.files THEN << "sip-internal", "dip-internal" >>
                               ELSE << Zero, Zero >>

\* Mutant of AddGeoLocalization: no columns without the file.
GeoOnlyWithFile(conf) ==
  IF "iploc" \in conf.files
  THEN << "sip-geo", "sip-domain", "dip-geo", "dip-domain" >>
  ELSE << Blank, Blank, Blank, Blank >>

AddGeoLocalization(conf) ==
  IF "iploc" \in conf.files
  THEN << "sip-geo", "dip-geo", "sip-domain", "dip-domain" >>
  ELSE << Blank, Blank, Blank, Blank >>

\* src_rep_results[conn[src_ip_index]]: a service has to answer for every ip.
AddReputation(conf) ==
  CASE conf.reputation = "none"     -> << Blank, Blank >>
    [] conf.reputation = "complete" -> << "sip-rep", "dip-rep" >>
    [] OTHER                        -> Raises

Added(conf) ==
  << AddNetworkContext(conf), AddGeoLocalization(conf), AddReputation(conf) >>

\* _get_suspicious_details
EdgeCells == << "treceived", "sip", "dip", "sport", "dport", "proto", "flag", "stos",
                "ibyt", "ipkt", "input", "output", "rip", "obyt", "opkt", "h", "trminute" >>

\* _get_chord_details
ChordCells == << "threat", "sip", "dip", "sum-ibyt", "sum-ipkt" >>

Details(conf) == [edge |-> EdgeCells, chords |-> ChordCells]

SummaryCells == << "minute", "count" >>

---------------------------------------------------------------------------
(* The tables *)

RawColumns == << "treceived", "unix_tstamp", "tryear", "trmonth", "trday", "trhour",
                 "trminute", "trsec", "tdur", "sip", "dip", "sport", "dport", "proto",
                 "flag", "fwd", "stos", "ipkt", "ibyt", "opkt", "obyt", "input",
                 "output", "sas", "das", "dtos", "dir", "rip" >>

ChordsColumns == << "ip_threat", "srcip", "dstip", "ibyt", "ipkt" >>

EdgeColumns == << "tstart", "srcip", "dstip", "sport", "dport", "proto", "flags", "tos",
                  "ibyt", "ipkt", "input", "output", "rip", "obyt", "opkt", "hh", "mn" >>

SummaryColumns == << "tdate", "total" >>

ScoresColumns == << "tstart", "srcip", "dstip", "sport", "dport", "proto", "ipkt", "ibyt",
                    "opkt", "obyt", "ml_score", "rank", "srcip_internal",
                    "dstip_internal", "src_geoloc", "dst_geoloc", "src_domain",
                    "dst_domain", "src_rep", "dst_rep" >>

StoryboardColumns == << "ip_threat", "title", "text" >>

ThreatColumns == << "tstart", "srcip", "dstip", "srcport", "dstport", "score" >>

TimelineColumns == << "ip_threat", "tstart", "tend", "srcip", "dstip", "proto", "sport",
                      "dport", "ipkt", "ibyt" >>

Tables ==
  [raw |-> RawColumns, scores |-> ScoresColumns, edge |-> EdgeColumns,
   chords |-> ChordsColumns, summary |-> SummaryColumns, threats |-> ThreatColumns,
   storyboard |-> StoryboardColumns, timeline |-> TimelineColumns]

---------------------------------------------------------------------------
(* The SELECTs *)

SuspiciousList ==
  Same({"tstart", "srcip", "dstip", "sport", "dport", "proto", "ipkt", "ibyt", "opkt",
        "obyt", "ml_score", "rank", "srcip_internal", "dstip_internal", "src_geoloc",
        "dst_geoloc", "src_domain", "dst_domain", "src_rep", "dst_rep"})

DetailsList ==
  Same({"tstart", "srcip", "dstip", "sport", "dport", "proto", "flags", "tos", "ibyt",
        "ipkt", "input", "output", "rip", "obyt", "opkt"})

ChordList == Same({"srcip", "dstip", "ibyt", "ipkt"})

ScoredList == Same({"tstart", "srcip", "dstip", "srcport", "dstport", "score"})

StoryboardList == Same({"ip_threat", "title", "text"})

TimelineList ==
  Same({"ip_threat", "tstart", "tend", "srcip", "dstip", "proto", "sport", "dport",
        "ipkt", "ibyt"})

ExpandedList ==
  Same({"sport", "dport"}) \cup
  {<<"firstseen", "first-treceived">>, <<"lastseen", "last-treceived">>,
   <<"srcip", "sip">>, <<"dstip", "dip">>, <<"conns", "count">>,
   <<"maxpkts", "max-ipkt">>, <<"avgpkts", "avg-ipkt">>,
   <<"maxbyts", "max-ibyt">>, <<"avgbyts", "avg-ibyt">>}

\* score_connection inserts the first five columns that it selects.
ScoreSelect == << "tstart", "srcip", "dstip", "sport", "dport", "ibyt", "ipkt" >>

ScoredCells(scores) ==
  [i \in 1 .. 5 |-> scores[ScoreSelect[i]]] \o << "severity" >>

---------------------------------------------------------------------------
(* api/graphql/flow/query.py *)

Ends == {<<"srcIp", "srcip">>, <<"dstIp", "dstip">>}
Ports == {<<"srcPort", "sport">>, <<"dstPort", "dport">>}

SuspiciousType ==
  Same({"tstart", "rank"}) \cup Ends \cup Ports \cup
  {<<"protocol", "proto">>, <<"inPkts", "ipkt">>, <<"inBytes", "ibyt">>,
   <<"outPkts", "opkt">>, <<"outBytes", "obyt">>, <<"score", "ml_score">>,
   <<"srcIp_isInternal", "srcip_internal">>, <<"dstIp_isInternal", "dstip_internal">>,
   <<"srcIp_geoloc", "src_geoloc">>, <<"dstIp_geoloc", "dst_geoloc">>,
   <<"srcIp_domain", "src_domain">>, <<"dstIp_domain", "dst_domain">>,
   <<"srcIp_rep", "src_rep">>, <<"dstIp_rep", "dst_rep">>}

EdgeDetailsType ==
  Same({"tstart", "flags", "tos"}) \cup Ends \cup Ports \cup
  {<<"protocol", "proto">>, <<"inBytes", "ibyt">>, <<"inPkts", "ipkt">>,
   <<"inIface", "input">>, <<"outIface", "output">>, <<"routerIp", "rip">>,
   <<"outBytes", "obyt">>, <<"outPkts", "opkt">>}

IpConnectionDetailsType == Ends \cup {<<"inBytes", "ibyt">>, <<"inPkts", "ipkt">>}

ScoredConnectionType ==
  Same({"tstart", "score"}) \cup Ends \cup
  {<<"srcPort", "srcport">>, <<"dstPort", "dstport">>}

ThreatDetailsType ==
  Ends \cup Ports \cup
  {<<"firstSeen", "firstseen">>, <<"lastSeen", "lastseen">>, <<"connections", "conns">>,
   <<"maxPkts", "maxpkts">>, <<"avgPkts", "avgpkts">>,
   <<"maxBytes", "maxbyts">>, <<"avgBytes", "avgbyts">>}

CommentType == Same({"title", "text"}) \cup {<<"ip", "ip_threat">>}

TimelineType ==
  Same({"tstart", "tend"}) \cup Ends \cup Ports \cup
  {<<"protocol", "proto">>, <<"pkts", "ipkt">>, <<"bytes", "ibyt">>}

\* The fields of TimelineType are all GraphQLNonNull.
NonNull(query) == IF query = "timeline" THEN Fields(TimelineType) ELSE {}

QueryType ==
  [suspicious  |-> [table |-> "scores", list |-> SuspiciousList, type |-> SuspiciousType],
   edgeDetails |-> [table |-> "edge", list |-> DetailsList, type |-> EdgeDetailsType],
   ipDetails   |-> [table |-> "chords", list |-> ChordList, type |-> IpConnectionDetailsType],
   ingestSummary |-> [table |-> "summary", list |-> SummaryList, type |-> IngestSummaryType]]

ThreatsInformationType ==
  [list     |-> [table |-> "threats", list |-> ScoredList, type |-> ScoredConnectionType],
   comments |-> [table |-> "storyboard", list |-> StoryboardList, type |-> CommentType]]

ThreatInformationType ==
  [details  |-> [table |-> "raw", list |-> ExpandedList, type |-> ThreatDetailsType],
   timeline |-> [table |-> "timeline", list |-> TimelineList, type |-> TimelineType]]

---------------------------------------------------------------------------
(* ingest_summary(start_date, end_date) *)

Whole(y, day) == day.y = y

FromStart(s, day) == Whole(s.y, day) /\ day.m = s.m /\ day.d >= s.d

UntilEnd(e, day) == Whole(e.y, day) /\ day.m = e.m /\ day.d <= e.d

\* Mutant of DaterangeQuery: the years in between are left out.
FirstAndLastYear(s, e, day) ==
  \/ FromStart(s, day) \/ UntilEnd(e, day)
  \/ Whole(s.y, day) /\ day.m > s.m /\ (s.y = e.y => day.m < e.m)
  \/ Whole(e.y, day) /\ day.m < e.m /\ (s.y = e.y => day.m > s.m)

\* daterange_query: what the loop over the years adds to the WHERE clause
DaterangeQuery(s, e, day) ==
  \E year \in s.y .. e.y :
    \/ /\ s.y = e.y /\ s.m = e.m
       /\ FromStart(s, day) /\ UntilEnd(e, day)
    \/ /\ s.y = e.y /\ s.m # e.m
       /\ \/ FromStart(s, day) \/ UntilEnd(e, day)
          \/ e.m > s.m + 1 /\ Whole(year, day) /\ day.m > s.m /\ day.m < e.m
    \/ /\ year = s.y /\ s.y # e.y
       /\ \/ FromStart(s, day)
          \/ s.m # 12 /\ Whole(year, day) /\ day.m > s.m
    \/ year > s.y /\ year < e.y /\ Whole(year, day)
    \/ /\ year = e.y /\ s.y # e.y
       /\ \/ UntilEnd(e, day)
          \/ Whole(year, day) /\ day.m < e.m

---------------------------------------------------------------------------
(* The notebooks, and what they send back *)

SearchFields == {"srcIp", "maxBytes", "connections", "maxPkts", "avgPkts", "lastSeen",
                 "srcPort", "firstSeen", "dstIp", "avgBytes", "dstPort"}

ListFields == {"srcIp", "dstPort", "dstIp", "srcPort", "score"}

AdvancedFields ==
  {"srcIp", "dstIp", "srcPort", "dstPort", "score", "srcIp_domain", "dstIp_rep",
   "protocol", "outBytes", "inPkts", "srcIp_rep", "inBytes", "srcIp_isInternal", "rank",
   "dstIp_geoloc", "tstart", "outPkts", "dstIp_isInternal", "dstIp_domain"}

ThreatDetailsInput == {"firstSeen", "lastSeen", "srcIp", "dstIp", "srcPort", "dstPort",
                       "connections", "maxPkts", "avgPkts", "maxBytes", "avgBytes"}

\* get_in_out_and_twoway_conns
StoryReads == {"srcIp", "dstIp", "connections", "maxBytes"}

\* create_time_line and save_comment; "row" is a row of the details.
StoryRows(row, byClient) ==
  [timeline   |-> << "threat", "first-treceived", "last-treceived", "sip", "dip", "proto",
                     "sport", "dport", "ipkt", "ibyt" >>,
   storyboard |-> << "threat", "title", "text" >>]

=============================================================================
