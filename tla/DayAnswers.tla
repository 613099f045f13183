----------------------------- MODULE DayAnswers ------------------------------
(***************************************************************************)
(* What the OA API answers about a day, column by column: the OA job of a  *)
(* kind of data builds its rows in memory and inserts them, the tables are *)
(* selected from, and the answers are read field by field.                 *)
(***************************************************************************)
EXTENDS Columns, FiniteSets

CONSTANTS
  Threats,        \* what an analyst investigates
  Heavy,          \* the addresses that moved more bytes than a GraphQLInt holds
  ClientThreats,  \* the threats of dns that are clients; the others are names
  Files,          \* [Kinds -> the context files a kind reads]
  Calendar        \* days [y, m, d] of the ingest summaries

Kinds == {"flow", "dns", "proxy"}

Reputations == {"none", "silent", "partial", "complete"}

ASSUME ThreatsAssumption == Heavy \subseteq Threats /\ ClientThreats \subseteq Threats

ASSUME CalendarAssumption == Calendar \subseteq [y : Nat, m : 1 .. 12, d : 1 .. 31]

VARIABLES
  kind,           \* of the data
  conf,           \* what is installed beside the program
  job,            \* where the OA job is
  added,          \* the enrichment steps it has made
  row,            \* a row of its scores in memory
  tables,         \* [tables with rows -> the cells of a row]
  scored,         \* the threats of a row scored 1
  answer,         \* what the browser was answered last
  range           \* the days it asked the ingest summary of

jobVars == <<job, added, row>>
dayVars == <<kind, conf, jobVars, tables, scored, answer, range>>

Flow  == INSTANCE FlowAnswers
DNS   == INSTANCE DNSAnswers
Proxy == INSTANCE ProxyAnswers

NoAnswer == [query |-> "none", of |-> "none", cells |-> {}]
NoRange  == << >>

---------------------------------------------------------------------------
(* Of the kind of data *)

Results == [flow |-> Flow!FlowResults, dns |-> DNS!ResultsFields, proxy |-> Proxy!ResultsFields]

Added == CASE kind = "flow"  -> Flow!Added(conf)
           [] kind = "dns"   -> DNS!Added(conf)
           [] kind = "proxy" -> Proxy!Added(conf)

Details == CASE kind = "flow"  -> Flow!Details(conf)
             [] kind = "dns"   -> DNS!Details(conf)
             [] kind = "proxy" -> Proxy!Details(conf)

ColumnsOf == [flow |-> Flow!Tables, dns |-> DNS!Tables, proxy |-> Proxy!Tables]

Scored(scores) == CASE kind = "flow"  -> Flow!ScoredCells(scores)
                    [] kind = "dns"   -> DNS!ScoredCells(scores)
                    [] kind = "proxy" -> Proxy!ScoredCells(scores)

Queries ==
  [flow  |-> Over(Flow!QueryType, Over(Flow!ThreatsInformationType, Flow!ThreatInformationType)),
   dns   |-> Over(DNS!QueryType, Over(DNS!ThreatsInformationType, DNS!ThreatInformationType)),
   proxy |-> Over(Proxy!QueryType, Over(Proxy!ThreatsInformationType, Proxy!ThreatInformationType))]

InRange(s, e, day) == CASE kind = "flow"  -> Flow!DaterangeQuery(s, e, day)
                        [] kind = "dns"   -> DNS!SummaryRange(s, e, day)
                        [] kind = "proxy" -> Proxy!SummaryRange(s, e, day)

---------------------------------------------------------------------------

DayInit ==
  /\ kind \in Kinds
  /\ conf \in [files : SUBSET Files[kind], reputation : Reputations]
  /\ job = "results" /\ added = 0 /\ row = << >>
  /\ tables = [raw |-> ColumnsOf[kind].raw]
  /\ scored = {}
  /\ answer = NoAnswer
  /\ range = NoRange

---------------------------------------------------------------------------
(* The OA job *)

GetResults ==
  /\ job = "results"
  /\ range = NoRange
  /\ row' = Results[kind]
  /\ job' = "columns"
  /\ UNCHANGED <<kind, conf, added, tables, scored, answer, range>>

\* The _add methods, one after the other
AddColumns ==
  /\ job = "columns"
  /\ added < Len(Added)
  /\ Added[added + 1] # Raises
  /\ row' = row \o Added[added + 1]
  /\ added' = added + 1
  /\ UNCHANGED <<kind, conf, job, tables, scored, answer, range>>

InsertRow(table, cells) ==
  /\ Fits(ColumnsOf[kind][table], cells)
  /\ tables' = Over([t \in {table} |-> cells], tables)

CreateScores ==
  /\ job = "columns"
  /\ added = Len(Added)
  /\ InsertRow("scores", row)
  /\ job' = "details"
  /\ UNCHANGED <<kind, conf, added, row, scored, answer, range>>

\* The child processes; that of proxy is not joined.
InsertDetails ==
  /\ job = "details" \/ (kind = "proxy" /\ job = "ended")
  /\ \E table \in DOMAIN Details \ DOMAIN tables :
       Details[table] # Raises /\ InsertRow(table, Details[table])
  /\ UNCHANGED <<kind, conf, jobVars, scored, answer, range>>

IngestSummary ==
  /\ job = "details"
  /\ InsertRow("summary", << "minute", "count" >>)
  /\ job' = "ended"
  /\ UNCHANGED <<kind, conf, added, row, scored, answer, range>>

---------------------------------------------------------------------------
(* The API *)

\* A GraphQLInt of more than 32 bits is answered as null.
TooLarge == {"ibyt", "max-ibyt", "sum-ibyt"}

\* A probability below one is no whole number but 0.
Truncated(query) == IF kind = "proxy" /\ query = "suspicious" THEN Proxy!Truncated ELSE {}

Serialized(query, of, cells) ==
  {<<c[1], IF kind = "flow" /\ of \in Heavy /\ c[2] \in TooLarge THEN Null
           ELSE IF c[1] \in Truncated(query) THEN Zero ELSE c[2]>> : c \in cells}

OrZero == IF kind = "dns" THEN DNS!OrZero ELSE {}   \* flow and proxy select every such key

TypeOf(query, r) ==
  LET type == Queries[kind][query].type
  IN  IF type = {} THEN DNS!Interface(query, r) ELSE type

\* A null in a field that is not nullable takes the row with it.
RowAnswered(query, of) ==
  LET q     == Queries[kind][query]
      r     == Selected(q.list, Inserted(ColumnsOf[kind][q.table], tables[q.table]))
      cells == Serialized(query, of, Resolved(TypeOf(query, r), OrZero, r))
  IN  IF kind = "flow" /\ \E c \in cells : c[2] = Null /\ c[1] \in Flow!NonNull(query)
      THEN {} ELSE cells

\* A resolver runs its SELECT and the type reads the fields asked for.
AskFields(query, fields, of) ==
  /\ answer = NoAnswer /\ range = NoRange
  /\ Queries[kind][query].table \in DOMAIN tables
  /\ answer' = [query |-> query, of |-> of,
                cells |-> {c \in RowAnswered(query, of) : c[1] \in fields}]
  /\ UNCHANGED <<kind, conf, jobVars, tables, scored, range>>

\* The pages ask for every field.
Ask(query, of) ==
  LET type == Queries[kind][query].type
  IN  AskFields(query, IF type = {} THEN DNS!InterfaceFields ELSE Fields(type), of)

\* Every file is there and no reputation service is configured.
Installed == conf.files = Files[kind] /\ conf.reputation = "none"

\* The ingest summary has its own page.  Bound: asked and shown before the day's job,
\* and where everything is installed.
AskSummary(start, end) ==
  /\ answer = NoAnswer /\ range = NoRange
  /\ job = "results" /\ Installed
  /\ range' = <<start, end>>
  /\ UNCHANGED <<kind, conf, jobVars, tables, scored, answer>>

\* The browser shows it.
Show ==
  /\ answer # NoAnswer \/ range # NoRange
  /\ answer' = NoAnswer
  /\ range' = NoRange
  /\ UNCHANGED <<kind, conf, jobVars, tables, scored>>

\* The score mutation, of the rows of a threat
Score(of) ==
  /\ answer = NoAnswer
  /\ of \notin scored
  /\ "scores" \in DOMAIN tables
  /\ InsertRow("threats", Scored(Inserted(ColumnsOf[kind].scores, tables.scores)))
  /\ scored' = scored \cup {of}
  /\ UNCHANGED <<kind, conf, jobVars, answer, range>>

---------------------------------------------------------------------------
(* What a field of an answer is for *)

FlowMeaning ==
  [tstart |-> "treceived", srcIp |-> "sip", dstIp |-> "dip", srcPort |-> "sport",
   dstPort |-> "dport", protocol |-> "proto", flags |-> "flag", tos |-> "stos",
   inPkts |-> "ipkt", inBytes |-> "ibyt", outPkts |-> "opkt", outBytes |-> "obyt",
   inIface |-> "input", outIface |-> "output", routerIp |-> "rip", rank |-> "rank",
   score |-> "score", srcIp_isInternal |-> "sip-internal",
   dstIp_isInternal |-> "dip-internal", srcIp_geoloc |-> "sip-geo",
   dstIp_geoloc |-> "dip-geo", srcIp_domain |-> "sip-domain",
   dstIp_domain |-> "dip-domain", srcIp_rep |-> "sip-rep", dstIp_rep |-> "dip-rep",
   firstSeen |-> "first-treceived", lastSeen |-> "last-treceived",
   connections |-> "count", maxPkts |-> "max-ipkt", avgPkts |-> "avg-ipkt",
   maxBytes |-> "max-ibyt", avgBytes |-> "avg-ibyt", ip |-> "threat",
   tend |-> "last-treceived", pkts |-> "ipkt", bytes |-> "ibyt"]

DNSMeaning ==
  [frameTime |-> "unix_tstamp", unixTimestamp |-> "unix_tstamp",
   frameLength |-> "frame_len", clientIp |-> "ip_dst", serverIp |-> "ip_src",
   dnsQuery |-> "dns_qry_name", dnsQueryClass |-> "dns_qry_class",
   dnsQueryType |-> "dns_qry_type", dnsQueryRcode |-> "dns_qry_rcode",
   dnsQueryClassLabel |-> "class-name", dnsQueryTypeLabel |-> "type-name",
   dnsQueryRcodeLabel |-> "rcode-name", dnsQueryAnswers |-> "dns_a", score |-> "score",
   tld |-> "tld", dnsQueryRep |-> "query-rep", clientIpSev |-> "client-severity",
   dnsQuerySev |-> "query-severity", networkContext |-> "network-context",
   dnsScore |-> "query-severity", clientIpScore |-> "client-severity",
   total |-> "count", datetime |-> "unix_tstamp"]

ProxyMeaning ==
  [clientIp |-> "clientip", host |-> "host", requestMethod |-> "reqmethod",
   userAgent |-> "useragent", responseContentType |-> "resconttype",
   duration |-> "duration", username |-> "username", webCategory |-> "webcat",
   referer |-> "referer", responseCode |-> "respcode", uriPort |-> "uriport",
   uriPath |-> "uripath", uriQuery |-> "uriquery", serverIp |-> "serverip",
   serverToClientBytes |-> "scbytes", clientToServerBytes |-> "csbytes",
   uri |-> "fulluri", score |-> "score", uriRep |-> "uri-rep",
   responseCodeLabel |-> "respcode-name", networkContext |-> "network-context",
   startDatetime |-> "p_date-first-p_time",
   endDatetime |-> "p_date-last-p_time"]

\* Where a field of the same name is for something else
Particular(query) ==
  CASE query = "comments" -> [title |-> "title", text |-> "text", ip |-> "threat",
                              clientIp |-> "threat", dnsQuery |-> "threat", uri |-> "threat"]
    [] query = "ingestSummary" -> [datetime |-> "minute", total |-> "count"]
    [] query = "list" /\ kind # "dns" -> [score |-> "severity"]
    [] query = "ipDetails" -> [inBytes |-> "sum-ibyt", inPkts |-> "sum-ipkt"]
    [] query = "timeline" -> [tstart |-> "first-treceived", duration |-> "sum-duration"]
    [] OTHER -> [none |-> "none"]

Meaning(query, field) ==
  LET general == [flow |-> FlowMeaning, dns |-> DNSMeaning, proxy |-> ProxyMeaning][kind]
      here    == Over(Particular(query), general)
  IN  CASE kind = "proxy" /\ field = "datetime" /\ query = "list" -> {"p_date"}
        [] kind = "proxy" /\ field = "datetime" /\ query \notin {"list", "ingestSummary"} ->
             {"p_date", "p_time"}
        [] OTHER -> {here[field]}

\* What is blank without the file or the service that it comes from
Missing ==
  LET without(file, values) == IF file \in conf.files THEN {} ELSE values
  IN  without("iploc", {"sip-geo", "dip-geo", "sip-domain", "dip-domain"})
      \cup without("iana", {"class-name", "type-name", "rcode-name", "respcode-name"})
      \cup without("nc", {"network-context"})
      \cup (IF conf.reputation \in {"none", "silent"}
            THEN {"sip-rep", "dip-rep", "query-rep", "uri-rep"} ELSE {})

\* Without the ranges every address is said to be external.
External == IF "ipranges" \in conf.files THEN {} ELSE {"sip-internal", "dip-internal"}

\* Fields that the code never answers: the severities of dns are not selected and
\* the score of proxy is cut to 0; the reputation of a name is looked up by a
\* column's index, and the label of the proxy timeline reads a key that is
\* selected under another name.
AlwaysZero ==
  {<<"dns", "suspicious", "clientIpSev">>, <<"dns", "suspicious", "dnsQuerySev">>,
   <<"proxy", "suspicious", "score">>}

NeverAnswered ==
  {<<"dns", "suspicious", "dnsQueryRep">>, <<"proxy", "timeline", "responseCodeLabel">>}

(* Every field of an answer shows the value it is named for, through the    *)
(* rows that the job appended column by column, the inserts by position,    *)
(* the SELECTs, the types and, for a story, the notebook and the mutation.  *)
(* It is blank only without the file or service behind it, 0 only for an    *)
(* address without the ranges or where it is known always to be, and null   *)
(* only where it is known never to be answered or the number is too large.  *)
FieldsShowTheirColumn ==
  \A field \in Fields(answer.cells) :
    LET shown == {c[2] : c \in {c \in answer.cells : c[1] = field}}
        due   == Meaning(answer.query, field)
        seen  == <<kind, answer.query, field>>
    IN  \/ shown = due /\ due \cap (Missing \cup External) = {}
        \/ shown = {Blank} /\ due \subseteq Missing
        \/ shown = {Zero} /\ (due \subseteq External \/ seen \in AlwaysZero)
        \/ shown = {Null} /\ seen \in NeverAnswered
        \/ shown = {Null} /\ answer.of \in Heavy /\ due \subseteq TooLarge

Before(a, b) ==
  \/ a.y < b.y
  \/ a.y = b.y /\ (a.m < b.m \/ (a.m = b.m /\ a.d <= b.d))

(* The ingest summary shows no day outside the dates asked for, and for     *)
(* flow every day between them, over months and years.  Dns and proxy       *)
(* compare year, month and day on their own: they show every day only when  *)
(* the dates are in one month.                                              *)
SummaryCoversTheRange ==
  range # NoRange /\ Before(range[1], range[2]) =>
    LET s == range[1]
        e == range[2]
        shown  == {day \in Calendar : InRange(s, e, day)}
        inside == {day \in Calendar : Before(s, day) /\ Before(day, e)}
    IN  /\ shown \subseteq inside
        /\ (kind = "flow" \/ (s.y = e.y /\ s.m = e.m)) => shown = inside

=============================================================================
