----------------------------- MODULE DNSProxyDay -----------------------------
(***************************************************************************)
(* One day of dns or of proxy data after its ingest: the machine learning  *)
(* job, the OA job and the OA API together, over the tables and files they *)
(* share.  start_oa.py takes the type of data as an argument and imports   *)
(* its job; the two types share nothing but the code they call.            *)
(***************************************************************************)
EXTENDS MLJob, DNSOA, ProxyOA, DNSResource, ProxyResource

CONSTANTS
  Types           \* the types of data considered, of {"dns", "proxy"}

ASSUME TablesAssumption ==
  /\ "dns" \in Types => DNSTables \subseteq Tables
  /\ "proxy" \in Types => ProxyTables \subseteq Tables

ASSUME RecordsAssumption ==
  /\ IsFiniteSet(Conns)
  /\ DOMAIN Client = Conns /\ DOMAIN Name = Conns /\ DOMAIN Uri = Conns

\* Lines of the feedback file.
DayLines == [delimiter : {"comma"},
             sev : {None} \cup [ip : DNSSevs \cup {0}, dns : DNSSevs \cup {0}]
                     \cup [score : ProxySevs, uri_sev : {Reputation}],
             conn : Conns \cup {None}]

\* No file is none of the files.
ASSUME FileAssumption == None \notin Seq(DayLines)

VARIABLES
  type,           \* -t: the type of this day's data
  overlap         \* history: an OA run cleared the day while a request ran

vars == <<storeVars, mlVars, jobVars, dendroVars, apiVars, type, overlap>>

Init ==
  /\ type \in Types
  /\ overlap = FALSE
  /\ StoreInit /\ MLInit /\ JobInit /\ APIInit
  /\ dendro = << >> /\ strayDendros = << >>

OAStep ==
  /\ \/ type = "dns" /\ DNSOAStep
     \/ type = "proxy" /\ ProxyOAStep /\ UNCHANGED dendroVars
  /\ UNCHANGED <<mlVars, apiVars>>

APIStep ==
  /\ \/ type = "dns" /\ DNSAPIStep
     \/ type = "proxy" /\ ProxyAPIStep
  /\ UNCHANGED <<mlVars, jobVars, dendroVars>>

\* From its start until it cleared the story board's files.
ClearingDay == oa \in {"clear", "stories"}

Next ==
  /\ \/ MLStep /\ UNCHANGED <<jobVars, dendroVars, apiVars>>
     \/ OAStep
     \/ APIStep
  /\ overlap' = (overlap \/ (ClearingDay' /\ api' # "idle"))
  /\ UNCHANGED type

Spec == Init /\ [][Next]_vars

-----------------------------------------------------------------------------
(* Properties *)

\* What an analyst scored is in the feedback file, of dns with a severity no lower
\* than the table's, of proxy with the table's, though under the header's score and
\* not under the uri_sev that the model's reader takes.  That is so although the
\* table and the file are written by separate calls and the file outlives a reset
\* of the table; unless an OA run cleared the two while a request was between them.
ScoresInFeedback ==
  /\ api = "idle"
  /\ faults = 0 /\ undeleted = 0 /\ ~overlap
  => \A r \in RowsOf("threat_investigation") :
       \E line \in Range(Before) :
         /\ line.conn = r.conn
         /\ IF type = "dns"
            THEN r.ip_sev \in {0, line.sev.ip} /\ r.dns_sev \in {0, line.sev.dns}
            ELSE r.uri_sev = line.sev.score

\* A request that is not listed as suspicious any more has been scored: scoring
\* one request of a URI scores every other that suspicious_requests hides with it.
HiddenAreScored ==
  type = "proxy" =>
    \A c \in Range([i \in DOMAIN tables["suspicious"] |-> tables["suspicious"][i].conn]) :
      ProxyHidden(c) => c \in {r.conn : r \in RowsOf("threat_investigation")}

\* create_timeline deletes all timelines and inserts them again: no URI has two,
\* whatever fails or is cleared in between.
OneTimelinePerThreat ==
  type = "proxy" /\ undeleted = 0 =>
    \A i, j \in DOMAIN tables["timeline"] : tables["timeline"][i] = tables["timeline"][j] => i = j

\* Of a story the analyst was told is saved the tables that it is shown from hold
\* all until the day is reset or rebuilt: its comment, and with it the timeline
\* (proxy) or the dendrogram (dns), which other requests write with calls of their
\* own.  The incident progression of proxy is a file that no query ever reads:
\* incident_progression calls file_exists, which swaps the arguments of list_dir
\* and so raises.
SavedStoriesShown ==
  faults = 0 /\ undeleted = 0 /\ ~overlap /\ ~ClearingDay =>
    \A c \in acked :
      /\ CommentKept(c)
      /\ type = "proxy" => TimelineKept(c.anchor)
      /\ type = "dns" =>
           Range(DNSExpandedSearch(c.anchor)) \subseteq DNSIncidentProgression(c.anchor)

\* A job whose children did all of their work has inserted the details of every
\* connection it shows, as many as the LIMIT lets, and of dns the dendrogram of its
\* client, though children insert them, the proxy job does not join its own, an
\* earlier run of the day may have been killed anywhere, and the children that it
\* left insert as well.
ShownHaveDetails ==
  oa = "done" /\ ~missed /\ undeleted = 0 =>
    \A r \in RowsOf("suspicious") :
      /\ \E records \in RowsOf("edge") : records \in Details(r.conn)
      /\ type = "dns" => Client[r.conn] \in RowsOf("dendro")

\* Once a run has cleared the day its details are of connections that are shown,
\* whatever failed before, or of some that a killed run left to its child, which
\* inserts on into the day that is built anew.
DetailsAreOfShown ==
  undeleted = 0 /\ oa \notin {"idle", "clear"} =>
    \A records \in RowsOf("edge") :
      \E c \in {r.conn : r \in RowsOf("suspicious")} \cup abandoned : records \in Details(c)

=============================================================================
