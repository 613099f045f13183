------------------------- MODULE DNSProxyDayProofs --------------------------
(***************************************************************************)
(* Proofs about DNSProxyDay: what holds of a day of dns or of proxy data   *)
(* whichever the connections, results, requests and bounds are.            *)
(***************************************************************************)
EXTENDS DNSProxyDay, DayProofs, FiniteSetTheorems

-----------------------------------------------------------------------------
(* The inductive invariant *)

Anchors == Clients \cup Names \cup Uris

DNSCommands == [ip : Clients \cup {None}, dns : Names \cup {None},
                ip_sev : DNSSevs \cup {0}, dns_sev : DNSSevs \cup {0}]

Asked == DNSCommands \cup ProxySevs

ScoredRows == [conn : Conns, ip_sev : DNSSevs \cup {0}, dns_sev : DNSSevs \cup {0}]
                \cup [conn : Conns, uri_sev : ProxySevs]

Scoring == api \in {"insert scores", "list feedback", "put feedback"}

\* What is in the files and tables that the two types use.
DayTyped ==
  /\ type \in Types
  /\ feedback \in Seq(DayLines) \cup {None}
  /\ tables["threat_investigation"] \in Seq(ScoredRows)
  /\ Scoring => req.score \in (IF type = "dns" THEN DNSCommands ELSE ProxySevs)

\* A clean request of a clean day: nothing failed, and no run cleared the day while
\* a request ran.
Clean == faults = 0 /\ undeleted = 0 /\ ~overlap

\* The dendrogram of every connection shown is drawn, or the child has still to draw it.
DendroDrawn ==
  type = "dns" =>
    /\ dendro \in Seq(Conns) /\ strayDendros \in Seq(Seq(Conns))
    /\ tables["dendro"] \in Seq(Clients)
    /\ dendro # << >> => oa = "details"
    /\ oa = "summary" => edges = << >>
    /\ undeleted = 0 /\ ~missed =>
         /\ Showing =>
              \A c \in Range(scores) : c \in Range(dendro) \/ Client[c] \in RowsOf("dendro")
         /\ oa = "done" => \A c \in Range(ShownConns) : Client[c] \in RowsOf("dendro")

\* The timelines a request is to insert again are those of the table when it read it,
\* each of another threat, and none of them is in the table any more.
TimelinesOnce ==
  type = "proxy" =>
    /\ tables["timeline"] \in Seq(Anchors \cup {None})
    /\ req.tmp \in Seq(Anchors \cup {None})
    /\ api = "delete timelines" => RowsOf("timeline") \subseteq {req.anchor} \cup Range(req.tmp)
    /\ undeleted = 0 =>
         /\ IsInjective(tables["timeline"])
         /\ api \in {"delete timelines", "insert timelines"} =>
              IsInjective(req.tmp) /\ req.anchor \notin Range(req.tmp)
         /\ api = "insert timelines" =>
              RowsOf("timeline") \cap ({req.anchor} \cup Range(req.tmp)) = {}

ConnsOf(rows) == {rows[i].conn : i \in DOMAIN rows}

\* With every connection of these, all are that the job took and that have its URI.
Closed(conns) ==
  /\ conns # {} => local # None
  /\ local # None =>
       \A c \in conns, d \in Range(FirstRows(local.rows)) : Uri[c] = Uri[d] => d \in conns

\* Results are copied once, so all that was ever shown is the first of them; what
\* was scored, or is to be, was selected from these by the URI.
ScoredByUri ==
  type = "proxy" =>
    /\ oa = "scores" => local # None /\ scores = FirstRows(local.rows)
    /\ tables["suspicious"] # << >> =>
         local # None /\ Range(ShownConns) = Range(FirstRows(local.rows))
    /\ Closed(ConnsOf(req.rows))
    /\ Closed(ConnsOf(tables["threat_investigation"]))

\* The line of the feedback file is of the row of the table.
Fed(r, line) ==
  /\ line.conn = r.conn
  /\ IF type = "dns"
     THEN r.ip_sev \in {0, line.sev.ip} /\ r.dns_sev \in {0, line.sev.dns}
     ELSE r.uri_sev = line.sev.score

\* What the request inserted, for which it has not written the line yet.
Unfed ==
  IF api \in {"list feedback", "put feedback"}
  THEN {IF type = "dns" THEN DNSScored(req.rows[i].conn)
        ELSE [conn |-> req.rows[i].conn, uri_sev |-> req.score] : i \in DOMAIN req.rows}
  ELSE {}

\* The job has removed the directory of what is scored, or of the stories' comments.
ClearedFrom(n) == (oa = "clear" /\ clearing >= n) \/ oa = "stories"
ScoresCleared == ClearedFrom(IF type = "dns" THEN 5 ELSE 3)
StoriesCleared == ClearedFrom(IF type = "dns" THEN 6 ELSE 5)

Scored == RowsOf("threat_investigation")

\* Every row has its line, or will have it from the request that runs.
ScoredAreFed ==
  /\ ~overlap /\ ClearingDay => api = "idle"
  /\ Clean =>
       /\ \A r \in Scored : r \in Unfed \/ \E line \in Range(Before) : Fed(r, line)
       /\ ScoresCleared => Scored = {}
       /\ api = "put feedback" => Opened

\* What belongs to the story of an anchor is there, but for a timeline on its way.
DNSStory(a) == {[anchor |-> a, conn |-> c] : c \in Range(DNSExpandedSearch(a))}
Whole(a) ==
  /\ type = "proxy" => TimelineKept(a)
  /\ type = "dns" => DNSStory(a) \subseteq RowsOf("threat_dendro")

SavingComment == api \in {"select comments", "delete comments", "insert comments"}

\* The story of every comment acknowledged is whole, as is that of a comment that is
\* being saved.
StoriesAreWhole ==
  /\ type = "dns" => /\ tables["threat_dendro"] \in Seq([anchor : Anchors \cup {None}, conn : Conns])
                     /\ req.expanded \in Seq(Conns)
                     /\ api = "dendro" => req.expanded # << >>
  /\ Clean =>
       /\ StoriesCleared => acked = {}
       /\ ~ClearingDay => \A c \in acked : Whole(c.anchor)
       /\ SavingComment => Whole(req.anchor)
       /\ type = "dns" /\ api = "dendro" =>
            DNSStory(req.anchor) \subseteq RowsOf("threat_dendro")
              \cup {[anchor |-> req.anchor, conn |-> c] : c \in Range(req.expanded)}

DNSProxyDayInv ==
  /\ RequestInv(Anchors, Asked) /\ JobInv
  /\ DayTyped
  /\ DendroDrawn
  /\ TimelinesOnce
  /\ ScoredByUri
  /\ ScoredAreFed
  /\ StoriesAreWhole

-----------------------------------------------------------------------------
(* The OA jobs *)

\* The tables that what is said of requests and stories is about.
Watched == {"suspicious", "threat_investigation", "storyboard"}
             \cup (IF type = "dns" THEN {"threat_dendro"} ELSE {"timeline"})

\* A step of a job that inserts what they are not about, or ends the job.
Aside ==
  /\ CountedOn /\ DOMAIN tables' = Tables
  /\ \A t \in Watched : tables'[t] = tables[t]
  /\ UNCHANGED <<local, stories, feedback, results, acked, cleared>>
  /\ oa' \notin {"clear", "stories", "results", "scores"}
  /\ faults' # 0 \/ ~ClearingDay

\* A step beside the job, if one runs: it leaves the job and these tables alone.
Beside ==
  /\ CountedOn /\ DOMAIN tables' = Tables
  /\ \A t \in Watched : tables'[t] = tables[t]
  /\ UNCHANGED <<oa, clearing, local, scores, stories, feedback, acked, cleared>>

\* What a step of a job is to the rest of the day.
JobDoes ==
  \/ JobStarts
  \/ type = "dns" /\ (JobClears(DNSClearList) \/ JobClearsFeedback(DNSClearList))
  \/ type = "proxy" /\ (JobClears(ProxyClearList) \/ JobClearsFeedback(ProxyClearList))
  \/ JobClearsStories
  \/ JobGetsResults
  \/ \E next \in {"details", "summary"} : JobInsertsScores(next)
  \/ Aside
  \/ Beside

\* The tables of the type, and the order in which a job clears their directories.
LEMMA ListsAre ==
  ASSUME type \in Types
  PROVE  /\ type = "dns" =>
              /\ DNSTables \subseteq Tables
              /\ DNSClearList \in Seq(Tables \cup {Nowhere}) /\ Len(DNSClearList) = 7
              /\ DNSClearList = << "suspicious", "edge", "dendro", "threat_dendro",
                                   "threat_investigation", "storyboard", "summary" >>
         /\ type = "proxy" =>
              /\ ProxyTables \subseteq Tables
              /\ ProxyClearList \in Seq(Tables \cup {Nowhere}) /\ Len(ProxyClearList) = 6
              /\ ProxyClearList = << "suspicious", "edge", "threat_investigation", "timeline",
                                     "storyboard", "summary" >>
<1>1. CASE type = "dns"
  <2>1. DNSTables \subseteq Tables
    BY <1>1, TablesAssumption
  <2> QED BY <1>1, <2>1 DEF DNSTables, DNSClearList
<1>2. CASE type = "proxy"
  <2>1. ProxyTables \subseteq Tables
    BY <1>2, TablesAssumption
  <2> QED BY <1>2, <2>1 DEF ProxyTables, ProxyClearList
<1> QED BY <1>1, <1>2

\* A sequence with one of its elements replaced is a sequence of the same elements.
LEMMA ReplacedStays ==
  ASSUME NEW S, NEW s \in Seq(S), NEW i \in DOMAIN s, NEW e \in S
  PROVE  [s EXCEPT ![i] = e] \in Seq(S)
<1> DEFINE t == [s EXCEPT ![i] = e]
<1>1. Len(s) \in Nat /\ DOMAIN s = 1 .. Len(s) /\ \A j \in 1 .. Len(s) : s[j] \in S
  OBVIOUS
<1>2. DOMAIN t = 1 .. Len(s)
  BY <1>1
<1>3. \A j \in 1 .. Len(s) : t[j] \in S
  BY <1>1
<1>4. t = [j \in 1 .. Len(s) |-> t[j]]
  BY <1>2
<1>5. [j \in 1 .. Len(s) |-> t[j]] \in Seq(S)
  <2> HIDE DEF t
  <2> QED BY <1>1, <1>3
<1> QED BY <1>4, <1>5

\* A step that leaves no dendrogram undrawn that was drawn or to be drawn.
LEMMA DendroStays ==
  ASSUME type = "dns", type' = type, DendroDrawn, Counted, CountedOn,
         dendro' = dendro, strayDendros' \in Seq(Seq(Conns)),
         tables'["dendro"] \in Seq(Clients), RowsOf("dendro") \subseteq RowsOf("dendro")',
         dendro # << >> => oa' = "details",
         oa' = "summary" => edges' = << >>,
         ~missed' => ~missed,
         Showing' => Showing /\ scores' = scores,
         oa' = "done" => oa = "done" /\ ShownConns' = ShownConns
  PROVE  DendroDrawn'
<1>1. undeleted' = 0 => undeleted = 0
  BY DEF CountedOn, Counted
<1> QED BY <1>1 DEF DendroDrawn

\* A step after which the job shows nothing.
LEMMA NoDendroDrawn ==
  ASSUME type = "dns", type' = type, dendro' = << >>, strayDendros' \in Seq(Seq(Conns)),
         tables'["dendro"] \in Seq(Clients),
         oa' \in {"idle", "clear", "stories", "results", "scores"}
  PROVE  DendroDrawn'
<1>1. << >> \in Seq(Conns)
  OBVIOUS
<1>2. ~Showing' /\ oa' # "done" /\ oa' # "summary"
  BY DEF Showing
<1> QED BY <1>1, <1>2 DEF DendroDrawn

\* A child inserts a dendrogram, whichever job it is of.
LEMMA DendroIsInserted ==
  ASSUME DOMAIN tables = Tables, "dendro" \in Tables, tables["dendro"] \in Seq(Clients),
         NEW c \in Conns, Insert("dendro", << Client[c] >>)
  PROVE  /\ DOMAIN tables' = Tables
         /\ \A t \in Tables : t # "dendro" => tables'[t] = tables[t]
         /\ tables'["dendro"] \in Seq(Clients)
         /\ RowsOf("dendro")' = RowsOf("dendro") \cup {Client[c]}
<1> DEFINE old == tables["dendro"]
<1>1. Client[c] \in Clients
  BY RecordsAssumption DEF Clients, Range
<1>2. /\ DOMAIN tables' = Tables /\ tables'["dendro"] = old \o << Client[c] >>
      /\ \A t \in Tables : t # "dendro" => tables'[t] = tables[t]
  BY InsertAppends
<1>3. PICK k \in Clients : k = Client[c]
  BY <1>1
<1>4. old \in Seq(Clients) /\ << k >> \in Seq(Clients) /\ Range(<< k >>) = {k}
  <2>1. DOMAIN << k >> = {1} /\ << k >>[1] = k
    OBVIOUS
  <2> QED BY <2>1 DEF Range
<1>5. old \o << k >> \in Seq(Clients) /\ Range(old \o << k >>) = Range(old) \cup {k}
  <2>1. \A r \in Seq(Clients) :
          old \o r \in Seq(Clients) /\ Range(old \o r) = Range(old) \cup Range(r)
    BY <1>4, ConcatIs
  <2> QED BY <1>4, <2>1
<1> QED BY <1>2, <1>3, <1>5 DEF RowsOf

\* The steps of the dns job that prepare the day.
LEMMA DNSPrepares ==
  ASSUME type = "dns", type \in Types, type' = type, mlRun' = mlRun,
         JobInv, Counted, DOMAIN tables = Tables, DendroDrawn,
         DNSStart \/ DNSClear \/ DNSClearFeedback \/ DNSClearStories \/ DNSGetResults
  PROVE  JobInv' /\ DendroDrawn' /\ JobDoes
<1>1. /\ DNSClearList \in Seq(Tables \cup {Nowhere}) /\ Len(DNSClearList) = 7
      /\ DNSClearList[1] = "suspicious" /\ DNSClearList[2] = "edge"
      /\ \A i \in 1 .. 7 : DNSClearList[i] \in Tables \cup {Nowhere}
      /\ "dendro" \in Tables
  BY ListsAre DEF DNSTables
<1>2. /\ clearing \in Nat /\ (dendro # << >> => oa = "details")
      /\ strayDendros \in Seq(Seq(Conns)) /\ tables["dendro"] \in Seq(Clients)
  BY DEF JobInv, JobTyped, DendroDrawn
<1>3. CASE DNSStart
  <2>1. JobStarts /\ dendro' = dendro /\ strayDendros' = strayDendros
    BY <1>3 DEF DNSStart, dendroVars
  <2>2. oa \in OAEnded /\ oa' = "clear" /\ tables' = tables
    BY <2>1 DEF JobStarts
  <2>3. dendro = << >>
    BY <1>2, <2>2 DEF OAEnded
  <2>4. DendroDrawn'
    BY <1>2, <2>1, <2>2, <2>3, NoDendroDrawn
  <2> QED BY <2>1, <2>4, JobStartsStep DEF JobDoes
<1>4. CASE DNSClear
  <2>1. JobClears(DNSClearList) /\ dendro' = dendro /\ strayDendros' = strayDendros
    BY <1>4 DEF DNSClear, dendroVars
  <2>2. oa = "clear" /\ oa' = "clear" /\ clearing < 7 /\ Clear(DNSClearList[clearing + 1])
    BY <1>1, <2>1 DEF JobClears
  <2>3. JobInv'
    BY <1>1, <2>1, JobClearsStep
  <2>4. DNSClearList[clearing + 1] \in Tables \cup {Nowhere}
    <3>1. clearing + 1 \in 1 .. 7
      BY <1>2, <2>2
    <3> QED BY <1>1, <3>1
  <2>5. tables'["dendro"] \in Seq(Clients)
    <3>1. tables'["dendro"] \in {tables["dendro"], << >>}
      BY <1>1, <2>2, <2>4, ClearEmpties
    <3>2. << >> \in Seq(Clients)
      OBVIOUS
    <3> QED BY <1>2, <3>1, <3>2
  <2>6. DendroDrawn'
    BY <1>2, <2>1, <2>2, <2>5, NoDendroDrawn
  <2> QED BY <2>1, <2>3, <2>6 DEF JobDoes
<1>5. CASE DNSClearFeedback \/ DNSClearStories
  <2>1. /\ JobClearsFeedback(DNSClearList) \/ JobClearsStories
        /\ dendro' = dendro /\ strayDendros' = strayDendros
    BY <1>5 DEF DNSClearFeedback, DNSClearStories, dendroVars
  <2>2. JobInv'
    <3>1. Len(DNSClearList) >= 2
      BY <1>1
    <3> QED BY <1>1, <2>1, <3>1, JobClearsFilesStep
  <2>3. oa \in {"clear", "stories"} /\ oa' \in {"stories", "results"} /\ tables' = tables
    BY <2>1 DEF JobClearsFeedback, JobClearsStories
  <2>4. DendroDrawn'
    BY <1>2, <2>1, <2>3, NoDendroDrawn
  <2> QED BY <2>1, <2>2, <2>4 DEF JobDoes
<1>6. CASE DNSGetResults
  <2>1. JobGetsResults /\ dendro' = dendro /\ strayDendros' = strayDendros
    BY <1>6 DEF DNSGetResults, dendroVars
  <2>2. oa = "results" /\ oa' \in {"idle", "scores"} /\ tables' = tables
    BY <2>1 DEF JobGetsResults, OAExit, storeVars
  <2>3. DendroDrawn'
    BY <1>2, <2>1, <2>2, NoDendroDrawn
  <2> QED BY <2>1, <2>3, JobGetsResultsStep DEF JobDoes
<1> QED BY <1>3, <1>4, <1>5, <1>6

\* The steps of the dns job in which its children insert, or are done.
LEMMA DNSInserts ==
  ASSUME type = "dns", type \in Types, type' = type, mlRun' = mlRun,
         JobInv, Counted, DOMAIN tables = Tables, DendroDrawn,
         \/ DNSCreateScores \/ DNSInsertEdge \/ DNSSkipEdge \/ DNSInsertDendro
         \/ DNSChildDies \/ DNSJoinChildren \/ DNSIngestSummary
  PROVE  JobInv' /\ DendroDrawn' /\ JobDoes
<1>1. {"suspicious", "edge", "dendro", "threat_dendro", "threat_investigation",
       "storyboard", "summary"} \subseteq Tables
  BY ListsAre DEF DNSTables
<1>2. /\ results \in Copies /\ mlRun' \in Nat /\ scores \in Seq(Conns)
      /\ edges # << >> => Showing
      /\ dendro \in Seq(Conns) /\ tables["dendro"] \in Seq(Clients)
      /\ strayDendros \in Seq(Seq(Conns))
      /\ dendro # << >> => oa = "details"
      /\ oa = "summary" => edges = << >>
  BY DEF JobInv, JobTyped, DendroDrawn
<1>3. Watched \subseteq Tables /\ {"edge", "dendro", "summary"} \cap Watched = {}
  BY <1>1 DEF Watched
<1>4. CASE DNSCreateScores
  <2>1. JobInsertsScores("details") /\ dendro' = scores /\ strayDendros' = strayDendros
    BY <1>4 DEF DNSCreateScores
  <2>2. JobInv'
    BY <2>1, JobInsertsScoresStep
  <2>3. /\ oa' = "details" /\ scores' = scores /\ \E rows : Insert("suspicious", rows)
    BY <2>1 DEF JobInsertsScores
  <2>4. tables'["dendro"] = tables["dendro"]
    BY <1>1, <2>3, InsertAppends
  <2>5. DendroDrawn'
    BY <1>2, <2>1, <2>3, <2>4 DEF DendroDrawn
  <2> QED BY <2>1, <2>2, <2>5 DEF JobDoes
<1>5. CASE DNSInsertEdge \/ DNSSkipEdge \/ (EdgeChildDies /\ UNCHANGED dendroVars)
  <2>1. /\ UNCHANGED <<oa, clearing, local, scores, stories, feedback, results, acked, cleared>>
        /\ dendro' = dendro /\ strayDendros' = strayDendros /\ (~missed' => ~missed)
        /\ edges # << >>
        /\ tables' = tables \/ \E rows : Insert("edge", rows)
    <3>1. CASE DNSInsertEdge
      BY <3>1 DEF DNSInsertEdge, JobInsertsEdge, NextEdge, fileVars, history, dendroVars
    <3>2. CASE DNSSkipEdge
      BY <3>2 DEF DNSSkipEdge, NextEdge, fileVars, history, dendroVars
    <3>3. CASE EdgeChildDies /\ UNCHANGED dendroVars
      BY <3>3 DEF EdgeChildDies, fileVars, history, dendroVars
    <3> QED BY <1>5, <3>1, <3>2, <3>3
  <2>2. JobInv' /\ CountedOn
    <3>1. CASE DNSInsertEdge
      BY <3>1, JobInsertsEdgeStep DEF DNSInsertEdge
    <3>2. CASE DNSSkipEdge \/ EdgeChildDies
      <4>1. /\ Fault /\ edges' \in {Tail(edges), << >>} /\ missed' = TRUE
            /\ UNCHANGED <<oa, clearing, local, scores, strayVars, tables, results>>
        BY <3>2 DEF DNSSkipEdge, EdgeChildDies, NextEdge, fileVars
      <4> QED BY <2>1, <4>1, EdgesAreLost
    <3> QED BY <1>5, <3>1, <3>2
  <2>3. DOMAIN tables' = Tables /\ \A t \in Tables : t # "edge" => tables'[t] = tables[t]
    BY <1>1, <2>1, InsertAppends
  <2>4. Showing /\ oa # "summary" /\ Showing' = Showing
        /\ oa \notin {"clear", "stories", "results", "scores", "done"} /\ ~ClearingDay
    BY <1>2, <2>1 DEF Showing, ClearingDay
  <2>5. Aside
    BY <1>3, <2>1, <2>2, <2>3, <2>4 DEF Aside
  <2>6. tables'["dendro"] = tables["dendro"] /\ RowsOf("dendro")' = RowsOf("dendro")
    BY <1>1, <2>3 DEF RowsOf
  <2>7. DendroDrawn'
    BY <1>2, <2>1, <2>2, <2>4, <2>6, DendroStays
  <2> QED BY <2>2, <2>5, <2>7 DEF JobDoes
<1>6. CASE DNSInsertDendro
  <2>1. /\ dendro # << >> /\ Insert("dendro", << Client[Head(dendro)] >>) /\ dendro' = Tail(dendro)
        /\ UNCHANGED jobVars /\ strayDendros' = strayDendros
        /\ UNCHANGED <<stories, feedback, results, acked, cleared, starts, faults, undeleted>>
    BY <1>6 DEF DNSInsertDendro, fileVars, history, bounds
  <2>2. UNCHANGED <<oa, clearing, local, scores, edges, missed>>
    BY <2>1 DEF jobVars, childVars
  <2>3. CountedOn /\ (undeleted' = 0 => undeleted = 0)
    BY <2>1 DEF Counted, CountedOn
  <2>4. /\ Head(dendro) \in Conns /\ Tail(dendro) \in Seq(Conns)
        /\ Range(dendro) = {Head(dendro)} \cup Range(Tail(dendro))
    BY <1>2, <2>1, HeadAndTail
  <2>5. PICK c \in Conns : c = Head(dendro)
    BY <2>4
  <2>6. /\ DOMAIN tables' = Tables /\ tables'["dendro"] \in Seq(Clients)
        /\ \A t \in Tables : t # "dendro" => tables'[t] = tables[t]
        /\ RowsOf("dendro")' = RowsOf("dendro") \cup {Client[c]}
    BY <1>1, <1>2, <2>1, <2>5, DendroIsInserted
  <2>7. oa = "details" /\ oa' = "details" /\ Showing
    BY <1>2, <2>1, <2>2 DEF Showing
  <2>8. JobInv'
    <3>1. tables'["suspicious"] = tables["suspicious"] /\ tables'["edge"] = tables["edge"]
      BY <1>1, <2>6
    <3> QED BY <1>2, <2>1, <2>3, <3>1, JobStays
  <2>9. Aside
    BY <1>3, <2>1, <2>2, <2>3, <2>6, <2>7 DEF Aside, ClearingDay
  <2>10. undeleted' = 0 /\ ~missed' =>
           \A d \in Range(scores) : d \in Range(dendro') \/ Client[d] \in RowsOf("dendro")'
    <3>1. undeleted' = 0 /\ ~missed' =>
            \A d \in Range(scores) : d \in Range(dendro) \/ Client[d] \in RowsOf("dendro")
      BY <2>2, <2>3, <2>7 DEF DendroDrawn
    <3> QED BY <2>1, <2>4, <2>5, <2>6, <3>1
  <2>11. DendroDrawn'
    BY <1>2, <2>1, <2>2, <2>4, <2>6, <2>7, <2>10 DEF DendroDrawn
  <2> QED BY <2>8, <2>9, <2>11 DEF JobDoes
<1>7. CASE DNSChildDies /\ ~(EdgeChildDies /\ UNCHANGED dendroVars)
  <2>1. /\ dendro # << >> /\ Fault /\ dendro' = << >> /\ strayDendros' = strayDendros
        /\ missed' = TRUE
        /\ UNCHANGED <<oa, clearing, local, scores, edges, strayVars>>
        /\ UNCHANGED <<tables, stories, feedback, results, acked, cleared>>
    BY <1>7 DEF DNSChildDies, fileVars, history
  <2>2. CountedOn /\ faults' # 0 /\ oa = "details"
    BY <1>2, <2>1, OneIsCounted
  <2>3. JobInv'
    BY <2>1, WorkIsMissed
  <2>4. Aside
    BY <2>1, <2>2 DEF Aside
  <2>5. << >> \in Seq(Conns)
    OBVIOUS
  <2>6. DendroDrawn'
    BY <1>2, <2>1, <2>2, <2>5 DEF DendroDrawn
  <2> QED BY <2>3, <2>4, <2>6 DEF JobDoes
<1>8. CASE DNSJoinChildren
  <2>1. /\ oa = "details" /\ oa' = "summary" /\ edges = << >> /\ dendro = << >>
        /\ UNCHANGED <<clearing, local, scores, childVars, dendro, strayDendros>>
        /\ UNCHANGED <<tables, stories, feedback, results, acked, cleared>>
        /\ UNCHANGED <<starts, faults, undeleted>>
    BY <1>8 DEF DNSJoinChildren, storeVars, fileVars, history, bounds, dendroVars
  <2>2. CountedOn
    BY <2>1 DEF Counted, CountedOn
  <2>3. Showing /\ Showing' /\ ~ClearingDay
    BY <2>1 DEF Showing, ClearingDay
  <2>4. JobInv'
    BY <1>2, <2>1, <2>2, <2>3, JobGoesOn
  <2>5. Aside
    BY <2>1, <2>2, <2>3 DEF Aside
  <2>6. RowsOf("dendro")' = RowsOf("dendro") /\ edges' = << >> /\ missed' = missed
    BY <2>1 DEF RowsOf, childVars
  <2>7. DendroDrawn'
    BY <1>2, <2>1, <2>2, <2>3, <2>6, DendroStays
  <2> QED BY <2>4, <2>5, <2>7 DEF JobDoes
<1>9. CASE DNSIngestSummary
  <2>1. /\ oa = "summary" /\ OAExit("done") /\ Insert("summary", << "total" >>)
        /\ dendro' = dendro /\ strayDendros' = strayDendros
        /\ UNCHANGED <<local, strayVars, missed, stories, feedback, results, acked, cleared>>
        /\ UNCHANGED <<starts, faults, undeleted>>
    BY <1>9 DEF DNSIngestSummary, JobSummary, fileVars, history, bounds, dendroVars
  <2>2. CountedOn /\ (undeleted' = 0 => undeleted = 0)
    BY <2>1 DEF Counted, CountedOn
  <2>3. DOMAIN tables' = Tables /\ \A t \in Tables : t # "summary" => tables'[t] = tables[t]
    BY <1>1, <2>1, InsertAppends
  <2>4. Showing /\ edges = << >> /\ "done" \in OAEnded /\ dendro = << >> /\ ~ClearingDay
    BY <1>2, <2>1 DEF Showing, OAEnded, ClearingDay
  <2>5. /\ tables'["suspicious"] = tables["suspicious"] /\ tables'["edge"] = tables["edge"]
        /\ tables'["dendro"] = tables["dendro"]
    BY <1>1, <2>3
  <2>6. JobInv'
    BY <2>1, <2>2, <2>4, <2>5, JobEnds
  <2>7. oa' = "done" /\ ~Showing'
    BY <2>1 DEF OAExit, Showing
  <2>8. Aside
    BY <1>3, <2>1, <2>2, <2>3, <2>4, <2>7 DEF Aside
  <2>9. undeleted = 0 => ShownConns' = scores
    <3>1. undeleted = 0 => ShownConns = scores
      BY <2>4 DEF JobInv, DetailsOfOneRun
    <3> QED BY <2>5, <3>1 DEF ShownConns
  <2>10. undeleted = 0 /\ ~missed => \A c \in Range(scores) : Client[c] \in RowsOf("dendro")
    <3>1. Range(dendro) = {}
      BY <2>4 DEF Range
    <3> QED BY <2>4, <3>1 DEF DendroDrawn
  <2>11. undeleted' = 0 /\ ~missed' =>
           \A c \in Range(ShownConns') : Client[c] \in RowsOf("dendro")'
    BY <2>1, <2>2, <2>5, <2>9, <2>10 DEF RowsOf
  <2>12. DendroDrawn'
    BY <1>2, <2>1, <2>4, <2>5, <2>7, <2>11 DEF DendroDrawn
  <2> QED BY <2>6, <2>8, <2>12 DEF JobDoes
<1> QED BY <1>4, <1>5, <1>6, <1>7, <1>8, <1>9

\* Those in which it fails or is killed, and those of the children of killed jobs.
LEMMA DNSLeaves ==
  ASSUME type = "dns", type \in Types, type' = type, mlRun' = mlRun,
         JobInv, Counted, DOMAIN tables = Tables, DendroDrawn,
         DNSFails \/ DNSKilled \/ DNSOrphans
  PROVE  JobInv' /\ DendroDrawn' /\ JobDoes
<1>1. {"suspicious", "edge", "dendro"} \subseteq Tables /\ Watched \subseteq Tables
      /\ {"edge", "dendro"} \cap Watched = {}
  BY ListsAre DEF DNSTables, Watched
<1>2. /\ results \in Copies /\ mlRun' \in Nat
      /\ dendro \in Seq(Conns) /\ tables["dendro"] \in Seq(Clients)
      /\ strayDendros \in Seq(Seq(Conns))
      /\ dendro # << >> => oa = "details"
      /\ oa = "summary" => edges = << >>
  BY DEF JobInv, JobTyped, DendroDrawn
<1>3. CASE DNSFails \/ DNSKilled
  <2>1. /\ JobFails \/ JobKilled
        /\ dendro' = << >> /\ strayDendros' \in {strayDendros, Append(strayDendros, dendro)}
    BY <1>3 DEF DNSFails, DNSKilled, LeftTo
  <2>2. /\ oa' = "idle" /\ Fault /\ DOMAIN tables' = Tables
        /\ UNCHANGED <<tables, local, stories, feedback, results, acked, cleared>>
    BY <2>1 DEF JobFails, JobKilled, OAExit, fileVars, history
  <2>3. CountedOn /\ faults' # 0
    BY <2>2, OneIsCounted
  <2>4. JobInv'
    BY <2>1, JobFailsStep, JobKilledStep
  <2>5. Aside
    BY <2>2, <2>3 DEF Aside
  <2>6. strayDendros' \in Seq(Seq(Conns))
    <3>1. \A works \in Seq(Seq(Conns)), work \in Seq(Conns) : Append(works, work) \in Seq(Seq(Conns))
      OBVIOUS
    <3> QED BY <1>2, <2>1, <3>1
  <2>7. DendroDrawn'
    BY <1>2, <2>1, <2>2, <2>6, NoDendroDrawn
  <2> QED BY <2>4, <2>5, <2>7 DEF JobDoes
<1>4. CASE (OrphanInsertsEdge \/ OrphanDies) /\ UNCHANGED dendroVars
  <2>1. JobInv' /\ CountedOn
    BY <1>4, OrphanInsertsEdgeStep, OrphanDiesStep
  <2>2. /\ UNCHANGED <<oa, clearing, local, scores, edges, missed, stories, feedback, acked, cleared>>
        /\ UNCHANGED <<dendro, strayDendros>>
        /\ tables' = tables \/ \E rows : Insert("edge", rows)
    BY <1>4 DEF OrphanInsertsEdge, OrphanDies, storeVars, fileVars, history, dendroVars
  <2>3. DOMAIN tables' = Tables /\ \A t \in Tables : t # "edge" => tables'[t] = tables[t]
    BY <1>1, <2>2, InsertAppends
  <2>4. Beside
    BY <1>1, <2>1, <2>2, <2>3 DEF Beside
  <2>5. /\ tables'["dendro"] = tables["dendro"] /\ RowsOf("dendro")' = RowsOf("dendro")
        /\ ShownConns' = ShownConns /\ Showing' = Showing
    BY <1>1, <2>2, <2>3 DEF RowsOf, ShownConns, Showing
  <2>6. DendroDrawn'
    BY <1>2, <2>1, <2>2, <2>5, DendroStays
  <2> QED BY <2>1, <2>4, <2>6 DEF JobDoes
<1>5. CASE OrphanInsertsDendro
  <2>1. PICK i \in DOMAIN strayDendros :
          /\ strayDendros[i] # << >>
          /\ Insert("dendro", << Client[Head(strayDendros[i])] >>)
          /\ strayDendros' = [strayDendros EXCEPT ![i] = Tail(@)]
    BY <1>5 DEF OrphanInsertsDendro
  <2>2. /\ dendro' = dendro /\ UNCHANGED jobVars
        /\ UNCHANGED <<stories, feedback, results, acked, cleared, starts, faults, undeleted>>
    BY <1>5 DEF OrphanInsertsDendro, fileVars, history, bounds
  <2>3. UNCHANGED <<oa, clearing, local, scores, edges, missed>>
    BY <2>2 DEF jobVars, childVars
  <2>4. CountedOn
    BY <2>2 DEF Counted, CountedOn
  <2>5. PICK work \in Seq(Conns) : work = strayDendros[i] /\ work # << >>
    BY <1>2, <2>1
  <2>6. Head(work) \in Conns /\ Tail(work) \in Seq(Conns)
    BY <2>5, HeadAndTail
  <2>7. PICK c \in Conns : c = Head(work)
    BY <2>6
  <2>8. /\ DOMAIN tables' = Tables /\ tables'["dendro"] \in Seq(Clients)
        /\ \A t \in Tables : t # "dendro" => tables'[t] = tables[t]
        /\ RowsOf("dendro")' = RowsOf("dendro") \cup {Client[c]}
    BY <1>1, <1>2, <2>1, <2>5, <2>7, DendroIsInserted
  <2>9. strayDendros' \in Seq(Seq(Conns))
    <3>1. strayDendros' = [strayDendros EXCEPT ![i] = Tail(work)]
      BY <2>1, <2>5
    <3>2. i \in DOMAIN strayDendros /\ Tail(work) \in Seq(Conns)
      BY <2>1, <2>6
    <3> QED BY <1>2, <3>1, <3>2, ReplacedStays
  <2>10. tables'["suspicious"] = tables["suspicious"] /\ tables'["edge"] = tables["edge"]
         /\ ShownConns' = ShownConns /\ Showing' = Showing
    BY <1>1, <2>3, <2>8 DEF ShownConns, Showing
  <2>11. JobInv'
    BY <1>2, <2>2, <2>4, <2>10, JobStays
  <2>12. Beside
    BY <1>1, <2>2, <2>3, <2>4, <2>8 DEF Beside
  <2>13. DendroDrawn'
    BY <1>2, <2>2, <2>3, <2>4, <2>8, <2>9, <2>10, DendroStays
  <2> QED BY <2>11, <2>12, <2>13 DEF JobDoes
<1>6. CASE \E i \in DOMAIN strayDendros :
             /\ strayDendros[i] # << >>
             /\ strayDendros' = [strayDendros EXCEPT ![i] = << >>]
             /\ UNCHANGED <<dendro, jobVars, storeVars>>
  <2>1. /\ dendro' = dendro /\ UNCHANGED jobVars
        /\ UNCHANGED <<tables, stories, feedback, results, acked, cleared, starts, faults, undeleted>>
    BY <1>6 DEF storeVars, fileVars, history, bounds
  <2>2. UNCHANGED <<oa, clearing, local, scores, edges, missed>>
    BY <2>1 DEF jobVars, childVars
  <2>3. CountedOn
    BY <2>1 DEF Counted, CountedOn
  <2>4. strayDendros' \in Seq(Seq(Conns))
    <3>1. << >> \in Seq(Conns)
      OBVIOUS
    <3>2. PICK i \in DOMAIN strayDendros : strayDendros' = [strayDendros EXCEPT ![i] = << >>]
      BY <1>6
    <3> QED BY <1>2, <3>1, <3>2, ReplacedStays
  <2>5. /\ RowsOf("dendro")' = RowsOf("dendro")
        /\ ShownConns' = ShownConns /\ Showing' = Showing
    BY <2>1, <2>2 DEF RowsOf, ShownConns, Showing
  <2>6. JobInv'
    BY <1>2, <2>1, <2>3, JobStays
  <2>7. Beside
    BY <2>1, <2>2, <2>3 DEF Beside
  <2>8. DendroDrawn'
    BY <1>2, <2>1, <2>2, <2>3, <2>4, <2>5, DendroStays
  <2> QED BY <2>6, <2>7, <2>8 DEF JobDoes
<1> QED BY <1>3, <1>4, <1>5, <1>6 DEF DNSOrphans

\* The steps of the proxy job.
LEMMA ProxySteps ==
  ASSUME type = "proxy", type \in Types, type' = type, mlRun' = mlRun,
         JobInv, Counted, DOMAIN tables = Tables, ProxyOAStep
  PROVE  JobInv' /\ DendroDrawn' /\ JobDoes
<1>1. /\ ProxyClearList \in Seq(Tables \cup {Nowhere}) /\ Len(ProxyClearList) = 6
      /\ ProxyClearList[1] = "suspicious" /\ ProxyClearList[2] = "edge"
      /\ {"suspicious", "edge", "threat_investigation", "timeline", "storyboard",
          "summary"} \subseteq Tables
  BY ListsAre DEF ProxyTables
<1>2. results \in Copies /\ mlRun' \in Nat /\ (edges # << >> => Showing)
  BY DEF JobInv, JobTyped
<1>3. Watched \subseteq Tables /\ {"edge", "summary"} \cap Watched = {}
  BY <1>1 DEF Watched
<1>4. DendroDrawn'
  BY DEF DendroDrawn
<1>5. CASE ProxyStart
  BY <1>4, <1>5, JobStartsStep DEF ProxyStart, JobDoes
<1>6. CASE ProxyClear
  BY <1>1, <1>4, <1>6, JobClearsStep DEF ProxyClear, JobDoes
<1>7. CASE ProxyClearFeedback \/ ProxyClearStories
  <2>1. JobClearsFeedback(ProxyClearList) \/ JobClearsStories
    BY <1>7 DEF ProxyClearFeedback, ProxyClearStories
  <2>2. Len(ProxyClearList) >= 2
    BY <1>1
  <2>3. JobInv'
    BY <1>1, <2>1, <2>2, JobClearsFilesStep
  <2> QED BY <1>4, <2>1, <2>3 DEF JobDoes
<1>8. CASE ProxyGetResults
  BY <1>4, <1>8, JobGetsResultsStep DEF ProxyGetResults, JobDoes
<1>9. CASE ProxyCreateScores
  BY <1>4, <1>9, JobInsertsScoresStep DEF ProxyCreateScores, JobDoes
<1>10. CASE ProxyInsertEdge \/ ProxyChildDies
  <2>1. /\ UNCHANGED <<oa, clearing, local, scores, stories, feedback, results, acked, cleared>>
        /\ edges # << >>
        /\ tables' = tables \/ \E rows : Insert("edge", rows)
    BY <1>10 DEF ProxyInsertEdge, ProxyChildDies, EdgeChildDies, JobInsertsEdge, NextEdge, fileVars, history
  <2>2. JobInv' /\ CountedOn
    <3>1. CASE ProxyInsertEdge
      BY <3>1, JobInsertsEdgeStep DEF ProxyInsertEdge
    <3>2. CASE ProxyChildDies
      <4>1. /\ Fault /\ edges' = << >> /\ tables' = tables /\ missed' = TRUE
            /\ UNCHANGED strayVars
        BY <3>2 DEF ProxyChildDies, EdgeChildDies
      <4> QED BY <2>1, <4>1, EdgesAreLost
    <3> QED BY <1>10, <3>1, <3>2
  <2>3. DOMAIN tables' = Tables /\ \A t \in Tables : t # "edge" => tables'[t] = tables[t]
    BY <1>1, <2>1, InsertAppends
  <2>4. oa \notin {"clear", "stories", "results", "scores"} /\ ~ClearingDay
    BY <1>2, <2>1 DEF Showing, ClearingDay
  <2>5. Aside
    BY <1>3, <2>1, <2>2, <2>3, <2>4 DEF Aside
  <2> QED BY <1>4, <2>2, <2>5 DEF JobDoes
<1>11. CASE ProxyIngestSummary
  <2>1. /\ oa = "summary" /\ oa' = "exit" /\ Insert("summary", << "total" >>)
        /\ UNCHANGED <<clearing, local, scores, edges, stories, feedback, results, acked, cleared>>
        /\ UNCHANGED childVars /\ UNCHANGED <<starts, faults, undeleted>>
    BY <1>11 DEF ProxyIngestSummary, JobSummary, fileVars, history, bounds, childVars
  <2>2. CountedOn
    BY <2>1 DEF Counted, CountedOn
  <2>3. DOMAIN tables' = Tables /\ \A t \in Tables : t # "summary" => tables'[t] = tables[t]
    BY <1>1, <2>1, InsertAppends
  <2>4. Showing /\ Showing' /\ ~ClearingDay
    BY <2>1 DEF Showing, ClearingDay
  <2>5. tables'["suspicious"] = tables["suspicious"] /\ tables'["edge"] = tables["edge"]
    BY <1>1, <2>3
  <2>6. JobInv'
    BY <1>2, <2>1, <2>2, <2>4, <2>5, JobGoesOn
  <2>7. Aside
    BY <1>3, <2>1, <2>2, <2>3, <2>4 DEF Aside
  <2> QED BY <1>4, <2>6, <2>7 DEF JobDoes
<1>12. CASE ProxySummaryFails
  <2>1. /\ oa = "summary" /\ oa' = "exit failed" /\ Fault /\ tables' = tables
        /\ UNCHANGED <<clearing, local, scores, childVars>>
        /\ UNCHANGED <<stories, feedback, results, acked, cleared>>
    BY <1>12 DEF ProxySummaryFails, fileVars, history
  <2>2. CountedOn /\ faults' # 0
    BY <2>1, OneIsCounted
  <2>3. Showing /\ Showing'
    BY <2>1 DEF Showing
  <2>4. JobInv'
    BY <1>2, <2>1, <2>2, <2>3, JobGoesOn
  <2>5. Aside
    BY <2>1, <2>2 DEF Aside
  <2> QED BY <1>4, <2>4, <2>5 DEF JobDoes
<1>13. CASE ProxyExit
  <2>1. /\ oa \in {"exit", "exit failed"} /\ edges = << >>
        /\ OAExit(IF oa = "exit" THEN "done" ELSE "idle")
        /\ UNCHANGED <<local, strayVars, missed>>
        /\ UNCHANGED <<tables, stories, feedback, results, acked, cleared>>
        /\ UNCHANGED <<starts, faults, undeleted>>
    BY <1>13 DEF ProxyExit, ChildDone, storeVars, fileVars, history, bounds
  <2>2. CountedOn
    <3>1. UNCHANGED <<starts, faults, undeleted>>
      BY <2>1
    <3> QED BY <3>1 DEF Counted, CountedOn
  <2>3. Showing /\ ~ClearingDay /\ oa' \in {"done", "idle"}
    BY <2>1 DEF Showing, ClearingDay, OAExit
  <2>4. (IF oa = "exit" THEN "done" ELSE "idle") \in OAEnded
    BY DEF OAEnded
  <2>5. JobInv'
    BY <2>1, <2>2, <2>3, <2>4, JobEnds
  <2>6. Aside
    BY <2>1, <2>2, <2>3 DEF Aside
  <2> QED BY <1>4, <2>5, <2>6 DEF JobDoes
<1>14. CASE ProxyFails \/ ProxyKilled
  <2>1. JobFails \/ JobKilled
    BY <1>14 DEF ProxyFails, ProxyKilled
  <2>2. /\ oa' = "idle" /\ Fault
        /\ UNCHANGED <<tables, local, stories, feedback, results, acked, cleared>>
    BY <2>1 DEF JobFails, JobKilled, OAExit, fileVars, history
  <2>3. CountedOn /\ faults' # 0
    BY <2>2, OneIsCounted
  <2>4. JobInv'
    BY <2>1, JobFailsStep, JobKilledStep
  <2>5. Aside
    BY <2>2, <2>3 DEF Aside
  <2> QED BY <1>4, <2>4, <2>5 DEF JobDoes
<1>15. CASE ProxyOrphans
  <2>1. JobInv' /\ CountedOn
    BY <1>15, OrphanInsertsEdgeStep, OrphanDiesStep DEF ProxyOrphans
  <2>2. /\ UNCHANGED <<oa, clearing, local, scores, stories, feedback, acked, cleared>>
        /\ tables' = tables \/ \E rows : Insert("edge", rows)
    BY <1>15 DEF ProxyOrphans, OrphanInsertsEdge, OrphanDies, storeVars, fileVars, history
  <2>3. DOMAIN tables' = Tables /\ \A t \in Tables : t # "edge" => tables'[t] = tables[t]
    BY <1>1, <2>2, InsertAppends
  <2>4. Beside
    BY <1>3, <2>1, <2>2, <2>3 DEF Beside
  <2> QED BY <1>4, <2>1, <2>4 DEF JobDoes
<1> QED BY <1>5, <1>6, <1>7, <1>8, <1>9, <1>10, <1>11, <1>12, <1>13, <1>14, <1>15 DEF ProxyOAStep

-----------------------------------------------------------------------------
(* Steps that leave what is said of the requests as it is *)

\* The type stays, and an overlap is noted.
Recorded == type' = type /\ (overlap' <=> (overlap \/ (ClearingDay' /\ api' # "idle")))

\* No step makes a day clean, and in a clean one no request runs while a job clears.
LEMMA CleanBefore ==
  ASSUME Recorded, Counted, CountedOn
  PROVE  /\ Clean' => Clean
         /\ ~overlap' /\ ClearingDay' => api' = "idle"
         /\ undeleted' = 0 => undeleted = 0
<1>1. /\ undeleted' = 0 => undeleted = 0
      /\ faults' = 0 => faults = 0
  BY DEF CountedOn, Counted
<1> QED BY <1>1 DEF Recorded, Clean

\* What is empty.
LEMMA NoneIn ==
  /\ \A S : << >> \in Seq(S)
  /\ IsInjective(<< >>) /\ Range(<< >>) = {}
<1>1. DOMAIN << >> = {}
  OBVIOUS
<1>2. \A S : << >> \in Seq(S)
  OBVIOUS
<1>3. IsInjective(<< >>)
  BY <1>1 DEF IsInjective
<1>4. Range(<< >>) = {}
  BY <1>1 DEF Range
<1> QED BY <1>2, <1>3, <1>4

\* A step that adds no line and no row, and starts no scoring.
LEMMA DayTypedStays ==
  ASSUME DayTyped, type' = type, feedback' \in {feedback, None},
         tables'["threat_investigation"] \in {tables["threat_investigation"], << >>},
         Scoring' => Scoring /\ req'.score = req.score
  PROVE  DayTyped'
<1>1. tables'["threat_investigation"] \in Seq(ScoredRows)
  <2>1. << >> \in Seq(ScoredRows)
    OBVIOUS
  <2> QED BY <2>1 DEF DayTyped
<1> QED BY <1>1 DEF DayTyped

\* A step that inserts no timeline, and reads none to insert them again.
LEMMA TimelinesStay ==
  ASSUME TimelinesOnce, Recorded, Counted, CountedOn,
         type = "proxy" => tables'["timeline"] \in {tables["timeline"], << >>},
         \/ UNCHANGED <<api, req.tmp, req.anchor>>
         \/ /\ req'.tmp \in {req.tmp, << >>}
            /\ api' \notin {"delete timelines", "insert timelines"}
  PROVE  TimelinesOnce'
<1>1. SUFFICES ASSUME type = "proxy" PROVE TimelinesOnce'
  BY DEF TimelinesOnce, Recorded
<1>2. undeleted' = 0 => undeleted = 0
  BY CleanBefore
<1>3. /\ << >> \in Seq(Anchors \cup {None}) /\ IsInjective(<< >>) /\ Range(<< >>) = {}
  BY NoneIn
<1>4. CASE tables'["timeline"] = tables["timeline"]
  BY <1>1, <1>2, <1>3, <1>4 DEF TimelinesOnce, RowsOf
<1>5. CASE tables'["timeline"] = << >>
  BY <1>1, <1>2, <1>3, <1>5 DEF TimelinesOnce, RowsOf
<1> QED BY <1>1, <1>4, <1>5

\* A step that shows and scores nothing.
LEMMA UriStays ==
  ASSUME ScoredByUri, type' = type, local' = local,
         oa' = "scores" => oa = "scores" /\ scores' = scores,
         tables'["suspicious"] \in {tables["suspicious"], << >>},
         tables'["threat_investigation"] \in {tables["threat_investigation"], << >>},
         req'.rows \in {req.rows, << >>}
  PROVE  ScoredByUri'
<1>1. SUFFICES ASSUME type = "proxy" PROVE ScoredByUri'
  BY DEF ScoredByUri
<1>2. ConnsOf(<< >>) = {}
  BY DEF ConnsOf
<1>3. Closed({})
  BY DEF Closed
<1>5. Closed(ConnsOf(req.rows))'
  <2>1. Closed(ConnsOf(req.rows)) /\ ConnsOf(req.rows)' \in {ConnsOf(req.rows), {}}
    BY <1>1, <1>2 DEF ScoredByUri, ConnsOf
  <2> QED BY <1>3, <2>1 DEF Closed
<1>6. Closed(ConnsOf(tables["threat_investigation"]))'
  <2>1. /\ Closed(ConnsOf(tables["threat_investigation"]))
        /\ ConnsOf(tables["threat_investigation"])' \in {ConnsOf(tables["threat_investigation"]), {}}
    BY <1>1, <1>2 DEF ScoredByUri, ConnsOf
  <2> QED BY <1>3, <2>1 DEF Closed
<1>7. tables'["suspicious"] # << >> =>
        local' # None /\ Range(ShownConns') = Range(FirstRows(local'.rows))
  BY <1>1 DEF ScoredByUri, ShownConns
<1>8. oa' = "scores" => local' # None /\ scores' = FirstRows(local'.rows)
  BY <1>1 DEF ScoredByUri
<1> QED BY <1>5, <1>6, <1>7, <1>8 DEF ScoredByUri, ShownConns

\* A step that neither scores nor writes what was scored to the feedback file.
LEMMA FedStays ==
  ASSUME ScoredAreFed, Recorded, Counted, CountedOn, feedback' = feedback,
         tables'["threat_investigation"] \in {tables["threat_investigation"], << >>},
         UNCHANGED apiVars \/ {api, api'} \cap {"list feedback", "put feedback"} = {},
         undeleted' = 0 /\ ScoresCleared' =>
           ScoresCleared \/ tables'["threat_investigation"] = << >>
  PROVE  ScoredAreFed'
<1>1. (Clean' => Clean) /\ (~overlap' /\ ClearingDay' => api' = "idle")
  BY CleanBefore
<1>2. SUFFICES ASSUME Clean'
               PROVE  /\ \A r \in Scored' : r \in Unfed' \/ \E line \in Range(Before') : Fed(r, line)'
                      /\ ScoresCleared' => Scored' = {}
                      /\ api' = "put feedback" => Opened'
  BY <1>1 DEF ScoredAreFed
<1>3. Scored' \in {Scored, {}} /\ (tables'["threat_investigation"] = << >> => Scored' = {})
  BY DEF Scored, RowsOf, Range
<1>4. Before' = Before /\ \A r, line : Fed(r, line) => Fed(r, line)'
  BY DEF Before, Fed, Recorded
<1>5. Unfed' = Unfed /\ (api' = "put feedback" => api = "put feedback" /\ Opened' = Opened)
  <2>1. CASE UNCHANGED apiVars
    BY <2>1 DEF Unfed, Opened, apiVars, Recorded, DNSScored
  <2>2. CASE {api, api'} \cap {"list feedback", "put feedback"} = {}
    BY <2>2 DEF Unfed
  <2> QED BY <2>1, <2>2
<1>6. \A r \in Scored' : r \in Unfed' \/ \E line \in Range(Before') : Fed(r, line)'
  BY <1>1, <1>2, <1>3, <1>4, <1>5 DEF ScoredAreFed
<1>7. ScoresCleared' => Scored' = {}
  BY <1>1, <1>2, <1>3 DEF ScoredAreFed, Clean
<1>8. api' = "put feedback" => Opened'
  BY <1>1, <1>2, <1>5 DEF ScoredAreFed
<1> QED BY <1>6, <1>7, <1>8

\* Where a request is of a story in the making: what it has done is part of the story.
InStory == SavingComment \/ api = "dendro"

\* A step that takes nothing from a story, and adds nothing.
LEMMA StoriesStay ==
  ASSUME StoriesAreWhole, Recorded, Counted, CountedOn,
         ~ClearingDay' => ~ClearingDay \/ faults' # 0,
         stories' = stories, acked' \in {acked, {}},
         type = "dns" => tables'["threat_dendro"] = tables["threat_dendro"],
         type = "proxy" => tables'["timeline"] = tables["timeline"],
         StoriesCleared' => StoriesCleared \/ acked' = {},
         \/ UNCHANGED apiVars
         \/ /\ ~InStory' /\ api \notin {"delete timelines", "insert timelines"}
            /\ req'.expanded \in {req.expanded, << >>}
         \/ SavingComment /\ SavingComment' /\ UNCHANGED <<req.anchor, req.expanded>>
  PROVE  StoriesAreWhole'
<1>1. (Clean' => Clean) /\ (Clean' => ~overlap')
  BY CleanBefore DEF Clean
<1>2. << >> \in Seq(Conns)
  BY NoneIn
<1>3. type' = "dns" => /\ tables'["threat_dendro"] \in Seq([anchor : Anchors \cup {None}, conn : Conns])
                       /\ req'.expanded \in Seq(Conns)
                       /\ api' = "dendro" => req'.expanded # << >>
  BY <1>2 DEF StoriesAreWhole, Recorded, apiVars, InStory, SavingComment
<1>4. \A a : Whole(a) => Whole(a)'
  <2>1. type = "proxy" => \A a : TimelineKept(a) => TimelineKept(a)'
    BY DEF TimelineKept, RowsOf, apiVars, SavingComment
  <2>2. type = "dns" => \A a : DNSStory(a)' = DNSStory(a) /\ RowsOf("threat_dendro")' = RowsOf("threat_dendro")
    BY DEF DNSStory, DNSExpandedSearch, RowsOf
  <2> QED BY <2>1, <2>2 DEF Whole, Recorded
<1>5. SUFFICES ASSUME Clean'
      PROVE  /\ StoriesCleared' => acked' = {}
             /\ ~ClearingDay' => \A c \in acked' : Whole(c.anchor)'
             /\ SavingComment' => Whole(req.anchor)'
             /\ type' = "dns" /\ api' = "dendro" =>
                  DNSStory(req.anchor)' \subseteq RowsOf("threat_dendro")'
                    \cup {[anchor |-> req'.anchor, conn |-> c] : c \in Range(req'.expanded)}
  BY <1>3 DEF StoriesAreWhole
<1>6. StoriesCleared' => acked' = {}
  BY <1>1, <1>5 DEF StoriesAreWhole
<1>7. ~ClearingDay' => \A c \in acked' : Whole(c.anchor)'
  BY <1>1, <1>4, <1>5 DEF StoriesAreWhole, Clean
<1>8. SavingComment' => Whole(req.anchor)'
  <2>1. SavingComment' => SavingComment /\ req'.anchor = req.anchor
    BY DEF apiVars, InStory, SavingComment
  <2> QED BY <1>1, <1>4, <1>5, <2>1 DEF StoriesAreWhole, Whole
<1>9. api' = "dendro" => UNCHANGED apiVars
  BY DEF InStory, SavingComment
<1>10. type' = "dns" /\ api' = "dendro" =>
         DNSStory(req.anchor)' \subseteq RowsOf("threat_dendro")'
           \cup {[anchor |-> req'.anchor, conn |-> c] : c \in Range(req'.expanded)}
  <2>1. SUFFICES ASSUME type' = "dns", api' = "dendro"
                 PROVE  DNSStory(req.anchor)' \subseteq RowsOf("threat_dendro")'
                          \cup {[anchor |-> req'.anchor, conn |-> c] : c \in Range(req'.expanded)}
    OBVIOUS
  <2>2. /\ type = "dns" /\ api = "dendro" /\ req' = req
        /\ RowsOf("threat_dendro")' = RowsOf("threat_dendro")
        /\ DNSStory(req.anchor)' = DNSStory(req.anchor)
    BY <1>9, <2>1 DEF Recorded, apiVars, RowsOf, DNSStory, DNSExpandedSearch
  <2> QED BY <1>1, <1>5, <2>2 DEF StoriesAreWhole
<1> QED BY <1>6, <1>7, <1>8, <1>10

-----------------------------------------------------------------------------
(* The steps of a job, and what is said of the requests *)

\* A job clears the day up to the feedback file.
ClearsDay ==
  /\ CountedOn /\ DOMAIN tables' = Tables
  /\ oa' \in {"clear", "stories"}
  /\ \A t \in Watched : tables'[t] \in {tables[t], << >>}
  /\ acked' \in {acked, {}}
  /\ UNCHANGED <<local, stories>>
  /\ feedback' = feedback \/ (ScoresCleared /\ ClearingDay /\ feedback' = None)
  /\ undeleted' = 0 /\ ScoresCleared' => ScoresCleared \/ tables'["threat_investigation"] = << >>
  /\ StoriesCleared' => StoriesCleared \/ acked' = {}

\* It starts, or goes on from one directory to the next, of which the n-th is that
\* of the scores and the m-th that of the comments.
LEMMA JobClearsFrom ==
  ASSUME RequestInv(Anchors, Asked), JobInv, UNCHANGED apiVars,
         NEW list \in Seq(Tables \cup {Nowhere}), NEW n \in 1 .. Len(list), NEW m \in 1 .. Len(list),
         list[n] = "threat_investigation", list[m] = "storyboard",
         JobStarts \/ JobClears(list) \/ JobClearsFeedback(list)
  PROVE  /\ RequestInv(Anchors, Asked)'
         /\ CountedOn /\ DOMAIN tables' = Tables
         /\ oa' \in {"clear", "stories"}
         /\ \A t \in Tables : tables'[t] \in {tables[t], << >>}
         /\ acked' \in {acked, {}}
         /\ UNCHANGED <<local, stories>>
         /\ feedback' = feedback \/ (ClearedFrom(n) /\ ClearingDay /\ feedback' = None)
         /\ undeleted' = 0 /\ ClearedFrom(n)' =>
              ClearedFrom(n) \/ tables'["threat_investigation"] = << >>
         /\ ClearedFrom(m)' => ClearedFrom(m) \/ acked' = {}
<1>1. /\ Counted /\ DOMAIN tables = Tables /\ clearing \in Nat /\ (oa \in OAEnded => clearing = 0)
      /\ Len(list) \in Nat /\ {"storyboard", "threat_investigation"} \subseteq Tables
  BY DayAssumption DEF RequestInv, RequestTyped, JobInv, JobTyped
<1>2. CASE JobStarts
  <2>1. /\ oa' = "clear" /\ clearing' = 0 /\ Starts
        /\ UNCHANGED <<local, tables, stories, feedback, acked, cleared>>
    BY <1>1, <1>2 DEF JobStarts, fileVars, history
  <2>2. CountedOn
    BY <1>1, <2>1, OneIsCounted
  <2>3. RequestInv(Anchors, Asked)'
    BY <1>1, <2>1, <2>2, RequestStays
  <2>4. ~ClearedFrom(n)' /\ ~ClearedFrom(m)'
    BY <2>1 DEF ClearedFrom
  <2> QED BY <1>1, <2>1, <2>2, <2>3, <2>4
<1>3. CASE JobClears(list)
  <2>1. /\ oa = "clear" /\ oa' = "clear" /\ clearing < Len(list) /\ clearing' = clearing + 1
        /\ Clear(list[clearing + 1]) /\ UNCHANGED <<local, stories, feedback>>
    BY <1>3 DEF JobClears, fileVars
  <2>2. clearing + 1 \in 1 .. Len(list) /\ list[clearing + 1] \in Tables \cup {Nowhere}
    BY <1>1, <2>1
  <2>3. /\ DOMAIN tables' = Tables /\ CountedOn
        /\ \A u \in Tables : tables'[u] = tables[u] \/ tables'[u] = << >>
        /\ undeleted' = 0 => \A u \in Tables : u = list[clearing + 1] => tables'[u] = << >>
        /\ IF list[clearing + 1] = "storyboard" THEN acked' = {} ELSE acked' = acked
    BY <1>1, <2>1, <2>2, ClearEmpties
  <2>4. RequestInv(Anchors, Asked)'
    BY <2>1, <2>2, RequestStaysCleared
  <2>5. undeleted' = 0 /\ ClearedFrom(n)' =>
          ClearedFrom(n) \/ tables'["threat_investigation"] = << >>
    <3>1. ClearedFrom(n)' /\ ~ClearedFrom(n) => clearing + 1 = n
      BY <1>1, <2>1 DEF ClearedFrom
    <3> QED BY <1>1, <2>3, <3>1
  <2>6. ClearedFrom(m)' => ClearedFrom(m) \/ acked' = {}
    <3>1. ClearedFrom(m)' /\ ~ClearedFrom(m) => clearing + 1 = m
      BY <1>1, <2>1 DEF ClearedFrom
    <3> QED BY <2>3, <3>1
  <2> QED BY <2>1, <2>3, <2>4, <2>5, <2>6
<1>4. CASE JobClearsFeedback(list)
  <2>1. /\ oa = "clear" /\ clearing = Len(list) /\ oa' = "stories"
        /\ UNCHANGED <<local, tables, stories, acked, cleared>>
        /\ feedback' \in {feedback, None} /\ (Undeleted \/ UNCHANGED bounds)
    BY <1>4 DEF JobClearsFeedback, history
  <2>2. CountedOn
    BY <1>1, <2>1, OneIsCounted
  <2>3. RequestInv(Anchors, Asked)'
    BY <1>1, <2>1, <2>2, RequestStays
  <2>4. ClearedFrom(n) /\ ClearedFrom(m) /\ ClearingDay
    BY <1>1, <2>1 DEF ClearedFrom, ClearingDay
  <2> QED BY <1>1, <2>1, <2>2, <2>3, <2>4
<1> QED BY <1>2, <1>3, <1>4

\* ... which is to clear the day, of dns or of proxy.
LEMMA JobClearsDay ==
  ASSUME RequestInv(Anchors, Asked), JobInv, UNCHANGED apiVars, type \in Types, type' = type,
         \/ JobStarts
         \/ type = "dns" /\ (JobClears(DNSClearList) \/ JobClearsFeedback(DNSClearList))
         \/ type = "proxy" /\ (JobClears(ProxyClearList) \/ JobClearsFeedback(ProxyClearList)),
         type \in {"dns", "proxy"}
  PROVE  RequestInv(Anchors, Asked)' /\ ClearsDay
<1>1. CASE type = "dns"
  <2> DEFINE list == DNSClearList
  <2>1. /\ list \in Seq(Tables \cup {Nowhere}) /\ 5 \in 1 .. Len(list) /\ 6 \in 1 .. Len(list)
        /\ list[5] = "threat_investigation" /\ list[6] = "storyboard" /\ Watched \subseteq Tables
    <3>1. /\ DNSClearList \in Seq(Tables \cup {Nowhere}) /\ Len(DNSClearList) = 7
          /\ DNSClearList[5] = "threat_investigation" /\ DNSClearList[6] = "storyboard"
      BY <1>1, ListsAre
    <3>2. Watched \subseteq Tables
      BY <1>1, ListsAre DEF Watched, DNSTables
    <3> QED BY <3>1, <3>2
  <2>2. JobStarts \/ JobClears(list) \/ JobClearsFeedback(list)
    BY <1>1
  <2>3. ScoresCleared = ClearedFrom(5) /\ StoriesCleared = ClearedFrom(6)
        /\ ScoresCleared' = ClearedFrom(5)' /\ StoriesCleared' = ClearedFrom(6)'
    BY <1>1 DEF ScoresCleared, StoriesCleared, ClearedFrom
  <2> HIDE DEF list
  <2>4. /\ RequestInv(Anchors, Asked)'
        /\ CountedOn /\ DOMAIN tables' = Tables
        /\ oa' \in {"clear", "stories"}
        /\ \A t \in Tables : tables'[t] \in {tables[t], << >>}
        /\ acked' \in {acked, {}}
        /\ UNCHANGED <<local, stories>>
        /\ feedback' = feedback \/ (ClearedFrom(5) /\ ClearingDay /\ feedback' = None)
        /\ undeleted' = 0 /\ ClearedFrom(5)' =>
             ClearedFrom(5) \/ tables'["threat_investigation"] = << >>
        /\ ClearedFrom(6)' => ClearedFrom(6) \/ acked' = {}
    BY <2>1, <2>2, JobClearsFrom
  <2> QED BY <2>1, <2>3, <2>4 DEF ClearsDay
<1>2. CASE type = "proxy"
  <2> DEFINE list == ProxyClearList
  <2>1. /\ list \in Seq(Tables \cup {Nowhere}) /\ 3 \in 1 .. Len(list) /\ 5 \in 1 .. Len(list)
        /\ list[3] = "threat_investigation" /\ list[5] = "storyboard" /\ Watched \subseteq Tables
    <3>1. /\ ProxyClearList \in Seq(Tables \cup {Nowhere}) /\ Len(ProxyClearList) = 6
          /\ ProxyClearList[3] = "threat_investigation" /\ ProxyClearList[5] = "storyboard"
      BY <1>2, ListsAre
    <3>2. Watched \subseteq Tables
      BY <1>2, ListsAre DEF Watched, ProxyTables
    <3> QED BY <3>1, <3>2
  <2>2. JobStarts \/ JobClears(list) \/ JobClearsFeedback(list)
    BY <1>2
  <2>3. ScoresCleared = ClearedFrom(3) /\ StoriesCleared = ClearedFrom(5)
        /\ ScoresCleared' = ClearedFrom(3)' /\ StoriesCleared' = ClearedFrom(5)'
    BY <1>2 DEF ScoresCleared, StoriesCleared, ClearedFrom
  <2> HIDE DEF list
  <2>4. /\ RequestInv(Anchors, Asked)'
        /\ CountedOn /\ DOMAIN tables' = Tables
        /\ oa' \in {"clear", "stories"}
        /\ \A t \in Tables : tables'[t] \in {tables[t], << >>}
        /\ acked' \in {acked, {}}
        /\ UNCHANGED <<local, stories>>
        /\ feedback' = feedback \/ (ClearedFrom(3) /\ ClearingDay /\ feedback' = None)
        /\ undeleted' = 0 /\ ClearedFrom(3)' =>
             ClearedFrom(3) \/ tables'["threat_investigation"] = << >>
        /\ ClearedFrom(5)' => ClearedFrom(5) \/ acked' = {}
    BY <2>1, <2>2, JobClearsFrom
  <2> QED BY <2>1, <2>3, <2>4 DEF ClearsDay
<1> QED BY <1>1, <1>2

\* A job that goes on when it has cleared the day.
Cleared ==
  /\ CountedOn /\ DOMAIN tables' = Tables
  /\ \A t \in Watched \ {"suspicious"} : tables'[t] = tables[t]
  /\ UNCHANGED <<feedback, acked>>
  /\ oa' \notin {"clear", "stories"}
  /\ oa = "stories" \/ (stories' = stories /\ (faults' # 0 \/ ~ClearingDay))

\* Its steps from there keep what is said of requests.
LEMMA JobHasCleared ==
  ASSUME RequestInv(Anchors, Asked), JobInv, UNCHANGED apiVars, type \in Types, type' = type,
         type \in {"dns", "proxy"},
         \/ JobClearsStories \/ JobGetsResults
         \/ \E next \in {"details", "summary"} : JobInsertsScores(next)
         \/ Aside
  PROVE  RequestInv(Anchors, Asked)' /\ Cleared
<1>1. Counted /\ DOMAIN tables = Tables
  BY DEF RequestInv, RequestTyped
<1>2. Watched \subseteq Tables /\ {"suspicious", "storyboard"} \subseteq Watched
  BY ListsAre DEF Watched, DNSTables, ProxyTables
<1>3. /\ Cleared /\ tables'["storyboard"] = tables["storyboard"]
      /\ UNCHANGED <<acked, cleared>>
  <2>1. CASE JobClearsStories
    <3>1. /\ oa = "stories" /\ oa' = "results" /\ UNCHANGED <<tables, feedback, acked, cleared>>
          /\ Undeleted \/ UNCHANGED bounds
      BY <2>1 DEF JobClearsStories, history
    <3>2. CountedOn
      BY <1>1, <3>1, OneIsCounted
    <3> QED BY <1>1, <3>1, <3>2 DEF Cleared
  <2>2. CASE JobGetsResults
    <3>1. /\ oa = "results" /\ oa' \in {"idle", "scores"}
          /\ UNCHANGED <<tables, stories, feedback, acked, cleared>> /\ UNCHANGED bounds
      BY <2>2 DEF JobGetsResults, OAExit, storeVars, fileVars, history
    <3>2. CountedOn
      BY <1>1, <3>1, OneIsCounted
    <3> QED BY <1>1, <3>1, <3>2 DEF Cleared, ClearingDay
  <2>3. CASE \E next \in {"details", "summary"} : JobInsertsScores(next)
    <3>1. /\ oa = "scores" /\ oa' \in {"details", "summary"}
          /\ UNCHANGED <<stories, feedback, acked, cleared>> /\ UNCHANGED bounds
          /\ \E rows : Insert("suspicious", rows)
      BY <2>3 DEF JobInsertsScores, fileVars, history
    <3>2. CountedOn
      BY <1>1, <3>1, OneIsCounted
    <3>3. DOMAIN tables' = Tables /\ \A t \in Tables : t # "suspicious" => tables'[t] = tables[t]
      BY <1>1, <1>2, <3>1, InsertAppends
    <3> QED BY <1>2, <3>1, <3>2, <3>3 DEF Cleared, ClearingDay
  <2>4. CASE Aside
    BY <1>2, <2>4 DEF Aside, Cleared
  <2> QED BY <2>1, <2>2, <2>3, <2>4
<1>4. RequestInv(Anchors, Asked)'
  BY <1>3, RequestStays DEF Cleared
<1> QED BY <1>3, <1>4

\* No step of a job unsettles the timelines, the feedback or the stories.
LEMMA JobKeepsRequests ==
  ASSUME RequestInv(Anchors, Asked), Recorded, UNCHANGED apiVars, type \in {"dns", "proxy"},
         DayTyped, TimelinesOnce, ScoredAreFed, StoriesAreWhole,
         ClearsDay \/ Cleared
  PROVE  DayTyped' /\ TimelinesOnce' /\ ScoredAreFed' /\ StoriesAreWhole'
<1>1. Counted /\ CountedOn /\ api' = api /\ req' = req /\ type' = type
  BY DEF RequestInv, RequestTyped, ClearsDay, Cleared, apiVars, Recorded
<1>2. /\ "threat_investigation" \in Watched \ {"suspicious"}
      /\ type = "dns" => "threat_dendro" \in Watched \ {"suspicious"}
      /\ type = "proxy" => "timeline" \in Watched \ {"suspicious"}
  BY DEF Watched
<1>3. /\ \A t \in Watched \ {"suspicious"} : tables'[t] \in {tables[t], << >>}
      /\ feedback' \in {feedback, None}
  BY DEF ClearsDay, Cleared
<1>4. (Clean' => Clean) /\ (~overlap' /\ ClearingDay' => api' = "idle")
  BY <1>1, CleanBefore
<1>5. DayTyped'
  BY <1>1, <1>2, <1>3, DayTypedStays DEF Scoring
<1>6. TimelinesOnce'
  BY <1>1, <1>2, <1>3, TimelinesStay
<1>7. Cleared => ~ScoresCleared' /\ ~StoriesCleared' /\ ~ClearingDay'
  BY DEF Cleared, ScoresCleared, StoriesCleared, ClearedFrom, ClearingDay
<1>8. ScoredAreFed'
  <2>1. CASE feedback' = feedback
    <3>1. undeleted' = 0 /\ ScoresCleared' =>
            ScoresCleared \/ tables'["threat_investigation"] = << >>
      BY <1>7 DEF ClearsDay
    <3> QED BY <1>1, <1>2, <1>3, <2>1, <3>1, FedStays
  <2>2. CASE ScoresCleared /\ ClearingDay
    <3>1. SUFFICES ASSUME Clean' PROVE Scored' = {} /\ api' # "put feedback"
      BY <1>4 DEF ScoredAreFed
    <3>2. Scored = {} /\ api = "idle"
      BY <1>4, <2>2, <3>1 DEF ScoredAreFed, Clean
    <3>3. Scored' \in {Scored, {}}
      BY <1>2, <1>3 DEF Scored, RowsOf, Range
    <3> QED BY <1>1, <3>2, <3>3
  <2> QED BY <2>1, <2>2 DEF ClearsDay, Cleared
<1>9. type' = "dns" => /\ tables'["threat_dendro"] \in Seq([anchor : Anchors \cup {None}, conn : Conns])
                       /\ req'.expanded \in Seq(Conns)
                       /\ api' = "dendro" => req'.expanded # << >>
  <2>1. << >> \in Seq([anchor : Anchors \cup {None}, conn : Conns])
    BY NoneIn
  <2> QED BY <1>1, <1>2, <1>3, <2>1 DEF StoriesAreWhole
<1>10. StoriesAreWhole'
  <2>1. CASE ClearsDay
    <3>1. ClearingDay'
      BY <2>1 DEF ClearsDay, ClearingDay
    <3>2. Clean' => /\ api' = "idle" /\ (StoriesCleared' => acked' = {})
      BY <1>4, <2>1, <3>1 DEF Clean, ClearsDay, StoriesAreWhole
    <3> QED BY <1>9, <3>1, <3>2 DEF StoriesAreWhole, SavingComment
  <2>2. CASE Cleared /\ oa = "stories"
    <3>1. Clean' => api' = "idle" /\ acked' = {}
      BY <1>1, <1>4, <2>2
         DEF Cleared, Clean, ScoredAreFed, StoriesAreWhole, ClearingDay, StoriesCleared, ClearedFrom
    <3> QED BY <1>9, <3>1 DEF StoriesAreWhole, SavingComment
  <2>3. CASE Cleared /\ stories' = stories /\ (faults' # 0 \/ ~ClearingDay)
    <3>1. /\ acked' \in {acked, {}}
          /\ type = "dns" => tables'["threat_dendro"] = tables["threat_dendro"]
          /\ type = "proxy" => tables'["timeline"] = tables["timeline"]
      BY <1>2, <2>3 DEF Cleared
    <3> QED BY <1>1, <1>7, <2>3, <3>1, StoriesStay
  <2> QED BY <2>1, <2>2, <2>3 DEF Cleared
<1> QED BY <1>5, <1>6, <1>8, <1>10

\* The connections of rows, one after the other or as a set.
LEMMA ConnsOfIs ==
  /\ \A rows : ConnsOf(rows) = {r.conn : r \in Range(rows)}
  /\ ConnsOf(<< >>) = {}
  /\ Range(ShownConns) = ConnsOf(tables["suspicious"])
<1>1. \A rows : ConnsOf(rows) = {r.conn : r \in Range(rows)}
  BY DEF ConnsOf, Range
<1>2. ConnsOf(<< >>) = {}
  BY <1>1, NoneIn
<1>3. Range(ShownConns) = ConnsOf(tables["suspicious"])
  BY DEF ConnsOf, ShownConns, Range
<1> QED BY <1>1, <1>2, <1>3

\* Of the connections of rows that are added.
LEMMA ConnsAdded ==
  ASSUME NEW S, NEW old \in Seq(S), NEW new \in Seq(S)
  PROVE  ConnsOf(old \o new) = ConnsOf(old) \cup ConnsOf(new)
<1>1. Range(old \o new) = Range(old) \cup Range(new)
  BY ConcatIs
<1> QED BY <1>1, ConnsOfIs

\* The job takes the first of the results, if it has not taken them before.
LEMMA JobGetsUris ==
  ASSUME ScoredByUri, type' = type, UNCHANGED apiVars, JobGetsResults
  PROVE  ScoredByUri'
<1>1. SUFFICES ASSUME type = "proxy" PROVE ScoredByUri'
  BY DEF ScoredByUri
<1>2. /\ local' = Fetched /\ tables' = tables /\ req' = req
      /\ oa' = "scores" => local' # None /\ scores' = FirstRows(local'.rows)
  BY DEF JobGetsResults, OAExit, storeVars, apiVars
<1>3. CASE local # None
  <2>1. local' = local
    BY <1>2, <1>3 DEF Fetched
  <2>2. /\ tables["suspicious"] # << >> => Range(ShownConns) = Range(FirstRows(local.rows))
        /\ ShownConns' = ShownConns /\ FirstRows(local.rows)' = FirstRows(local.rows)
    BY <1>1, <1>2, <2>1 DEF ScoredByUri, ShownConns, FirstRows
  <2>3. Closed(ConnsOf(req.rows))' /\ Closed(ConnsOf(tables["threat_investigation"]))'
    <3>1. /\ ConnsOf(req.rows)' = ConnsOf(req.rows)
          /\ ConnsOf(tables["threat_investigation"])' = ConnsOf(tables["threat_investigation"])
      BY <1>2 DEF ConnsOf
    <3>2. \A conns : Closed(conns) => Closed(conns)'
      BY <2>1 DEF Closed, FirstRows
    <3>3. Closed(ConnsOf(req.rows)) /\ Closed(ConnsOf(tables["threat_investigation"]))
      BY <1>1 DEF ScoredByUri
    <3> QED BY <3>1, <3>2, <3>3 DEF Closed, FirstRows
  <2> QED BY <1>2, <1>3, <2>1, <2>2, <2>3 DEF ScoredByUri
<1>4. CASE local = None
  <2>1. /\ tables["suspicious"] = << >>
        /\ ConnsOf(req.rows) = {} /\ ConnsOf(tables["threat_investigation"]) = {}
    BY <1>1, <1>4 DEF ScoredByUri, Closed
  <2>2. /\ tables'["suspicious"] = << >>
        /\ ConnsOf(req.rows)' = {} /\ ConnsOf(tables["threat_investigation"])' = {}
    BY <1>2, <2>1 DEF ConnsOf
  <2>3. Closed({})'
    BY DEF Closed
  <2> QED BY <1>2, <2>2, <2>3 DEF ScoredByUri, Closed
<1> QED BY <1>3, <1>4

\* It shows them.
LEMMA JobShowsUris ==
  ASSUME ScoredByUri, type' = type, UNCHANGED apiVars, JobInv, DOMAIN tables = Tables,
         NEW next \in {"details", "summary"}, JobInsertsScores(next)
  PROVE  ScoredByUri'
<1>1. SUFFICES ASSUME type = "proxy" PROVE ScoredByUri'
  BY DEF ScoredByUri
<1> DEFINE old == tables["suspicious"]
           new == [i \in DOMAIN scores |-> [conn |-> scores[i], run |-> local.run]]
           found == FirstRows(local.rows)
<1>2. /\ oa = "scores" /\ oa' # "scores" /\ local' = local /\ req' = req
      /\ Insert("suspicious", new)
  BY DEF JobInsertsScores, apiVars
<1>3. local # None /\ scores = found /\ (old # << >> => Range(ShownConns) = Range(found))
  BY <1>1, <1>2 DEF ScoredByUri
<1>4. old \in Seq(ShownRows) /\ scores \in Seq(Conns) /\ local.run \in Nat
  BY <1>2 DEF JobInv, JobTyped, Copies
<1>5. new \in Seq(ShownRows) /\ ConnsOf(new) = Range(scores)
  <2>1. Len(scores) \in Nat /\ DOMAIN scores = 1 .. Len(scores)
        /\ \A i \in DOMAIN scores : scores[i] \in Conns
    BY <1>4
  <2>2. new \in [1 .. Len(scores) -> ShownRows]
    BY <1>4, <2>1 DEF ShownRows
  <2>3. \A i \in DOMAIN scores : new[i].conn = scores[i]
    OBVIOUS
  <2>4. DOMAIN new = DOMAIN scores
    OBVIOUS
  <2> HIDE DEF new
  <2>5. new \in Seq(ShownRows)
    BY <2>1, <2>2
  <2>6. ConnsOf(new) = Range(scores)
    BY <2>3, <2>4 DEF ConnsOf, Range
  <2> QED BY <2>5, <2>6
<1>6. /\ tables'["suspicious"] = old \o new
      /\ tables'["threat_investigation"] = tables["threat_investigation"]
  <2>1. {"suspicious", "threat_investigation"} \subseteq Tables
    BY DayAssumption
  <2> QED BY <1>2, <2>1, InsertAppends
<1> HIDE DEF new, found
<1>7. ConnsOf(old \o new) = Range(found)
  <2>1. ConnsOf(old \o new) = ConnsOf(old) \cup ConnsOf(new)
    BY <1>4, <1>5, ConnsAdded
  <2>2. ConnsOf(old) \in {{}, Range(found)}
    BY <1>3, ConnsOfIs
  <2> QED BY <1>3, <1>5, <2>1, <2>2
<1>8. Range(ShownConns)' = Range(found)
  <2>1. Range(ShownConns)' = ConnsOf(tables["suspicious"])'
    BY DEF ConnsOf, ShownConns, Range
  <2>2. ConnsOf(tables["suspicious"])' = ConnsOf(old \o new)
    BY <1>6 DEF ConnsOf
  <2> QED BY <1>7, <2>1, <2>2
<1>9. found' = found
  BY <1>2 DEF found, FirstRows
<1>10. Closed(ConnsOf(req.rows))' /\ Closed(ConnsOf(tables["threat_investigation"]))'
  BY <1>1, <1>2, <1>6 DEF ScoredByUri, Closed, ConnsOf
<1> QED BY <1>2, <1>3, <1>8, <1>9, <1>10 DEF ScoredByUri, found

\* Nor does a step of a job separate what is of one URI.
LEMMA JobKeepsUris ==
  ASSUME ScoredByUri, type' = type, UNCHANGED apiVars, JobInv, DOMAIN tables = Tables,
         type \in Types, type \in {"dns", "proxy"},
         \/ ClearsDay \/ JobClearsStories \/ JobGetsResults
         \/ \E next \in {"details", "summary"} : JobInsertsScores(next)
         \/ Aside
  PROVE  ScoredByUri'
<1>1. {"suspicious", "threat_investigation"} \subseteq Watched
  BY DEF Watched
<1>2. req' = req
  BY DEF apiVars
<1>3. CASE ClearsDay
  <2>1. /\ local' = local /\ oa' # "scores"
        /\ tables'["suspicious"] \in {tables["suspicious"], << >>}
        /\ tables'["threat_investigation"] \in {tables["threat_investigation"], << >>}
    BY <1>1, <1>3 DEF ClearsDay
  <2> QED BY <1>2, <2>1, UriStays
<1>4. CASE JobClearsStories
  <2>1. local' = local /\ oa' # "scores" /\ tables' = tables
    BY <1>4 DEF JobClearsStories
  <2> QED BY <1>2, <2>1, UriStays
<1>5. CASE Aside
  <2>1. /\ local' = local /\ oa' # "scores" /\ tables'["suspicious"] = tables["suspicious"]
        /\ tables'["threat_investigation"] = tables["threat_investigation"]
    BY <1>1, <1>5 DEF Aside
  <2> QED BY <1>2, <2>1, UriStays
<1> QED BY <1>3, <1>4, <1>5, JobGetsUris, JobShowsUris

\* What is said of requests stays when a step leaves the job and their tables alone.
LEMMA RequestsStay ==
  ASSUME DNSProxyDayInv, Recorded, Beside, UNCHANGED apiVars
  PROVE  /\ RequestInv(Anchors, Asked)' /\ DayTyped' /\ TimelinesOnce' /\ ScoredByUri'
         /\ ScoredAreFed' /\ StoriesAreWhole'
<1>1. /\ RequestInv(Anchors, Asked) /\ DayTyped /\ TimelinesOnce
      /\ ScoredByUri /\ ScoredAreFed /\ StoriesAreWhole /\ Counted
  BY DEF DNSProxyDayInv, RequestInv, RequestTyped
<1>2. /\ CountedOn /\ DOMAIN tables' = Tables
      /\ UNCHANGED <<oa, clearing, local, scores, stories, feedback, acked, cleared, api, req>>
      /\ type' = type
  BY DEF Beside, apiVars, Recorded
<1>3. /\ UNCHANGED <<tables["suspicious"], tables["threat_investigation"], tables["storyboard"]>>
      /\ type = "dns" => tables'["threat_dendro"] = tables["threat_dendro"]
      /\ type = "proxy" => tables'["timeline"] = tables["timeline"]
  BY DEF Beside, Watched
<1>4. RequestInv(Anchors, Asked)'
  BY <1>1, <1>2, <1>3, RequestStays
<1>5. DayTyped' /\ TimelinesOnce' /\ ScoredByUri'
  BY <1>1, <1>2, <1>3, DayTypedStays, TimelinesStay, UriStays DEF Scoring
<1>6. (ClearingDay' <=> ClearingDay) /\ (ScoresCleared' <=> ScoresCleared)
      /\ (StoriesCleared' <=> StoriesCleared)
  BY <1>2 DEF ClearingDay, ScoresCleared, StoriesCleared, ClearedFrom
<1>7. ScoredAreFed' /\ StoriesAreWhole'
  BY <1>1, <1>2, <1>3, <1>6, FedStays, StoriesStay
<1> QED BY <1>4, <1>5, <1>7

\* A step of the OA job.
LEMMA DayOAStep ==
  ASSUME DNSProxyDayInv, OAStep, Recorded
  PROVE  DNSProxyDayInv'
<1>1. /\ RequestInv(Anchors, Asked) /\ JobInv /\ DayTyped /\ DendroDrawn /\ TimelinesOnce
      /\ ScoredByUri /\ ScoredAreFed /\ StoriesAreWhole
      /\ Counted /\ DOMAIN tables = Tables /\ type \in Types
  BY DEF DNSProxyDayInv, RequestInv, RequestTyped, DayTyped
<1>2. /\ UNCHANGED apiVars /\ mlRun' = mlRun /\ type' = type /\ type \in {"dns", "proxy"}
      /\ (type = "dns" /\ DNSOAStep) \/ (type = "proxy" /\ ProxyOAStep)
  BY DEF OAStep, mlVars, Recorded
<1>3. JobInv' /\ DendroDrawn' /\ JobDoes
  <2>1. CASE type = "dns"
    BY <1>1, <1>2, <2>1, DNSPrepares, DNSInserts, DNSLeaves DEF DNSOAStep
  <2>2. CASE type = "proxy"
    BY <1>1, <1>2, <2>2, ProxySteps
  <2> QED BY <1>2, <2>1, <2>2
<1>4. /\ RequestInv(Anchors, Asked)' /\ DayTyped' /\ TimelinesOnce' /\ ScoredByUri'
      /\ ScoredAreFed' /\ StoriesAreWhole'
  <2>1. CASE \/ JobStarts
             \/ type = "dns" /\ (JobClears(DNSClearList) \/ JobClearsFeedback(DNSClearList))
             \/ type = "proxy" /\ (JobClears(ProxyClearList) \/ JobClearsFeedback(ProxyClearList))
    <3>1. RequestInv(Anchors, Asked)' /\ ClearsDay
      BY <1>1, <1>2, <2>1, JobClearsDay
    <3>2. ScoredByUri'
      BY <1>1, <1>2, <3>1, JobKeepsUris
    <3> QED BY <1>1, <1>2, <3>1, <3>2, JobKeepsRequests
  <2>2. CASE \/ JobClearsStories \/ JobGetsResults
             \/ \E next \in {"details", "summary"} : JobInsertsScores(next)
             \/ Aside
    <3>1. RequestInv(Anchors, Asked)' /\ Cleared
      BY <1>1, <1>2, <2>2, JobHasCleared
    <3>2. ScoredByUri'
      BY <1>1, <1>2, <2>2, <3>1, JobKeepsUris
    <3> QED BY <1>1, <1>2, <3>1, <3>2, JobKeepsRequests
  <2>3. CASE Beside
    BY <1>2, <2>3, RequestsStay
  <2> QED BY <1>3, <2>1, <2>2, <2>3 DEF JobDoes
<1> QED BY <1>3, <1>4 DEF DNSProxyDayInv

\* A step that is elsewhere: of the machine learning job, or none at all.
LEMMA DayElsewhere ==
  ASSUME DNSProxyDayInv, Recorded, CountedOn, JobInv',
         UNCHANGED <<tables, stories, feedback, acked, cleared>>,
         UNCHANGED jobVars, UNCHANGED dendroVars, UNCHANGED apiVars
  PROVE  DNSProxyDayInv'
<1>1. DendroDrawn /\ Counted /\ DOMAIN tables = Tables
  BY DEF DNSProxyDayInv, RequestInv, RequestTyped
<1>2. /\ UNCHANGED <<oa, clearing, local, scores, edges, missed, dendro, strayDendros>>
      /\ type' = type
  BY DEF jobVars, childVars, dendroVars, Recorded
<1>3. Beside
  BY <1>1, <1>2 DEF Beside
<1>4. /\ RequestInv(Anchors, Asked)' /\ DayTyped' /\ TimelinesOnce' /\ ScoredByUri'
      /\ ScoredAreFed' /\ StoriesAreWhole'
  BY <1>3, RequestsStay
<1>5. DendroDrawn'
  <2>1. CASE type = "dns"
    <3>1. /\ Showing' = Showing /\ ShownConns' = ShownConns
          /\ RowsOf("dendro")' = RowsOf("dendro")
      BY <1>2 DEF Showing, ShownConns, RowsOf
    <3> QED BY <1>1, <1>2, <2>1, <3>1, DendroStays DEF DendroDrawn
  <2>2. CASE type # "dns"
    BY <1>2, <2>2 DEF DendroDrawn
  <2> QED BY <2>1, <2>2
<1> QED BY <1>4, <1>5 DEF DNSProxyDayInv

-----------------------------------------------------------------------------
(* The requests *)

\* What a step of a request keeps.
RequestKeeps ==
  /\ Untouched /\ (type = "dns" => tables'["dendro"] = tables["dendro"])
  /\ RequestInv(Anchors, Asked)' /\ DayTyped' /\ TimelinesOnce' /\ ScoredByUri'
  /\ ScoredAreFed' /\ StoriesAreWhole'

\* What it needs, and does not change.
LEMMA DayIs ==
  ASSUME DNSProxyDayInv, Recorded, UNCHANGED jobVars
  PROVE  /\ RequestInv(Anchors, Asked) /\ JobInv /\ DayTyped /\ DendroDrawn /\ TimelinesOnce
         /\ ScoredByUri /\ ScoredAreFed /\ StoriesAreWhole
         /\ Counted /\ DOMAIN tables = Tables /\ req.rows \in Seq(ShownRows)
         /\ DOMAIN req = DOMAIN NoRequest /\ type \in Types
         /\ UNCHANGED <<oa, clearing, local, scores, edges, missed>> /\ type' = type
         /\ ClearingDay' <=> ClearingDay
         /\ ScoresCleared' <=> ScoresCleared
         /\ StoriesCleared' <=> StoriesCleared
<1>1. /\ RequestInv(Anchors, Asked) /\ JobInv /\ DayTyped /\ DendroDrawn /\ TimelinesOnce
      /\ ScoredByUri /\ ScoredAreFed /\ StoriesAreWhole
  BY DEF DNSProxyDayInv
<1>2. /\ Counted /\ DOMAIN tables = Tables /\ req.rows \in Seq(ShownRows)
      /\ DOMAIN req = DOMAIN NoRequest /\ type \in Types
  BY <1>1 DEF RequestInv, RequestTyped, CommentsInv, CommentsTyped, DayTyped
<1>3. UNCHANGED <<oa, clearing, local, scores, edges, missed>> /\ type' = type
  BY DEF jobVars, childVars, Recorded
<1>4. /\ ClearingDay' <=> ClearingDay
      /\ ScoresCleared' <=> ScoresCleared
      /\ StoriesCleared' <=> StoriesCleared
  BY <1>3 DEF ClearingDay, ScoresCleared, StoriesCleared, ClearedFrom
<1> QED BY <1>1, <1>2, <1>3, <1>4

\* Of the day's tables.
LEMMA TablesAre ==
  ASSUME type \in Types, type \in {"dns", "proxy"}
  PROVE  /\ {"suspicious", "edge", "threat_investigation", "storyboard", "summary"} \subseteq Tables
         /\ type = "dns" => {"dendro", "threat_dendro"} \subseteq Tables
         /\ type = "proxy" => "timeline" \in Tables
<1>1. {"suspicious", "edge", "threat_investigation", "storyboard", "summary"} \subseteq Tables
  BY DayAssumption
<1>2. type = "dns" => {"dendro", "threat_dendro"} \subseteq Tables
  BY ListsAre DEF DNSTables
<1>3. type = "proxy" => "timeline" \in Tables
  BY ListsAre DEF ProxyTables
<1> QED BY <1>1, <1>2, <1>3

\* Connections are selected to be scored, of proxy all that have the URI.
LEMMA SelectsKeeps ==
  ASSUME DNSProxyDayInv, Recorded, UNCHANGED jobVars, type \in {"dns", "proxy"},
         NEW chosen, NEW s \in Asked, Selects(chosen, s),
         s \in (IF type = "dns" THEN DNSCommands ELSE ProxySevs),
         type = "proxy" => \E uri : chosen = ProxyAsked(uri)
  PROVE  RequestKeeps
<1>1. RequestInv(Anchors, Asked) /\ JobInv
  BY DayIs
<1>2. /\ RequestInv(Anchors, Asked)' /\ Untouched /\ tables' = tables
      /\ UNCHANGED <<stories, feedback, acked, cleared>>
      /\ api = "idle" /\ api' = "insert scores"
      /\ req'.score = s /\ req'.tmp = << >> /\ req'.expanded = << >>
      /\ Range(req'.rows) = {r \in RowsOf("suspicious") : chosen[r.conn]}
  BY <1>1, SelectsStep
<1>3. CountedOn
  BY <1>2 DEF Untouched
<1>4. DayTyped'
  BY <1>2, DayIs DEF DayTyped, Scoring
<1>5. TimelinesOnce' /\ ScoredAreFed'
  BY <1>2, <1>3, DayIs, TimelinesStay, FedStays
<1>6. StoriesAreWhole'
  <2>1. ~InStory' /\ api \notin {"delete timelines", "insert timelines"}
    BY <1>2 DEF InStory, SavingComment
  <2> QED BY <1>2, <1>3, <2>1, DayIs, StoriesStay
<1>7. ScoredByUri'
  <2>1. SUFFICES ASSUME type = "proxy" PROVE ScoredByUri'
    BY DayIs DEF ScoredByUri
  <2>2. PICK uri : chosen = ProxyAsked(uri)
    BY <2>1
  <2>3. ConnsOf(req'.rows) = {r.conn : r \in {x \in RowsOf("suspicious") : chosen[x.conn]}}
    BY <1>2, ConnsOfIs
  <2>4. \A r \in RowsOf("suspicious") : r.conn \in Conns
    <3>1. tables["suspicious"] \in Seq(ShownRows)
      BY <1>1 DEF JobInv, JobTyped
    <3>2. \A r \in RowsOf("suspicious") : r \in ShownRows
      BY <3>1 DEF RowsOf, Range
    <3> QED BY <3>2 DEF ShownRows
  <2>5. ConnsOf(req'.rows) = {c \in ConnsOf(tables["suspicious"]) : Uri[c] = uri}
    <3>1. \A r \in RowsOf("suspicious") : chosen[r.conn] <=> Uri[r.conn] = uri
      BY <2>2, <2>4 DEF ProxyAsked
    <3>2. ConnsOf(tables["suspicious"]) = {r.conn : r \in RowsOf("suspicious")}
      BY ConnsOfIs DEF RowsOf
    <3> QED BY <2>3, <3>1, <3>2
  <2>6. tables["suspicious"] = << >> => ConnsOf(req'.rows) = {}
    BY <2>5, ConnsOfIs
  <2>7. tables["suspicious"] # << >> =>
          local # None /\ ConnsOf(tables["suspicious"]) = Range(FirstRows(local.rows))
    BY <2>1, DayIs, ConnsOfIs DEF ScoredByUri
  <2>8. Closed(ConnsOf(req'.rows))
    BY <2>5, <2>6, <2>7 DEF Closed
  <2>9. local' = local /\ oa' = oa /\ scores' = scores /\ tables' = tables
    BY <1>2, DayIs
  <2>10. Closed(ConnsOf(req.rows))'
    <3>1. ConnsOf(req.rows)' = ConnsOf(req'.rows)
      BY DEF ConnsOf
    <3> QED BY <2>8, <2>9, <3>1 DEF Closed, FirstRows
  <2>11. Closed(ConnsOf(tables["threat_investigation"]))'
    <3>1. Closed(ConnsOf(tables["threat_investigation"]))
      BY <2>1, DayIs DEF ScoredByUri
    <3>2. ConnsOf(tables["threat_investigation"])' = ConnsOf(tables["threat_investigation"])
      BY <2>9 DEF ConnsOf
    <3> QED BY <2>9, <3>1, <3>2 DEF Closed, FirstRows
  <2>12. /\ oa' = "scores" => local' # None /\ scores' = FirstRows(local.rows)'
         /\ tables'["suspicious"] # << >> =>
              local' # None /\ Range(ShownConns)' = Range(FirstRows(local.rows))'
    BY <2>1, <2>9, DayIs DEF ScoredByUri, ShownConns, FirstRows
  <2> QED BY <2>10, <2>11, <2>12 DEF ScoredByUri
<1> QED BY <1>2, <1>4, <1>5, <1>6, <1>7 DEF RequestKeeps

\* What is inserted for a row that was selected.
ScoredRow(r) == IF type = "dns" THEN DNSScored(r.conn)
                ELSE [conn |-> r.conn, uri_sev |-> req.score]

ScoredAs == IF type = "dns" THEN [c \in Conns |-> DNSScored(c)]
            ELSE [c \in Conns |-> [conn |-> c, uri_sev |-> req.score]]

\* It is a row of the scores, of the same connection.
LEMMA ScoredRowIs ==
  ASSUME DayTyped, Scoring, type \in {"dns", "proxy"}, NEW r \in ShownRows
  PROVE  /\ ScoredRow(r) \in ScoredRows /\ ScoredRow(r).conn = r.conn
         /\ ScoredAs[r.conn] = ScoredRow(r)
<1>1. r.conn \in Conns
  BY DEF ShownRows
<1>2. CASE type = "dns"
  <2>1. req.score \in DNSCommands
    BY <1>2 DEF DayTyped
  <2>2. req.score.ip_sev \in DNSSevs \cup {0} /\ req.score.dns_sev \in DNSSevs \cup {0}
    BY <2>1 DEF DNSCommands
  <2>3. /\ DNSScored(r.conn) \in [conn : Conns, ip_sev : DNSSevs \cup {0}, dns_sev : DNSSevs \cup {0}]
        /\ DNSScored(r.conn).conn = r.conn
    BY <1>1, <2>2 DEF DNSScored
  <2> QED BY <1>1, <1>2, <2>3 DEF ScoredRow, ScoredAs, ScoredRows
<1>3. CASE type = "proxy"
  <2>1. req.score \in ProxySevs
    BY <1>3 DEF DayTyped
  <2>2. /\ [conn |-> r.conn, uri_sev |-> req.score] \in [conn : Conns, uri_sev : ProxySevs]
        /\ [conn |-> r.conn, uri_sev |-> req.score].conn = r.conn
    BY <1>1, <2>1
  <2> QED BY <1>1, <1>3, <2>2 DEF ScoredRow, ScoredAs, ScoredRows
<1> QED BY <1>2, <1>3

\* The scores are inserted.
LEMMA InsertsKeeps ==
  ASSUME DNSProxyDayInv, Recorded, UNCHANGED jobVars, type \in {"dns", "proxy"},
         InsertsScored(ScoredAs)
  PROVE  RequestKeeps
<1> DEFINE old == tables["threat_investigation"]
           new == [i \in DOMAIN req.rows |-> ScoredAs[req.rows[i].conn]]
<1>1. RequestInv(Anchors, Asked)
  BY DayIs
<1>2. /\ RequestInv(Anchors, Asked)' /\ Untouched /\ req' = req
      /\ UNCHANGED <<stories, feedback, acked, cleared>>
      /\ api = "insert scores" /\ api' = "list feedback"
      /\ tables'["threat_investigation"] = old \o new
      /\ \A u \in Tables : u # "threat_investigation" => tables'[u] = tables[u]
  BY <1>1, InsertsScoredStep
<1>3. /\ type = "dns" => tables'["dendro"] = tables["dendro"]
      /\ type = "dns" => tables'["threat_dendro"] = tables["threat_dendro"]
      /\ type = "proxy" => tables'["timeline"] = tables["timeline"]
      /\ tables'["suspicious"] = tables["suspicious"]
      /\ CountedOn
  BY <1>2, DayIs, TablesAre DEF Untouched
<1>4. Scoring /\ Scoring' /\ old \in Seq(ScoredRows) /\ Len(req.rows) \in Nat
      /\ DOMAIN req.rows = 1 .. Len(req.rows) /\ \A i \in DOMAIN req.rows : req.rows[i] \in ShownRows
  <2>1. Scoring /\ Scoring'
    BY <1>2 DEF Scoring
  <2>2. old \in Seq(ScoredRows)
    BY DayIs DEF DayTyped
  <2>3. req.rows \in Seq(ShownRows)
    BY DayIs
  <2> QED BY <2>1, <2>2, <2>3
<1>5. /\ new \in Seq(ScoredRows) /\ DOMAIN new = DOMAIN req.rows
      /\ \A i \in DOMAIN req.rows : new[i] = ScoredRow(req.rows[i]) /\ new[i].conn = req.rows[i].conn
  <2>1. \A i \in DOMAIN req.rows : /\ ScoredAs[req.rows[i].conn] \in ScoredRows
                                   /\ ScoredAs[req.rows[i].conn] = ScoredRow(req.rows[i])
                                   /\ ScoredAs[req.rows[i].conn].conn = req.rows[i].conn
    BY <1>4, DayIs, ScoredRowIs
  <2>2. /\ new \in [1 .. Len(req.rows) -> ScoredRows] /\ DOMAIN new = DOMAIN req.rows
        /\ \A i \in DOMAIN req.rows : new[i] = ScoredRow(req.rows[i]) /\ new[i].conn = req.rows[i].conn
    BY <1>4, <2>1
  <2> HIDE DEF new
  <2> QED BY <1>4, <2>2
<1> HIDE DEF old, new
<1>6. old \o new \in Seq(ScoredRows) /\ Range(old \o new) = Range(old) \cup Range(new)
      /\ ConnsOf(old \o new) = ConnsOf(old) \cup ConnsOf(req.rows)
  <2>1. ConnsOf(new) = ConnsOf(req.rows)
    BY <1>5 DEF ConnsOf
  <2>2. ConnsOf(old \o new) = ConnsOf(old) \cup ConnsOf(new)
    BY <1>4, <1>5, ConnsAdded
  <2> QED BY <1>4, <1>5, <2>1, <2>2, ConcatIs
<1>7. DayTyped'
  BY <1>2, <1>4, <1>6, DayIs DEF DayTyped
<1>8. TimelinesOnce'
  BY <1>2, <1>3, DayIs, TimelinesStay
<1>9. StoriesAreWhole'
  <2>1. ~InStory' /\ api \notin {"delete timelines", "insert timelines"}
    BY <1>2 DEF InStory, SavingComment
  <2> QED BY <1>2, <1>3, <2>1, DayIs, StoriesStay
<1>10. ScoredByUri'
  <2>1. SUFFICES ASSUME type = "proxy" PROVE ScoredByUri'
    BY DayIs DEF ScoredByUri
  <2>2. Closed(ConnsOf(req.rows)) /\ Closed(ConnsOf(old))
    BY <2>1, DayIs DEF ScoredByUri, old
  <2>3. Closed(ConnsOf(old \o new))
    BY <1>6, <2>2 DEF Closed
  <2>4. \A conns : Closed(conns) => Closed(conns)'
    BY DayIs DEF Closed, FirstRows
  <2>5. ConnsOf(req.rows)' = ConnsOf(req.rows)
        /\ ConnsOf(tables["threat_investigation"])' = ConnsOf(old \o new)
    BY <1>2 DEF ConnsOf
  <2>6. Closed(ConnsOf(req.rows))' /\ Closed(ConnsOf(tables["threat_investigation"]))'
    BY <2>2, <2>3, <2>4, <2>5 DEF Closed, FirstRows
  <2>7. /\ oa' = "scores" => local' # None /\ scores' = FirstRows(local.rows)'
        /\ tables'["suspicious"] # << >> =>
             local' # None /\ Range(ShownConns)' = Range(FirstRows(local.rows))'
    BY <1>3, <2>1, DayIs DEF ScoredByUri, ShownConns, FirstRows
  <2> QED BY <2>6, <2>7 DEF ScoredByUri
<1>11. ScoredAreFed'
  <2>1. (Clean' => Clean) /\ (~overlap' /\ ClearingDay' => api' = "idle")
    BY <1>3, DayIs, CleanBefore
  <2>2. SUFFICES ASSUME Clean'
                 PROVE  /\ \A r \in Scored' : r \in Unfed' \/ \E line \in Range(Before') : Fed(r, line)'
                        /\ ~ScoresCleared'
    BY <1>2, <2>1 DEF ScoredAreFed
  <2>3. ~ScoresCleared'
    <3>1. ScoresCleared' => ClearingDay'
      BY DEF ScoresCleared, ClearedFrom, ClearingDay
    <3> QED BY <1>2, <2>1, <2>2, <3>1 DEF Clean
  <2>4. Scored' = Scored \cup Range(new)
    BY <1>2, <1>6 DEF Scored, RowsOf, old
  <2>5. Unfed = {}
    BY <1>2 DEF Unfed
  <2>6. Before' = Before /\ \A r, line : Fed(r, line) => Fed(r, line)'
    BY <1>2, DayIs DEF Before, Fed
  <2>7. Range(new) \subseteq Unfed'
    <3>0. api' \in {"list feedback", "put feedback"} /\ req' = req /\ type' = type
      BY <1>2, DayIs
    <3>1. Unfed' = {ScoredRow(req.rows[i]) : i \in DOMAIN req.rows}
      BY <3>0 DEF Unfed, ScoredRow, DNSScored
    <3> QED BY <1>5, <3>1 DEF Range
  <2>8. \A r \in Scored' : r \in Unfed' \/ \E line \in Range(Before') : Fed(r, line)'
    BY <2>1, <2>2, <2>4, <2>5, <2>6, <2>7, DayIs DEF ScoredAreFed
  <2> QED BY <2>3, <2>8
<1> QED BY <1>2, <1>3, <1>7, <1>8, <1>9, <1>10, <1>11 DEF RequestKeeps

\* The feedback file is looked for.
LEMMA ListKeeps ==
  ASSUME DNSProxyDayInv, Recorded, UNCHANGED jobVars, type \in {"dns", "proxy"}, ListFeedback
  PROVE  RequestKeeps
<1>1. RequestInv(Anchors, Asked)
  BY DayIs
<1>2. /\ RequestInv(Anchors, Asked)' /\ Untouched /\ tables' = tables
      /\ UNCHANGED <<stories, feedback, acked, cleared>>
      /\ api = "list feedback" /\ api' = "put feedback"
      /\ UNCHANGED <<req.score, req.rows, req.anchor, req.tmp, req.expanded>>
      /\ faults' = 0 => (req'.append_file <=> feedback # None)
  BY <1>1, ListFeedbackStep
<1>3. CountedOn
  BY <1>2 DEF Untouched
<1>4. DayTyped' /\ TimelinesOnce'
  BY <1>2, <1>3, DayIs, DayTypedStays, TimelinesStay DEF Scoring
<1>5. ScoredByUri'
  BY <1>2, DayIs, UriStays
<1>6. StoriesAreWhole'
  <2>1. ~InStory' /\ api \notin {"delete timelines", "insert timelines"}
    BY <1>2 DEF InStory, SavingComment
  <2> QED BY <1>2, <1>3, <2>1, DayIs, StoriesStay
<1>7. ScoredAreFed'
  <2>1. (Clean' => Clean) /\ (~overlap' /\ ClearingDay' => api' = "idle")
    BY <1>3, DayIs, CleanBefore
  <2>2. Scored' = Scored /\ Before' = Before /\ \A r, line : Fed(r, line) => Fed(r, line)'
    BY <1>2, DayIs DEF Scored, RowsOf, Before, Fed
  <2>3. Unfed' = Unfed
    <3>1. Unfed = {ScoredRow(req.rows[i]) : i \in DOMAIN req.rows}
      BY <1>2 DEF Unfed, ScoredRow
    <3>2. Unfed' = {ScoredRow(req.rows[i])' : i \in DOMAIN req.rows}
      BY <1>2 DEF Unfed, ScoredRow
    <3>3. \A i \in DOMAIN req.rows : ScoredRow(req.rows[i])' = ScoredRow(req.rows[i])
      BY <1>2, DayIs DEF ScoredRow, DNSScored
    <3> QED BY <3>1, <3>2, <3>3
  <2>4. Clean' => Opened'
    BY <1>2 DEF Clean, Opened
  <2> QED BY <2>1, <2>2, <2>3, <2>4, DayIs DEF ScoredAreFed
<1> QED BY <1>2, <1>4, <1>5, <1>6, <1>7 DEF RequestKeeps

\* The line that is written for a row.
FeedbackLine(r) == IF type = "dns" THEN DNSLine(r.conn) ELSE ProxyLine(r.conn)

FeedbackRows == [i \in DOMAIN req.rows |-> FeedbackLine(req.rows[i])]

FeedbackOf == (IF req.append_file THEN << >> ELSE << Header >>) \o FeedbackRows

\* It says of the connection what its row in the table does, or more.
LEMMA FeedbackLineIs ==
  ASSUME DayTyped, Scoring, type \in {"dns", "proxy"}, NEW r \in ShownRows
  PROVE  FeedbackLine(r) \in DayLines /\ Fed(ScoredRow(r), FeedbackLine(r))
<1>1. r.conn \in Conns
  BY DEF ShownRows
<1>2. CASE type = "dns"
  <2>1. req.score \in DNSCommands
    BY <1>2 DEF DayTyped
  <2>2. req.score.ip_sev \in DNSSevs \cup {0} /\ req.score.dns_sev \in DNSSevs \cup {0}
    BY <2>1 DEF DNSCommands
  <2> DEFINE sev == [ip |-> req.score.ip_sev, dns |-> req.score.dns_sev]
  <2>3. sev \in [ip : DNSSevs \cup {0}, dns : DNSSevs \cup {0}]
    BY <2>2
  <2>4. sev.ip = req.score.ip_sev /\ sev.dns = req.score.dns_sev
    OBVIOUS
  <2>5. FeedbackLine(r) = Line(sev, r.conn)
    BY <1>2 DEF FeedbackLine, DNSLine
  <2> HIDE DEF sev
  <2>6. FeedbackLine(r) \in DayLines
    BY <1>1, <2>3, <2>5 DEF Line, DayLines
  <2>7. /\ ScoredRow(r).conn = r.conn
        /\ ScoredRow(r).ip_sev \in {0, req.score.ip_sev}
        /\ ScoredRow(r).dns_sev \in {0, req.score.dns_sev}
    BY <1>2 DEF ScoredRow, DNSScored
  <2>8. FeedbackLine(r).conn = r.conn /\ FeedbackLine(r).sev = sev
    BY <2>5 DEF Line
  <2> QED BY <1>2, <2>4, <2>6, <2>7, <2>8 DEF Fed
<1>3. CASE type = "proxy"
  <2>1. req.score \in ProxySevs
    BY <1>3 DEF DayTyped
  <2> DEFINE sev == [score |-> req.score, uri_sev |-> Reputation]
  <2>2. sev \in [score : ProxySevs, uri_sev : {Reputation}] /\ sev.score = req.score
    BY <2>1
  <2>3. /\ FeedbackLine(r) = Line(sev, r.conn)
        /\ ScoredRow(r) = [conn |-> r.conn, uri_sev |-> req.score]
    BY <1>3 DEF FeedbackLine, ProxyLine, ScoredRow
  <2> HIDE DEF sev
  <2>4. FeedbackLine(r) \in DayLines
    BY <1>1, <2>2, <2>3 DEF Line, DayLines
  <2> QED BY <1>3, <2>2, <2>3, <2>4 DEF Fed, Line
<1> QED BY <1>2, <1>3

\* What is written are lines, and there is one for each row.
LEMMA FeedbackOfIs ==
  ASSUME DayTyped, Scoring, type \in {"dns", "proxy"}, req.rows \in Seq(ShownRows)
  PROVE  /\ FeedbackOf \in Seq(DayLines)
         /\ \A i \in DOMAIN req.rows : FeedbackLine(req.rows[i]) \in Range(FeedbackOf)
<1>1. /\ Len(req.rows) \in Nat /\ DOMAIN req.rows = 1 .. Len(req.rows)
      /\ \A i \in DOMAIN req.rows : req.rows[i] \in ShownRows
  OBVIOUS
<1>2. \A i \in DOMAIN req.rows : FeedbackLine(req.rows[i]) \in DayLines
  BY <1>1, FeedbackLineIs
<1>3. FeedbackRows \in Seq(DayLines)
  <2>1. FeedbackRows \in [1 .. Len(req.rows) -> DayLines]
    BY <1>1, <1>2 DEF FeedbackRows
  <2> QED BY <1>1, <2>1
<1>4. \A i \in DOMAIN req.rows : FeedbackLine(req.rows[i]) \in Range(FeedbackRows)
  BY DEF FeedbackRows, Range
<1>5. Header \in DayLines
  BY DEF Header, Line, DayLines
<1> DEFINE lead == IF req.append_file THEN << >> ELSE << Header >>
<1>6. lead \in Seq(DayLines)
  <2>1. << >> \in Seq(DayLines) /\ << Header >> \in Seq(DayLines)
    BY <1>5
  <2> QED BY <2>1
<1>7. FeedbackOf = lead \o FeedbackRows
  BY DEF FeedbackOf
<1> HIDE DEF lead
<1>8. /\ lead \o FeedbackRows \in Seq(DayLines)
      /\ Range(lead \o FeedbackRows) = Range(lead) \cup Range(FeedbackRows)
  BY <1>3, <1>6, ConcatIs
<1> QED BY <1>4, <1>7, <1>8

\* It is written, and the request ends.
LEMMA PutKeeps ==
  ASSUME DNSProxyDayInv, Recorded, UNCHANGED jobVars, type \in {"dns", "proxy"},
         PutsFeedback(FeedbackOf)
  PROVE  RequestKeeps
<1>1. RequestInv(Anchors, Asked) /\ api = "put feedback" /\ Counted
  BY DayIs DEF PutsFeedback
<1>2. /\ RequestInv(Anchors, Asked)' /\ Untouched /\ tables' = tables
      /\ UNCHANGED <<stories, acked, cleared>>
      /\ api' = "idle" /\ req' = NoRequest
  BY <1>1, PutFeedbackStep
<1>3. /\ FeedbackOf \in Seq(DayLines)
      /\ \A i \in DOMAIN req.rows : FeedbackLine(req.rows[i]) \in Range(FeedbackOf)
  BY <1>1, DayIs, FeedbackOfIs DEF Scoring
<1>4. feedback \in Seq(DayLines) \cup {None}
  BY DayIs DEF DayTyped
<1>5. /\ feedback' \in Seq(DayLines) \cup {None}
      /\ \/ feedback' = feedback /\ (Opened => faults' # 0)
         \/ /\ Opened
            /\ \E n \in 0 .. Len(FeedbackOf) :
                 /\ feedback' = Before \o SubSeq(FeedbackOf, 1, n)
                 /\ n # Len(FeedbackOf) => faults' # 0
  BY <1>1, <1>3, <1>4, PutsFeedbackStep
<1>6. CountedOn /\ req'.rows = << >> /\ req'.tmp = << >> /\ req'.expanded = << >>
  BY <1>2, NoRequestIs DEF Untouched
<1>7. DayTyped'
  BY <1>2, <1>5, DayIs DEF DayTyped, Scoring
<1>8. TimelinesOnce' /\ ScoredByUri'
  BY <1>2, <1>6, DayIs, TimelinesStay, UriStays
<1>9. StoriesAreWhole'
  <2>1. ~InStory' /\ api \notin {"delete timelines", "insert timelines"}
    BY <1>1, <1>2 DEF InStory, SavingComment
  <2> QED BY <1>2, <1>6, <2>1, DayIs, StoriesStay
<1>10. ScoredAreFed'
  <2>1. (Clean' => Clean) /\ (~overlap' /\ ClearingDay' => api' = "idle")
    BY <1>6, DayIs, CleanBefore
  <2>2. SUFFICES ASSUME Clean'
                 PROVE  /\ \A r \in Scored' : \E line \in Range(Before') : Fed(r, line)'
                        /\ ScoresCleared' => Scored' = {}
    BY <1>2, <2>1 DEF ScoredAreFed
  <2>3. Clean /\ Opened /\ faults' = 0
    BY <1>1, <2>1, <2>2, DayIs DEF ScoredAreFed, Clean
  <2>4. feedback' = Before \o FeedbackOf /\ Before \in Seq(DayLines)
    <3>1. Len(FeedbackOf) \in Nat /\ SubSeq(FeedbackOf, 1, Len(FeedbackOf)) = FeedbackOf
      BY <1>3
    <3>2. << >> \in Seq(DayLines)
      BY NoneIn
    <3> QED BY <1>4, <1>5, <2>3, <3>1, <3>2 DEF Before
  <2>5. Before' = Before \o FeedbackOf /\ Range(Before') = Range(Before) \cup Range(FeedbackOf)
    <3>1. Before \o FeedbackOf \in Seq(DayLines)
          /\ Range(Before \o FeedbackOf) = Range(Before) \cup Range(FeedbackOf)
      BY <1>3, <2>4, ConcatIs
    <3>2. feedback' # None
      BY <2>4, <3>1, FileAssumption
    <3> QED BY <2>4, <3>1, <3>2 DEF Before
  <2>6. Scored' = Scored /\ \A r, line : Fed(r, line) => Fed(r, line)'
    BY <1>2, DayIs DEF Scored, RowsOf, Fed
  <2>7. \A r \in Unfed : \E line \in Range(FeedbackOf) : Fed(r, line)
    <3>1. Unfed = {ScoredRow(req.rows[i]) : i \in DOMAIN req.rows}
      BY <1>1 DEF Unfed, ScoredRow
    <3>2. \A i \in DOMAIN req.rows : Fed(ScoredRow(req.rows[i]), FeedbackLine(req.rows[i]))
      <4>1. \A i \in DOMAIN req.rows : req.rows[i] \in ShownRows
        <5>1. req.rows \in Seq(ShownRows)
          BY DayIs
        <5> QED BY <5>1
      <4> QED BY <1>1, <4>1, DayIs, FeedbackLineIs DEF Scoring
    <3> QED BY <1>3, <3>1, <3>2
  <2>8. \A r \in Scored' : \E line \in Range(Before') : Fed(r, line)'
    <3>1. \A r \in Scored : r \in Unfed \/ \E line \in Range(Before) : Fed(r, line)
      BY <2>3, DayIs DEF ScoredAreFed
    <3> QED BY <2>5, <2>6, <2>7, <3>1
  <2>9. ScoresCleared' => Scored' = {}
    BY <2>3, <2>6, DayIs DEF ScoredAreFed
  <2> QED BY <2>8, <2>9
<1> QED BY <1>2, <1>7, <1>8, <1>9, <1>10 DEF RequestKeeps

\* A request that is of no scores and of no story, and changes only what may be reset.
LEMMA OthersKeep ==
  ASSUME DNSProxyDayInv, Recorded, UNCHANGED jobVars, type \in {"dns", "proxy"},
         RequestInv(Anchors, Asked)', Untouched, UNCHANGED <<stories, feedback>>,
         tables'["threat_investigation"] \in {tables["threat_investigation"], << >>},
         type = "dns" => tables'["dendro"] = tables["dendro"],
         type = "dns" => tables'["threat_dendro"] = tables["threat_dendro"],
         type = "proxy" => tables'["timeline"] = tables["timeline"],
         acked' \in {acked, {}},
         {api, api'} \subseteq {"idle", "reset", "incident progression"},
         UNCHANGED <<req.tmp, req.rows, req.expanded>>
           \/ (req'.tmp = << >> /\ req'.rows = << >> /\ req'.expanded = << >>)
  PROVE  RequestKeeps
<1>1. CountedOn
  BY DEF Untouched
<1>2. DayTyped'
  BY DayIs, DayTypedStays DEF Scoring
<1>3. TimelinesOnce'
  BY <1>1, DayIs, TimelinesStay
<1>4. ScoredByUri'
  BY DayIs, UriStays DEF Untouched
<1>5. ScoredAreFed'
  BY <1>1, DayIs, FedStays
<1>6. StoriesAreWhole'
  <2>1. ~InStory' /\ api \notin {"delete timelines", "insert timelines"}
    BY DEF InStory, SavingComment
  <2> QED BY <1>1, <2>1, DayIs, StoriesStay
<1> QED BY <1>2, <1>3, <1>4, <1>5, <1>6 DEF RequestKeeps

\* A reset, and a story of proxy that is begun.
LEMMA ResetsKeep ==
  ASSUME DNSProxyDayInv, Recorded, UNCHANGED jobVars, type \in {"dns", "proxy"},
         \/ Resets \/ ResetsNext(DNSResetList) \/ ResetsNext(ProxyResetList)
         \/ \E uri \in Uris, t \in Texts : ProxyCreateStoryboard(uri, t)
  PROVE  RequestKeeps
<1>1. RequestInv(Anchors, Asked)
  BY DayIs
<1>2. /\ type = "dns" => {"dendro", "threat_dendro"} \subseteq Tables
      /\ type = "proxy" => "timeline" \in Tables
      /\ {"storyboard", "threat_investigation"} \subseteq Tables
  BY DayIs, TablesAre
<1>3. CASE Resets
  <2>1. /\ RequestInv(Anchors, Asked)' /\ Untouched
        /\ api = "idle" /\ api' = "reset" /\ req' = NoRequest
        /\ UNCHANGED <<tables, stories, feedback, acked, cleared>>
    BY <1>1, <1>3, ResetsStep
  <2>2. req'.tmp = << >> /\ req'.rows = << >> /\ req'.expanded = << >>
    BY <2>1, NoRequestIs
  <2> QED BY <2>1, <2>2, OthersKeep
<1>4. CASE ResetsNext(DNSResetList) \/ ResetsNext(ProxyResetList)
  <2> DEFINE T == {"storyboard", Nowhere, "threat_investigation"}
  <2>1. /\ T \in SUBSET (Tables \cup {Nowhere}) /\ "suspicious" \notin T /\ "edge" \notin T
        /\ Len(DNSResetList) = 3 /\ \A i \in 1 .. 3 : DNSResetList[i] \in T
        /\ DNSResetList = ProxyResetList /\ {"dendro", "threat_dendro", "timeline"} \cap T = {}
    BY <1>2 DEF DNSResetList, ProxyResetList, Nowhere
  <2>2. ResetsNext(DNSResetList)
    BY <1>4, <2>1
  <2> HIDE DEF T
  <2>3. /\ RequestInv(Anchors, Asked)' /\ Untouched
        /\ api = "reset" /\ api' \in {"reset", "idle"} /\ (api' = "idle" => req' = NoRequest)
        /\ UNCHANGED <<stories, feedback>>
        /\ UNCHANGED <<req.anchor, req.rows, req.tmp, req.expanded, req.score>> \/ req' = NoRequest
        /\ \A u \in Tables : tables'[u] = tables[u] \/ (u \in T /\ tables'[u] = << >>)
        /\ acked' \in {acked, {}}
    BY <1>1, <2>1, <2>2, ResetsNextStep
  <2>4. /\ tables'["threat_investigation"] \in {tables["threat_investigation"], << >>}
        /\ type = "dns" => tables'["dendro"] = tables["dendro"]
        /\ type = "dns" => tables'["threat_dendro"] = tables["threat_dendro"]
        /\ type = "proxy" => tables'["timeline"] = tables["timeline"]
    BY <1>2, <2>1, <2>3
  <2>5. UNCHANGED <<req.tmp, req.rows, req.expanded>>
          \/ (req'.tmp = << >> /\ req'.rows = << >> /\ req'.expanded = << >>)
    BY <2>3, NoRequestIs
  <2> QED BY <2>3, <2>4, <2>5, OthersKeep
<1>5. CASE \E uri \in Uris, t \in Texts : ProxyCreateStoryboard(uri, t)
  <2>1. PICK uri \in Uris, t \in Texts : ProxyCreateStoryboard(uri, t)
    BY <1>5
  <2>2. StartsStory("incident progression", uri, t, << >>)
    BY <2>1, StoryWithoutRows DEF ProxyCreateStoryboard, StartsStory
  <2>3. {"incident progression"} \cap {"delete comments", "insert comments"} = {} /\ uri \in Anchors
    BY DEF Anchors
  <2>4. /\ RequestInv(Anchors, Asked)' /\ Untouched /\ UNCHANGED <<tables, stories, feedback, acked, cleared>>
        /\ api = "idle" /\ api' = "incident progression"
        /\ req'.expanded = << >> /\ req'.tmp = << >> /\ req'.rows = << >>
    BY <1>1, <2>2, <2>3, StoryStarts
  <2> QED BY <2>4, OthersKeep
<1> QED BY <1>3, <1>4, <1>5

\* A request that fails.
LEMMA FailsKeeps ==
  ASSUME DNSProxyDayInv, Recorded, UNCHANGED jobVars, type \in {"dns", "proxy"}, RequestFails
  PROVE  RequestKeeps
<1>1. RequestInv(Anchors, Asked)
  BY DayIs
<1>2. /\ RequestInv(Anchors, Asked)' /\ Untouched /\ faults' # 0
      /\ api' = "idle" /\ req' = NoRequest
      /\ UNCHANGED <<tables, stories, feedback, acked, cleared>>
  BY <1>1, RequestFailsKeeps
<1>3. CountedOn /\ req'.tmp = << >> /\ req'.rows = << >> /\ req'.expanded = << >>
  BY <1>2, NoRequestIs DEF Untouched
<1>4. DayTyped' /\ TimelinesOnce' /\ ScoredByUri'
  BY <1>2, <1>3, DayIs, DayTypedStays, TimelinesStay, UriStays DEF Scoring
<1>5. ScoredAreFed'
  BY <1>2 DEF ScoredAreFed, Clean
<1>6. StoriesAreWhole'
  <2>1. << >> \in Seq(Conns)
    BY NoneIn
  <2> QED BY <1>2, <1>3, <2>1, DayIs DEF StoriesAreWhole, Clean
<1> QED BY <1>2, <1>4, <1>5, <1>6 DEF RequestKeeps

\* A comment is saved, of a story that is whole.
LEMMA SavesKeeps ==
  ASSUME DNSProxyDayInv, Recorded, UNCHANGED jobVars, type \in {"dns", "proxy"},
         SelectComments \/ DeleteComments \/ InsertComment
  PROVE  RequestKeeps
<1>1. RequestInv(Anchors, Asked)
  BY DayIs
<1>2. /\ RequestInv(Anchors, Asked)' /\ Untouched
      /\ UNCHANGED <<stories, feedback, results>>
      /\ \A u \in Tables : u # "storyboard" => tables'[u] = tables[u]
      /\ UNCHANGED <<req.anchor, req.rows, req.tmp, req.expanded, req.score>> \/ req' = NoRequest
      /\ api \in {"select comments", "delete comments", "insert comments"}
      /\ api' \in {"delete comments", "insert comments", "idle"}
      /\ api' = "idle" => req' = NoRequest
  BY <1>1, SavesComment
<1>3. /\ type = "dns" => {"dendro", "threat_dendro"} \subseteq Tables
      /\ type = "proxy" => "timeline" \in Tables
      /\ "threat_investigation" \in Tables
  BY DayIs, TablesAre
<1>4. /\ tables'["threat_investigation"] = tables["threat_investigation"]
      /\ type = "dns" => tables'["dendro"] = tables["dendro"]
      /\ type = "dns" => tables'["threat_dendro"] = tables["threat_dendro"]
      /\ type = "proxy" => tables'["timeline"] = tables["timeline"]
  BY <1>2, <1>3
<1>5. /\ CountedOn /\ tables'["suspicious"] = tables["suspicious"]
      /\ req'.rows \in {req.rows, << >>} /\ req'.tmp \in {req.tmp, << >>}
      /\ req'.expanded \in {req.expanded, << >>}
  BY <1>2, NoRequestIs DEF Untouched
<1>6. DayTyped'
  BY <1>2, <1>4, DayIs, DayTypedStays DEF Scoring
<1>7. TimelinesOnce'
  BY <1>2, <1>4, <1>5, DayIs, TimelinesStay
<1>8. ScoredByUri'
  BY <1>4, <1>5, DayIs, UriStays
<1>9. ScoredAreFed'
  BY <1>2, <1>4, <1>5, DayIs, FedStays
<1>10. /\ \A c \in acked' : c \in acked \/ c.anchor = req.anchor
       /\ api' # "idle" => req'.anchor = req.anchor
  <2>1. CASE SelectComments \/ DeleteComments
    <3>1. acked' = acked /\ api' # "idle"
      BY <2>1 DEF SelectComments, DeleteComments, Then, history
    <3>2. req'.anchor = req.anchor
      BY <2>1, DayIs DEF SelectComments, DeleteComments, Then, NoRequest
    <3> QED BY <3>1, <3>2
  <2>2. CASE InsertComment
    <3>1. /\ \/ api' = api /\ req' = [req EXCEPT !.sb_data = Tail(@)] /\ acked' = acked
             \/ api' = "idle" /\ acked' \subseteq acked \cup {Comment(req.anchor, req.text)}
      BY <2>2 DEF InsertComment, Return
    <3>2. Comment(req.anchor, req.text).anchor = req.anchor
      BY DEF Comment
    <3>3. [req EXCEPT !.sb_data = Tail(@)].anchor = req.anchor
      BY DayIs DEF NoRequest
    <3> QED BY <3>1, <3>2, <3>3
  <2> QED BY <2>1, <2>2
<1>11. StoriesAreWhole'
  <2>1. (Clean' => Clean) /\ SavingComment
    BY <1>2, <1>5, DayIs, CleanBefore DEF SavingComment
  <2>2. type' = "dns" => /\ tables'["threat_dendro"] \in Seq([anchor : Anchors \cup {None}, conn : Conns])
                         /\ req'.expanded \in Seq(Conns)
    BY <1>4, <1>5, DayIs, NoneIn DEF StoriesAreWhole
  <2>3. \A a : Whole(a) => Whole(a)'
    <3>1. type = "proxy" => \A a : TimelineKept(a) => TimelineKept(a)'
      BY <1>2, <1>4 DEF TimelineKept, RowsOf
    <3>2. type = "dns" => \A a : DNSStory(a)' = DNSStory(a)
                                 /\ RowsOf("threat_dendro")' = RowsOf("threat_dendro")
      BY <1>4 DEF DNSStory, DNSExpandedSearch, RowsOf
    <3> QED BY <1>2, <3>1, <3>2, DayIs DEF Whole
  <2>4. Clean' => Whole(req.anchor)
    BY <2>1, DayIs DEF StoriesAreWhole
  <2>5. Clean' => ~StoriesCleared' /\ ~ClearingDay
    <3>1. Clean => ~ClearingDay
      BY <1>2, DayIs DEF ScoredAreFed, Clean
    <3>2. StoriesCleared => ClearingDay
      BY DEF StoriesCleared, ClearedFrom, ClearingDay
    <3> QED BY <2>1, <3>1, <3>2, DayIs
  <2>6. Clean' => \A c \in acked' : Whole(c.anchor)'
    <3>1. Clean' => \A c \in acked : Whole(c.anchor)
      BY <2>1, <2>5, DayIs DEF StoriesAreWhole
    <3> QED BY <1>10, <2>3, <2>4, <3>1
  <2>7. Clean' /\ SavingComment' => Whole(req.anchor)'
    <3>1. SavingComment' => req'.anchor = req.anchor
      BY <1>2, <1>10 DEF SavingComment
    <3> QED BY <2>3, <2>4, <3>1 DEF Whole
  <2>8. api' # "dendro"
    BY <1>2
  <2> QED BY <2>2, <2>5, <2>6, <2>7, <2>8 DEF StoriesAreWhole
<1> QED BY <1>2, <1>4, <1>6, <1>7, <1>8, <1>9, <1>11 DEF RequestKeeps

\* A step of a request that makes a story.
LEMMA StoryKeeps ==
  ASSUME DNSProxyDayInv, Recorded, UNCHANGED jobVars, type \in {"dns", "proxy"},
         RequestInv(Anchors, Asked)', Untouched, UNCHANGED <<feedback, acked>>,
         tables'["threat_investigation"] = tables["threat_investigation"],
         type = "dns" => tables'["dendro"] = tables["dendro"],
         req'.rows \in {req.rows, << >>},
         {api, api'} \cap {"insert scores", "list feedback", "put feedback"} = {},
         TimelinesOnce', StoriesAreWhole'
  PROVE  RequestKeeps
<1>1. CountedOn
  BY DEF Untouched
<1>2. DayTyped'
  BY DayIs, DayTypedStays DEF Scoring
<1>3. ScoredByUri'
  BY DayIs, UriStays DEF Untouched
<1>4. ScoredAreFed'
  BY <1>1, DayIs, FedStays
<1> QED BY <1>2, <1>3, <1>4 DEF RequestKeeps

\* What is whole stays whole when something is added.
LEMMA StoriesGrow ==
  ASSUME DNSProxyDayInv, Recorded, UNCHANGED jobVars, CountedOn, acked' = acked,
         type = "dns" => /\ tables'["threat_dendro"] \in Seq([anchor : Anchors \cup {None}, conn : Conns])
                         /\ req'.expanded \in Seq(Conns)
                         /\ api' = "dendro" => req'.expanded # << >>,
         Clean' =>
           /\ \A a : Whole(a) => Whole(a)'
           /\ SavingComment' => Whole(req.anchor)'
           /\ type' = "dns" /\ api' = "dendro" =>
                DNSStory(req.anchor)' \subseteq RowsOf("threat_dendro")'
                  \cup {[anchor |-> req'.anchor, conn |-> c] : c \in Range(req'.expanded)}
  PROVE  StoriesAreWhole'
<1>1. Clean' => Clean
  BY DayIs, CleanBefore
<1>2. Clean' => /\ StoriesCleared' => acked' = {}
                /\ ~ClearingDay' => \A c \in acked' : Whole(c.anchor)'
  BY <1>1, DayIs DEF StoriesAreWhole
<1>3. type' = type
  BY DayIs
<1> QED BY <1>2, <1>3 DEF StoriesAreWhole

\* The rows of an expanded search are connections.
LEMMA ExpandedSearchIs ==
  ASSUME NEW a
  PROVE  DNSExpandedSearch(a) \in Seq(Conns)
<1> DEFINE S == {c \in Conns : Client[c] = a \/ Name[c] = a}
           n == Cardinality(S)
<1>1. IsFiniteSet(S)
  BY RecordsAssumption, FS_Subset
<1>2. n \in Nat /\ ExistsBijection(1 .. n, S)
  BY <1>1, FS_CardinalityType
<1>3. \E f \in [1 .. n -> S] : IsInjective(f)
  BY <1>2 DEF ExistsBijection, Bijection, Injection, IsInjective
<1>4. SetToSeq(S) \in [1 .. n -> S]
  BY <1>3 DEF SetToSeq
<1>5. SetToSeq(S) \in [1 .. n -> Conns]
  BY <1>4
<1>6. SetToSeq(S) \in Seq(Conns)
  BY <1>2, <1>5
<1> QED BY <1>6 DEF DNSExpandedSearch

\* A story of dns: its dendrogram is inserted row by row.
LEMMA DNSStoryKeeps ==
  ASSUME DNSProxyDayInv, Recorded, UNCHANGED jobVars, type = "dns",
         \/ \E a \in Clients \cup Names, t \in Texts : DNSCreateStoryboard(a, t)
         \/ DNSInsertThreatDendro
  PROVE  RequestKeeps
<1>1. RequestInv(Anchors, Asked) /\ Counted /\ DOMAIN tables = Tables /\ type' = "dns"
      /\ {"dendro", "threat_dendro", "threat_investigation"} \subseteq Tables
  BY DayIs, TablesAre
<1>2. CASE \E a \in Clients \cup Names, t \in Texts : DNSCreateStoryboard(a, t)
  <2>1. PICK a \in Clients \cup Names, t \in Texts : DNSCreateStoryboard(a, t)
    BY <1>2
  <2> DEFINE rows == DNSExpandedSearch(a)
             first == IF rows = << >> THEN "select comments" ELSE "dendro"
  <2>2. StartsStory(first, a, t, rows)
    BY <2>1 DEF DNSCreateStoryboard, StartsStory
  <2>3. {first} \cap {"delete comments", "insert comments"} = {} /\ a \in Anchors
    BY <2>1 DEF Anchors
  <2>4. first \in {"select comments", "dendro"} /\ (first = "dendro" <=> rows # << >>)
    OBVIOUS
  <2>5. rows = DNSExpandedSearch(a)
    OBVIOUS
  <2> HIDE DEF rows, first
  <2>6. /\ RequestInv(Anchors, Asked)' /\ Untouched /\ UNCHANGED <<tables, stories, feedback, acked, cleared>>
        /\ api = "idle" /\ api' = first
        /\ req'.anchor = a /\ req'.expanded = rows
        /\ req'.tmp = << >> /\ req'.rows = << >>
    BY <1>1, <2>1, <2>2, <2>3, StoryStarts
  <2>7. CountedOn /\ api' \in {"select comments", "dendro"}
    BY <2>6, <2>4 DEF Untouched
  <2>8. TimelinesOnce'
    BY <1>1 DEF TimelinesOnce
  <2>9. \A b : DNSStory(b)' = DNSStory(b) /\ RowsOf("threat_dendro")' = RowsOf("threat_dendro")
    BY <2>6 DEF DNSStory, DNSExpandedSearch, RowsOf
  <2>10. DNSStory(req.anchor)' = {[anchor |-> req'.anchor, conn |-> c] : c \in Range(req'.expanded)}
    BY <2>6, <2>5 DEF DNSStory, DNSExpandedSearch
  <2>11. SavingComment' => Whole(req.anchor)'
    <3>1. SavingComment' => req'.expanded = << >>
      BY <2>6, <2>4 DEF SavingComment
    <3>2. SavingComment' => DNSStory(req.anchor)' = {}
      BY <2>10, <3>1, NoneIn
    <3> QED BY <1>1, <3>2 DEF Whole
  <2>12. StoriesAreWhole'
    <3>1. rows \in Seq(Conns)
      BY <2>5, ExpandedSearchIs
    <3>2. /\ tables'["threat_dendro"] \in Seq([anchor : Anchors \cup {None}, conn : Conns])
          /\ req'.expanded \in Seq(Conns)
          /\ api' = "dendro" => req'.expanded # << >>
      BY <1>1, <2>6, <2>4, <3>1, DayIs DEF StoriesAreWhole
    <3>3. \A b : Whole(b) => Whole(b)'
      BY <1>1, <2>9 DEF Whole
    <3> QED BY <2>6, <2>7, <2>10, <2>11, <3>2, <3>3, StoriesGrow
  <2>13. {api, api'} \cap {"insert scores", "list feedback", "put feedback"} = {}
    BY <2>6, <2>7
  <2> QED BY <2>6, <2>8, <2>12, <2>13, StoryKeeps
<1>3. CASE DNSInsertThreatDendro
  <2> DEFINE row == [anchor |-> req.anchor, conn |-> Head(req.expanded)]
             old == tables["threat_dendro"]
  <2>1. /\ api = "dendro" /\ Insert("threat_dendro", << row >>)
        /\ req' = [req EXCEPT !.expanded = Tail(@)]
        /\ api' = IF Len(req.expanded) > 1 THEN "dendro" ELSE "select comments"
        /\ UNCHANGED <<stories, feedback, results, acked, cleared>> /\ UNCHANGED bounds
    BY <1>3 DEF DNSInsertThreatDendro, fileVars, history
  <2>2. CountedOn
    BY <1>1, <2>1, OneIsCounted
  <2>3. /\ req'.expanded = Tail(req.expanded)
        /\ UNCHANGED <<req.score, req.rows, req.resetting, req.sb_data, req.anchor, req.text, req.tmp>>
        /\ DOMAIN req' = DOMAIN NoRequest
    BY <2>1, DayIs DEF NoRequest
  <2>4. RequestInv(Anchors, Asked)' /\ Untouched
    <3>1. "threat_dendro" \in Tables \ {"suspicious", "edge", "storyboard"}
      BY <1>1
    <3>2. {api, api'} \cap {"delete comments", "insert comments"} = {}
      BY <2>1
    <3> QED BY <1>1, <2>1, <2>2, <2>3, <3>1, <3>2, RequestInserts
  <2>5. /\ tables'["threat_dendro"] = old \o << row >>
        /\ tables'["dendro"] = tables["dendro"]
        /\ tables'["threat_investigation"] = tables["threat_investigation"]
    BY <1>1, <2>1, InsertAppends
  <2>6. /\ req.expanded \in Seq(Conns) /\ req.expanded # << >>
        /\ old \in Seq([anchor : Anchors \cup {None}, conn : Conns])
    BY <1>1, <2>1, DayIs DEF StoriesAreWhole
  <2>7. /\ Head(req.expanded) \in Conns /\ Tail(req.expanded) \in Seq(Conns)
        /\ Len(req.expanded) \in Nat \ {0} /\ Len(Tail(req.expanded)) = Len(req.expanded) - 1
        /\ Range(req.expanded) = {Head(req.expanded)} \cup Range(Tail(req.expanded))
    BY <2>6, HeadAndTail
  <2>8. req.anchor \in Anchors \cup {None}
    <3>1. Comment(req.anchor, req.text) \in CommentRecords(Anchors)
      BY <1>1 DEF RequestInv, CommentsInv, CommentsTyped
    <3> QED BY <3>1 DEF Comment, CommentRecords
  <2>9. << row >> \in Seq([anchor : Anchors \cup {None}, conn : Conns]) /\ Range(<< row >>) = {row}
    <3>1. row \in [anchor : Anchors \cup {None}, conn : Conns]
      BY <2>7, <2>8
    <3>2. DOMAIN << row >> = {1} /\ << row >>[1] = row
      OBVIOUS
    <3> HIDE DEF row
    <3>3. << row >> \in Seq([anchor : Anchors \cup {None}, conn : Conns])
      BY <3>1
    <3> QED BY <3>2, <3>3 DEF Range
  <2>10. row = [anchor |-> req.anchor, conn |-> Head(req.expanded)]
    OBVIOUS
  <2> HIDE DEF row, old
  <2>11. /\ tables'["threat_dendro"] \in Seq([anchor : Anchors \cup {None}, conn : Conns])
         /\ RowsOf("threat_dendro")' = RowsOf("threat_dendro") \cup {row}
    <3>1. /\ old \o << row >> \in Seq([anchor : Anchors \cup {None}, conn : Conns])
          /\ Range(old \o << row >>) = Range(old) \cup Range(<< row >>)
      <4> DEFINE R == [anchor : Anchors \cup {None}, conn : Conns]
                 new == << row >>
      <4>1. old \in Seq(R) /\ new \in Seq(R)
        BY <2>6, <2>9
      <4> HIDE DEF R, new
      <4>2. old \o new \in Seq(R) /\ Range(old \o new) = Range(old) \cup Range(new)
        BY <4>1, ConcatIs
      <4> QED BY <4>2 DEF R, new
    <3> QED BY <2>5, <2>9, <3>1 DEF RowsOf, old
  <2>12. \A b : DNSStory(b)' = DNSStory(b)
    BY DEF DNSStory, DNSExpandedSearch
  <2>13. \A b : Whole(b) => Whole(b)'
    BY <1>1, <2>11, <2>12 DEF Whole
  <2>14. Clean' => DNSStory(req.anchor) \subseteq RowsOf("threat_dendro") \cup {row}
                     \cup {[anchor |-> req.anchor, conn |-> c] : c \in Range(Tail(req.expanded))}
    <3>1. Clean' => Clean
      BY <2>2, DayIs, CleanBefore
    <3>2. Clean => DNSStory(req.anchor) \subseteq RowsOf("threat_dendro")
                     \cup {[anchor |-> req.anchor, conn |-> c] : c \in Range(req.expanded)}
      BY <1>1, <2>1, DayIs DEF StoriesAreWhole
    <3> QED BY <2>7, <2>10, <3>1, <3>2
  <2>15. DNSStory(req.anchor)' = DNSStory(req.anchor)
    BY <2>3 DEF DNSStory, DNSExpandedSearch
  <2>16. Clean' => DNSStory(req.anchor)' \subseteq RowsOf("threat_dendro")'
                     \cup {[anchor |-> req'.anchor, conn |-> c] : c \in Range(req'.expanded)}
    BY <2>3, <2>11, <2>14, <2>15
  <2>17. api' = "dendro" <=> req'.expanded # << >>
    <3> DEFINE rest == Tail(req.expanded)
               n == Len(req.expanded)
    <3>1. rest \in Seq(Conns) /\ n \in Nat /\ n # 0 /\ Len(rest) = n - 1
      BY <2>7
    <3>2. api' = (IF n > 1 THEN "dendro" ELSE "select comments") /\ req'.expanded = rest
      BY <2>1, <2>3
    <3> HIDE DEF rest, n
    <3>3. rest = << >> <=> Len(rest) = 0
      BY <3>1
    <3>4. n > 1 <=> Len(rest) # 0
      BY <3>1
    <3> QED BY <3>2, <3>3, <3>4
  <2>18. Clean' /\ SavingComment' => Whole(req.anchor)'
    <3>1. SavingComment' => Range(req'.expanded) = {}
      BY <2>17, NoneIn DEF SavingComment
    <3> QED BY <1>1, <2>16, <3>1 DEF Whole
  <2>19. StoriesAreWhole'
    <3>1. req'.expanded \in Seq(Conns) /\ (api' = "dendro" => req'.expanded # << >>)
      BY <2>3, <2>7, <2>17
    <3> QED BY <2>1, <2>2, <2>11, <2>13, <2>16, <2>18, <3>1, StoriesGrow
  <2>20. TimelinesOnce'
    BY <1>1 DEF TimelinesOnce
  <2>21. {api, api'} \cap {"insert scores", "list feedback", "put feedback"} = {}
    BY <2>1
  <2> QED BY <2>1, <2>3, <2>4, <2>5, <2>19, <2>20, <2>21, StoryKeeps
<1> QED BY <1>2, <1>3

\* Of elements that are each another, none is the first of the others.
LEMMA TailOfOthers ==
  ASSUME NEW R, NEW s \in Seq(R), s # << >>, IsInjective(s)
  PROVE  IsInjective(Tail(s)) /\ Head(s) \notin Range(Tail(s))
<1> DEFINE n == Len(s)
           rest == Tail(s)
<1>1. /\ rest \in Seq(R) /\ n \in Nat \ {0} /\ Len(rest) = n - 1 /\ Head(s) = s[1]
      /\ \A i \in 1 .. n - 1 : rest[i] = s[i + 1]
  BY HeadAndTail
<1>2. DOMAIN s = 1 .. n /\ DOMAIN rest = 1 .. n - 1
  BY <1>1
<1>3. \A i, j \in 1 .. n : s[i] = s[j] => i = j
  BY <1>2 DEF IsInjective
<1> HIDE DEF n, rest
<1>4. \A i \in 1 .. n - 1 : i + 1 \in 1 .. n /\ i + 1 # 1 /\ 1 \in 1 .. n
  BY <1>1
<1>5. \A i, j \in 1 .. n - 1 : rest[i] = rest[j] => i = j
  BY <1>1, <1>3, <1>4
<1>6. \A i \in 1 .. n - 1 : rest[i] # Head(s)
  BY <1>1, <1>3, <1>4
<1> QED BY <1>2, <1>5, <1>6 DEF IsInjective, Range, rest

\* An element that is not there is added.
LEMMA OneMore ==
  ASSUME NEW R, NEW s \in Seq(R), NEW x \in R
  PROVE  /\ s \o << x >> \in Seq(R) /\ Range(s \o << x >>) = Range(s) \cup {x}
         /\ IsInjective(s) /\ x \notin Range(s) => IsInjective(s \o << x >>)
<1>1. s \o << x >> = Append(s, x)
  OBVIOUS
<1>2. /\ Append(s, x) \in Seq(R) /\ Range(Append(s, x)) = Range(s) \cup {x}
      /\ IsInjective(s) /\ x \notin Range(s) => IsInjective(Append(s, x))
  BY AppendIs
<1> QED BY <1>1, <1>2

\* What a request holds of its story.
LEMMA AnchorIs ==
  ASSUME RequestInv(Anchors, Asked)
  PROVE  req.anchor \in Anchors \cup {None}
<1>1. Comment(req.anchor, req.text) \in CommentRecords(Anchors)
  BY DEF RequestInv, CommentsInv, CommentsTyped
<1> QED BY <1>1 DEF Comment, CommentRecords

\* A story of proxy: the incident progression is written.
LEMMA ProgressionKeeps ==
  ASSUME DNSProxyDayInv, Recorded, UNCHANGED jobVars, type = "proxy", ProxyWriteProgression
  PROVE  RequestKeeps
<1>1. RequestInv(Anchors, Asked) /\ Counted /\ DOMAIN tables = Tables /\ type' = "proxy"
      /\ DOMAIN req = DOMAIN NoRequest
  BY DayIs
<1>2. /\ api = "incident progression" /\ api' = "select timelines" /\ req' = req
      /\ UNCHANGED <<tables, feedback, results, acked, cleared>>
      /\ \/ stories' = stories \cup {req.anchor} /\ UNCHANGED bounds
         \/ Fault /\ UNCHANGED stories
  BY DEF ProxyWriteProgression, WritesStory, Then, history
<1>3. CountedOn
  BY <1>1, <1>2, OneIsCounted
<1>4. RequestInv(Anchors, Asked)' /\ Untouched
  <2>1. {api, api'} \cap {"delete comments", "insert comments"} = {}
    BY <1>2
  <2> QED BY <1>1, <1>2, <1>3, <2>1, RequestInserts
<1>5. TimelinesOnce'
  BY <1>1, <1>2, <1>3, DayIs, TimelinesStay
<1>6. StoriesAreWhole'
  <2>1. \A a : Whole(a) => Whole(a)'
    <3>1. \A a : TimelineKept(a) => TimelineKept(a)'
      BY <1>2 DEF TimelineKept, RowsOf
    <3> QED BY <1>1, <3>1 DEF Whole
  <2>2. ~SavingComment' /\ api' # "dendro"
    BY <1>2 DEF SavingComment
  <2> QED BY <1>1, <1>2, <1>3, <2>1, <2>2, StoriesGrow
<1>7. {api, api'} \cap {"insert scores", "list feedback", "put feedback"} = {}
  BY <1>2
<1> QED BY <1>1, <1>2, <1>4, <1>5, <1>6, <1>7, StoryKeeps

\* The timelines of others are read.
LEMMA SelectTimelinesKeeps ==
  ASSUME DNSProxyDayInv, Recorded, UNCHANGED jobVars, type = "proxy", ProxySelectTimelines
  PROVE  RequestKeeps
<1> DEFINE old == tables["timeline"]
           others == OfOthers(old, req.anchor)
<1>1. RequestInv(Anchors, Asked) /\ Counted /\ DOMAIN tables = Tables /\ type' = "proxy"
  BY DayIs
<1>2. /\ api = "select timelines" /\ api' = "delete timelines"
      /\ req' = [req EXCEPT !.tmp = others]
      /\ UNCHANGED <<tables, stories, feedback, results, acked, cleared>> /\ UNCHANGED bounds
  BY DEF ProxySelectTimelines, fileVars, history
<1>3. /\ req'.tmp = others
      /\ UNCHANGED <<req.score, req.rows, req.resetting, req.sb_data, req.anchor, req.text, req.expanded>>
      /\ DOMAIN req' = DOMAIN NoRequest
  BY <1>2, DayIs DEF NoRequest
<1>4. CountedOn
  BY <1>1, <1>2, OneIsCounted
<1>5. RequestInv(Anchors, Asked)' /\ Untouched
  <2>1. {api, api'} \cap {"delete comments", "insert comments"} = {}
    BY <1>2
  <2> QED BY <1>1, <1>2, <1>3, <1>4, <2>1, RequestInserts
<1>6. old \in Seq(Anchors \cup {None}) /\ (undeleted = 0 => IsInjective(old))
  BY <1>1, DayIs DEF TimelinesOnce
<1>7. /\ others \in Seq(Anchors \cup {None}) /\ Range(others) = Range(old) \ {req.anchor}
      /\ IsInjective(old) => IsInjective(others)
  <2> DEFINE chosen == Range(old) \ {req.anchor}
  <2>1. others = Where(old, chosen)
    BY DEF OfOthers
  <2>2. Range(old) \cap chosen = chosen
    OBVIOUS
  <2> HIDE DEF old, others, chosen
  <2>3. /\ Where(old, chosen) \in Seq(Anchors \cup {None})
        /\ Range(Where(old, chosen)) = Range(old) \cap chosen
        /\ IsInjective(old) => IsInjective(Where(old, chosen))
    BY <1>6, WhereSelects
  <2>4. /\ others \in Seq(Anchors \cup {None}) /\ Range(others) = chosen
        /\ IsInjective(old) => IsInjective(others)
    BY <2>1, <2>2, <2>3
  <2> QED BY <2>4 DEF chosen
<1> HIDE DEF others
<1>8. TimelinesOnce'
  <2>1. undeleted' = 0 => undeleted = 0
    BY <1>4, DayIs, CleanBefore
  <2>2. RowsOf("timeline")' = Range(old) /\ tables'["timeline"] = old
    BY <1>2 DEF RowsOf
  <2>3. req'.anchor = req.anchor
    BY <1>3
  <2> HIDE DEF old
  <2> QED BY <1>1, <1>2, <1>3, <1>6, <1>7, <2>1, <2>2, <2>3 DEF TimelinesOnce
<1>9. StoriesAreWhole'
  <2>1. \A a : Whole(a) => Whole(a)'
    <3>1. \A a : TimelineKept(a) => TimelineKept(a)'
      BY <1>2 DEF TimelineKept, RowsOf
    <3> QED BY <1>1, <1>2, <3>1 DEF Whole
  <2>2. ~SavingComment' /\ api' # "dendro"
    BY <1>2 DEF SavingComment
  <2> QED BY <1>1, <1>2, <1>4, <2>1, <2>2, StoriesGrow
<1>10. {api, api'} \cap {"insert scores", "list feedback", "put feedback"} = {}
  BY <1>2
<1> QED BY <1>1, <1>2, <1>3, <1>5, <1>8, <1>9, <1>10, StoryKeeps

\* Their directory is removed.
LEMMA DeleteTimelinesKeeps ==
  ASSUME DNSProxyDayInv, Recorded, UNCHANGED jobVars, type = "proxy", ProxyDeleteTimelines
  PROVE  RequestKeeps
<1>1. RequestInv(Anchors, Asked) /\ Counted /\ DOMAIN tables = Tables /\ type' = "proxy"
      /\ DOMAIN req = DOMAIN NoRequest
      /\ {"timeline", "storyboard", "suspicious", "edge", "threat_investigation"} \subseteq Tables
  BY DayIs, TablesAre
<1>2. /\ api = "delete timelines" /\ api' = "insert timelines" /\ req' = req
      /\ Delete("timeline")
      /\ UNCHANGED <<stories, feedback, results, acked, cleared>>
  BY DEF ProxyDeleteTimelines, Then, fileVars, history
<1>3. /\ DOMAIN tables' = Tables /\ CountedOn
      /\ \A u \in Tables : tables'[u] = tables[u] \/ (u = "timeline" /\ tables'[u] = << >>)
      /\ undeleted' = 0 => \A u \in Tables : u = "timeline" => tables'[u] = << >>
  <2>1. "timeline" \in Tables \cup {Nowhere}
    BY <1>1
  <2> QED BY <1>1, <1>2, <2>1, DeleteEmpties
<1>4. /\ tables'["timeline"] \in {tables["timeline"], << >>}
      /\ undeleted' = 0 => tables'["timeline"] = << >>
      /\ tables'["storyboard"] = tables["storyboard"] /\ tables'["suspicious"] = tables["suspicious"]
      /\ tables'["edge"] = tables["edge"]
      /\ tables'["threat_investigation"] = tables["threat_investigation"]
  BY <1>1, <1>3
<1>5. RequestInv(Anchors, Asked)' /\ Untouched
  <2>1. {api, api'} \cap {"delete comments", "insert comments"} = {}
    BY <1>2
  <2>2. req.score \in Asked \cup {None} /\ req.rows \in Seq(ShownRows) /\ req.resetting \in 0 .. 2
    BY <1>1 DEF RequestInv, RequestTyped
  <2>3. RequestInv(Anchors, Asked)'
    BY <1>1, <1>2, <1>3, <1>4, <2>1, <2>2, RequestStartsOrEnds
  <2> QED BY <1>2, <1>3, <1>4, <2>3 DEF Untouched
<1>6. /\ << >> \in Seq(Anchors \cup {None}) /\ IsInjective(<< >>) /\ Range(<< >>) = {}
  BY NoneIn
<1>7. undeleted' = 0 => undeleted = 0
  BY <1>3, DayIs, CleanBefore
<1>8. TimelinesOnce'
  <2>1. undeleted' = 0 => RowsOf("timeline")' = {}
    BY <1>4, <1>6 DEF RowsOf
  <2> QED BY <1>1, <1>2, <1>4, <1>6, <1>7, <2>1, DayIs DEF TimelinesOnce
<1>9. StoriesAreWhole'
  <2>1. \A a : Whole(a) => Whole(a)'
    <3>1. RowsOf("timeline") \subseteq {req.anchor} \cup Range(req.tmp)
      BY <1>1, <1>2, DayIs DEF TimelinesOnce
    <3>2. \A a : TimelineKept(a) => TimelineKept(a)'
      BY <1>2, <3>1 DEF TimelineKept
    <3> QED BY <1>1, <1>2, <3>2 DEF Whole
  <2>2. ~SavingComment' /\ api' # "dendro"
    BY <1>2 DEF SavingComment
  <2> QED BY <1>1, <1>2, <1>3, <2>1, <2>2, StoriesGrow
<1>10. {api, api'} \cap {"insert scores", "list feedback", "put feedback"} = {}
  BY <1>2
<1> QED BY <1>1, <1>2, <1>4, <1>5, <1>8, <1>9, <1>10, StoryKeeps

\* One of them is inserted again.
LEMMA InsertOtherKeeps ==
  ASSUME DNSProxyDayInv, Recorded, UNCHANGED jobVars, type = "proxy",
         ProxyInsertTimeline, req.tmp # << >>
  PROVE  RequestKeeps
<1> DEFINE old == tables["timeline"]
           x == Head(req.tmp)
           rest == Tail(req.tmp)
<1>1. RequestInv(Anchors, Asked) /\ Counted /\ DOMAIN tables = Tables /\ type' = "proxy"
      /\ {"timeline", "threat_investigation"} \subseteq Tables
  BY DayIs, TablesAre
<1>2. /\ api = "insert timelines" /\ api' = "insert timelines"
      /\ req' = [req EXCEPT !.tmp = Tail(@)] /\ Insert("timeline", << x >>)
      /\ UNCHANGED <<stories, feedback, results, acked, cleared>> /\ UNCHANGED bounds
  BY DEF ProxyInsertTimeline, fileVars, history
<1>3. /\ req'.tmp = rest
      /\ UNCHANGED <<req.score, req.rows, req.resetting, req.sb_data, req.anchor, req.text, req.expanded>>
      /\ DOMAIN req' = DOMAIN NoRequest
  BY <1>2, DayIs DEF NoRequest
<1>4. CountedOn /\ (undeleted' = 0 => undeleted = 0) /\ (Clean' => Clean)
  <2>1. CountedOn
    BY <1>1, <1>2, OneIsCounted
  <2> QED BY <2>1, DayIs, CleanBefore
<1>5. RequestInv(Anchors, Asked)' /\ Untouched
  <2>1. {api, api'} \cap {"delete comments", "insert comments"} = {}
    BY <1>2
  <2>2. "timeline" \in Tables \ {"suspicious", "edge", "storyboard"}
    BY <1>1
  <2> QED BY <1>1, <1>2, <1>3, <1>4, <2>1, <2>2, RequestInserts
<1>6. /\ tables'["timeline"] = old \o << x >>
      /\ tables'["threat_investigation"] = tables["threat_investigation"]
  BY <1>1, <1>2, InsertAppends
<1>7. old \in Seq(Anchors \cup {None}) /\ req.tmp \in Seq(Anchors \cup {None})
  BY <1>1, DayIs DEF TimelinesOnce
<1>8. undeleted = 0 => /\ IsInjective(old) /\ IsInjective(req.tmp)
                       /\ req.anchor \notin Range(req.tmp)
                       /\ Range(old) \cap ({req.anchor} \cup Range(req.tmp)) = {}
  BY <1>1, <1>2, DayIs DEF TimelinesOnce, RowsOf
<1>9. /\ x \in Anchors \cup {None} /\ rest \in Seq(Anchors \cup {None})
      /\ Range(req.tmp) = {x} \cup Range(rest)
      /\ IsInjective(req.tmp) => IsInjective(rest) /\ x \notin Range(rest)
  BY <1>7, HeadAndTail, TailOfOthers
<1> HIDE DEF old, x, rest
<1>10. /\ old \o << x >> \in Seq(Anchors \cup {None}) /\ Range(old \o << x >>) = Range(old) \cup {x}
       /\ IsInjective(old) /\ x \notin Range(old) => IsInjective(old \o << x >>)
  BY <1>7, <1>9, OneMore
<1>11. RowsOf("timeline")' = Range(old) \cup {x}
  BY <1>6, <1>10 DEF RowsOf
<1>12. TimelinesOnce'
  <2>1. undeleted' = 0 => IsInjective(tables'["timeline"])
    BY <1>4, <1>6, <1>8, <1>9, <1>10
  <2>2. undeleted' = 0 => IsInjective(req'.tmp) /\ req'.anchor \notin Range(req'.tmp)
    BY <1>3, <1>4, <1>8, <1>9
  <2>3. undeleted' = 0 => RowsOf("timeline")' \cap ({req'.anchor} \cup Range(req'.tmp)) = {}
    BY <1>3, <1>4, <1>8, <1>9, <1>11
  <2>4. tables'["timeline"] \in Seq(Anchors \cup {None}) /\ req'.tmp \in Seq(Anchors \cup {None})
    BY <1>3, <1>6, <1>9, <1>10
  <2>5. api' # "delete timelines"
    BY <1>2
  <2> QED BY <2>1, <2>2, <2>3, <2>4, <2>5 DEF TimelinesOnce
<1>13. StoriesAreWhole'
  <2>1. \A a : Whole(a) => Whole(a)'
    <3>1. RowsOf("timeline") = Range(old)
      BY DEF RowsOf, old
    <3>2. \A a : TimelineKept(a) => TimelineKept(a)'
      BY <1>2, <1>3, <1>9, <1>11, <3>1 DEF TimelineKept
    <3> QED BY <1>1, <1>2, <3>2 DEF Whole
  <2>2. ~SavingComment' /\ api' # "dendro"
    BY <1>2 DEF SavingComment
  <2> QED BY <1>1, <1>2, <1>4, <2>1, <2>2, StoriesGrow
<1>14. {api, api'} \cap {"insert scores", "list feedback", "put feedback"} = {}
  BY <1>2
<1> QED BY <1>1, <1>2, <1>3, <1>5, <1>6, <1>12, <1>13, <1>14, StoryKeeps

\* The timeline of the story itself is inserted last.
LEMMA InsertOwnKeeps ==
  ASSUME DNSProxyDayInv, Recorded, UNCHANGED jobVars, type = "proxy",
         ProxyInsertTimeline, req.tmp = << >>
  PROVE  RequestKeeps
<1> DEFINE old == tables["timeline"]
           x == req.anchor
<1>1. RequestInv(Anchors, Asked) /\ Counted /\ DOMAIN tables = Tables /\ type' = "proxy"
      /\ DOMAIN req = DOMAIN NoRequest
      /\ {"timeline", "threat_investigation"} \subseteq Tables
  BY DayIs, TablesAre
<1>2. /\ api = "insert timelines" /\ api' = "select comments" /\ req' = req
      /\ Insert("timeline", << x >>)
      /\ UNCHANGED <<stories, feedback, results, acked, cleared>> /\ UNCHANGED bounds
  BY DEF ProxyInsertTimeline, Then, fileVars, history
<1>3. CountedOn /\ (undeleted' = 0 => undeleted = 0) /\ (Clean' => Clean)
  <2>1. CountedOn
    BY <1>1, <1>2, OneIsCounted
  <2> QED BY <2>1, DayIs, CleanBefore
<1>4. RequestInv(Anchors, Asked)' /\ Untouched
  <2>1. {api, api'} \cap {"delete comments", "insert comments"} = {}
    BY <1>2
  <2>2. "timeline" \in Tables \ {"suspicious", "edge", "storyboard"}
    BY <1>1
  <2> QED BY <1>1, <1>2, <1>3, <2>1, <2>2, RequestInserts
<1>5. /\ tables'["timeline"] = old \o << x >>
      /\ tables'["threat_investigation"] = tables["threat_investigation"]
  BY <1>1, <1>2, InsertAppends
<1>6. old \in Seq(Anchors \cup {None}) /\ req.tmp \in Seq(Anchors \cup {None})
  BY <1>1, DayIs DEF TimelinesOnce
<1>7. undeleted = 0 => IsInjective(old) /\ x \notin Range(old)
  BY <1>1, <1>2, DayIs DEF TimelinesOnce, RowsOf
<1>8. x \in Anchors \cup {None}
  BY <1>1, AnchorIs
<1>9. x = req'.anchor /\ x = req.anchor
  BY <1>2
<1>10. RowsOf("timeline") = Range(old)
  BY DEF RowsOf
<1> HIDE DEF old, x
<1>11. /\ old \o << x >> \in Seq(Anchors \cup {None}) /\ Range(old \o << x >>) = Range(old) \cup {x}
       /\ IsInjective(old) /\ x \notin Range(old) => IsInjective(old \o << x >>)
  BY <1>6, <1>8, OneMore
<1>12. RowsOf("timeline")' = Range(old) \cup {x}
  BY <1>5, <1>11 DEF RowsOf
<1>13. TimelinesOnce'
  <2>1. undeleted' = 0 => IsInjective(tables'["timeline"])
    BY <1>3, <1>5, <1>7, <1>11
  <2>2. api' \notin {"delete timelines", "insert timelines"}
    BY <1>2
  <2> QED BY <1>2, <1>5, <1>6, <1>11, <2>1, <2>2 DEF TimelinesOnce
<1>14. StoriesAreWhole'
  <2>1. \A a : Whole(a) => Whole(a)'
    <3>1. Range(req.tmp) = {}
      BY NoneIn
    <3>2. \A a : TimelineKept(a) => TimelineKept(a)'
      BY <1>9, <1>10, <1>12, <3>1 DEF TimelineKept
    <3> QED BY <1>1, <1>2, <3>2 DEF Whole
  <2>2. Clean' => Whole(req.anchor)'
    <3>1. TimelineKept(req.anchor)'
      BY <1>9, <1>12 DEF TimelineKept
    <3> QED BY <1>1, <3>1 DEF Whole
  <2>3. api' # "dendro"
    BY <1>2
  <2> QED BY <1>1, <1>2, <1>3, <2>1, <2>2, <2>3, StoriesGrow
<1>15. {api, api'} \cap {"insert scores", "list feedback", "put feedback"} = {}
  BY <1>2
<1> QED BY <1>1, <1>2, <1>4, <1>5, <1>13, <1>14, <1>15, StoryKeeps

\* The steps of a request about dns data.
LEMMA DNSRequestKeeps ==
  ASSUME DNSProxyDayInv, Recorded, UNCHANGED jobVars, type = "dns", DNSAPIStep
  PROVE  RequestKeeps
<1>1. type \in {"dns", "proxy"}
  OBVIOUS
<1>2. CASE \E ip \in Clients \cup {None}, dns \in Names \cup {None}, s \in DNSSevs :
             DNSScore(ip, dns, s)
  <2>1. PICK ip \in Clients \cup {None}, dns \in Names \cup {None}, s \in DNSSevs :
               DNSScore(ip, dns, s)
    BY <1>2
  <2> DEFINE cmd == DNSCommand(ip, dns, s)
             chosen == [c \in Conns |-> DNSSelects(cmd, c)]
  <2>2. cmd \in DNSCommands /\ cmd \in Asked
    BY DEF DNSCommand, DNSCommands, Asked
  <2>3. Selects(chosen, cmd)
    BY <2>1 DEF DNSScore
  <2> HIDE DEF cmd, chosen
  <2>4. cmd \in (IF type = "dns" THEN DNSCommands ELSE ProxySevs) /\ type # "proxy"
    BY <2>2
  <2> QED BY <1>1, <2>2, <2>3, <2>4, SelectsKeeps
<1>3. CASE DNSInsertScores
  <2>1. InsertsScored(ScoredAs)
    BY <1>3 DEF DNSInsertScores, ScoredAs
  <2> QED BY <1>1, <2>1, InsertsKeeps
<1>4. CASE ListFeedback
  BY <1>1, <1>4, ListKeeps
<1>5. CASE DNSPutFeedback
  <2>1. FeedbackOf = DNSFeedbackLines
    BY DEF FeedbackOf, FeedbackRows, FeedbackLine, DNSFeedbackLines
  <2>2. PutsFeedback(FeedbackOf)
    BY <1>5, <2>1 DEF DNSPutFeedback
  <2> QED BY <1>1, <2>2, PutKeeps
<1>6. CASE (\E a \in Clients \cup Names, t \in Texts : DNSCreateStoryboard(a, t))
             \/ DNSInsertThreatDendro
  BY <1>6, DNSStoryKeeps
<1>7. CASE DNSSelectComments \/ DNSDeleteComments \/ DNSInsertComment
  <2>1. SelectComments \/ DeleteComments \/ InsertComment
    BY <1>7 DEF DNSSelectComments, DNSDeleteComments, DNSInsertComment
  <2> QED BY <1>1, <2>1, SavesKeeps
<1>8. CASE DNSReset \/ DNSResetNext
  <2>1. Resets \/ ResetsNext(DNSResetList)
    BY <1>8 DEF DNSReset, DNSResetNext
  <2> QED BY <1>1, <2>1, ResetsKeep
<1>9. CASE RequestFails
  BY <1>1, <1>9, FailsKeeps
<1> QED BY <1>2, <1>3, <1>4, <1>5, <1>6, <1>7, <1>8, <1>9 DEF DNSAPIStep

\* Those of a request about proxy data.
LEMMA ProxyRequestKeeps ==
  ASSUME DNSProxyDayInv, Recorded, UNCHANGED jobVars, type = "proxy", ProxyAPIStep
  PROVE  RequestKeeps
<1>1. type \in {"dns", "proxy"}
  OBVIOUS
<1>2. CASE \E uri \in Uris, s \in ProxySevs : ProxyScore(uri, s)
  <2>1. PICK uri \in Uris, s \in ProxySevs : ProxyScore(uri, s)
    BY <1>2
  <2>2. Selects(ProxyAsked(uri), s) /\ s \in Asked
    BY <2>1 DEF ProxyScore, Asked
  <2>3. s \in (IF type = "dns" THEN DNSCommands ELSE ProxySevs)
    BY <2>1
  <2> QED BY <1>1, <2>2, <2>3, SelectsKeeps
<1>3. CASE ProxyInsertScores
  <2>1. InsertsScored(ScoredAs)
    BY <1>3 DEF ProxyInsertScores, ScoredAs
  <2> QED BY <1>1, <2>1, InsertsKeeps
<1>4. CASE ListFeedback
  BY <1>1, <1>4, ListKeeps
<1>5. CASE ProxyPutFeedback
  <2>1. FeedbackOf = ProxyFeedbackLines
    BY DEF FeedbackOf, FeedbackRows, FeedbackLine, ProxyFeedbackLines
  <2>2. PutsFeedback(FeedbackOf)
    BY <1>5, <2>1 DEF ProxyPutFeedback
  <2> QED BY <1>1, <2>2, PutKeeps
<1>6. CASE \/ \E uri \in Uris, t \in Texts : ProxyCreateStoryboard(uri, t)
           \/ ProxyReset \/ ProxyResetNext
  <2>1. \/ Resets \/ ResetsNext(ProxyResetList)
        \/ \E uri \in Uris, t \in Texts : ProxyCreateStoryboard(uri, t)
    BY <1>6 DEF ProxyReset, ProxyResetNext
  <2> QED BY <1>1, <2>1, ResetsKeep
<1>7. CASE \/ ProxyWriteProgression \/ ProxySelectTimelines \/ ProxyDeleteTimelines
           \/ ProxyInsertTimeline
  BY <1>7, ProgressionKeeps, SelectTimelinesKeeps, DeleteTimelinesKeeps,
     InsertOtherKeeps, InsertOwnKeeps
<1>8. CASE ProxySelectComments \/ ProxyDeleteComments \/ ProxyInsertComment
  <2>1. SelectComments \/ DeleteComments \/ InsertComment
    BY <1>8 DEF ProxySelectComments, ProxyDeleteComments, ProxyInsertComment
  <2> QED BY <1>1, <2>1, SavesKeeps
<1>9. CASE RequestFails
  BY <1>1, <1>9, FailsKeeps
<1> QED BY <1>2, <1>3, <1>4, <1>5, <1>6, <1>7, <1>8, <1>9 DEF ProxyAPIStep

\* A step of a request.
LEMMA DayAPIStep ==
  ASSUME DNSProxyDayInv, APIStep, Recorded
  PROVE  DNSProxyDayInv'
<1>1. UNCHANGED jobVars /\ mlRun' = mlRun /\ UNCHANGED <<dendro, strayDendros>>
  BY DEF APIStep, mlVars, dendroVars
<1>2. JobInv /\ DendroDrawn /\ Counted /\ type' = type
  BY <1>1, DayIs
<1>3. RequestKeeps
  <2>1. CASE type = "dns" /\ DNSAPIStep
    BY <1>1, <2>1, DNSRequestKeeps
  <2>2. CASE type = "proxy" /\ ProxyAPIStep
    BY <1>1, <2>2, ProxyRequestKeeps
  <2> QED BY <2>1, <2>2 DEF APIStep
<1>4. Untouched /\ CountedOn /\ (type = "dns" => tables'["dendro"] = tables["dendro"])
  BY <1>3 DEF RequestKeeps, Untouched
<1>5. JobInv'
  <2>1. results' \in Copies /\ mlRun' \in Nat
    BY <1>1, <1>2, <1>4 DEF JobInv, JobTyped, Untouched
  <2>2. tables'["suspicious"] = tables["suspicious"] /\ tables'["edge"] = tables["edge"]
    BY <1>4 DEF Untouched
  <2> QED BY <1>1, <1>2, <1>4, <2>1, <2>2, JobStays
<1>6. DendroDrawn'
  <2>1. CASE type = "dns"
    <3>1. UNCHANGED <<oa, clearing, local, scores, edges, missed>>
      BY <1>1 DEF jobVars, childVars
    <3>2. /\ Showing' = Showing /\ ShownConns' = ShownConns
          /\ RowsOf("dendro")' = RowsOf("dendro")
      BY <1>4, <2>1, <3>1 DEF Showing, ShownConns, Untouched, RowsOf
    <3> QED BY <1>1, <1>2, <1>4, <2>1, <3>1, <3>2, DendroStays DEF DendroDrawn
  <2>2. CASE type # "dns"
    BY <1>2, <2>2 DEF DendroDrawn
  <2> QED BY <2>1, <2>2
<1> QED BY <1>3, <1>5, <1>6 DEF RequestKeeps, DNSProxyDayInv

-----------------------------------------------------------------------------

\* At first nothing is shown, scored or saved.
LEMMA DayInit == Init => DNSProxyDayInv
<1> SUFFICES ASSUME Init PROVE DNSProxyDayInv
  OBVIOUS
<1>1. RequestInv(Anchors, Asked) /\ JobInv
  BY RequestInvInit, JobInvInit DEF Init
<1>2. /\ type \in Types /\ oa = "idle" /\ api = "idle" /\ req = NoRequest /\ feedback = None
      /\ acked = {} /\ dendro = << >> /\ strayDendros = << >> /\ edges = << >>
      /\ \A t \in Tables : tables[t] = << >>
  BY DEF Init, JobInit, APIInit, StoreInit
<1>3. /\ {"suspicious", "threat_investigation"} \subseteq Tables
      /\ type = "dns" => {"dendro", "threat_dendro"} \subseteq Tables
      /\ type = "proxy" => "timeline" \in Tables
  <2>1. {"suspicious", "threat_investigation"} \subseteq Tables
    BY DayAssumption
  <2> QED BY <1>2, <2>1, TablesAre
<1>4. req.rows = << >> /\ req.tmp = << >> /\ req.expanded = << >>
  BY <1>2, NoRequestIs
<1>5. DayTyped
  BY <1>2, <1>3, NoneIn DEF DayTyped, Scoring
<1>6. DendroDrawn
  BY <1>2, <1>3, NoneIn DEF DendroDrawn, Showing
<1>7. TimelinesOnce
  BY <1>2, <1>3, <1>4, NoneIn DEF TimelinesOnce
<1>8. ScoredByUri
  <2>1. ConnsOf(req.rows) = {} /\ ConnsOf(tables["threat_investigation"]) = {}
    BY <1>2, <1>3, <1>4, ConnsOfIs
  <2>2. Closed({})
    BY DEF Closed
  <2> QED BY <1>2, <1>3, <2>1, <2>2 DEF ScoredByUri
<1>9. ScoredAreFed
  <2>1. Scored = {}
    BY <1>2, <1>3, NoneIn DEF Scored, RowsOf
  <2> QED BY <1>2, <2>1 DEF ScoredAreFed
<1>10. StoriesAreWhole
  <2>1. ~SavingComment
    BY <1>2 DEF SavingComment
  <2>2. type = "dns" =>
          /\ tables["threat_dendro"] \in Seq([anchor : Anchors \cup {None}, conn : Conns])
          /\ req.expanded \in Seq(Conns)
    BY <1>2, <1>3, <1>4, NoneIn
  <2> QED BY <1>2, <2>1, <2>2 DEF StoriesAreWhole
<1> QED BY <1>1, <1>5, <1>6, <1>7, <1>8, <1>9, <1>10 DEF DNSProxyDayInv

\* Every step keeps the invariant.
LEMMA DayNext == DNSProxyDayInv /\ [Next]_vars => DNSProxyDayInv'
<1> SUFFICES ASSUME DNSProxyDayInv, [Next]_vars PROVE DNSProxyDayInv'
  OBVIOUS
<1>1. JobInv /\ Counted
  BY DEF DNSProxyDayInv, RequestInv, RequestTyped
<1>2. CASE UNCHANGED vars
  <2>1. UNCHANGED <<storeVars, mlVars, jobVars, dendroVars, apiVars, type, overlap>>
    BY <1>2 DEF vars
  <2>2. /\ UNCHANGED <<tables, stories, feedback, acked, cleared>>
        /\ UNCHANGED <<results, starts, faults, undeleted, mlRun>>
        /\ UNCHANGED jobVars /\ UNCHANGED dendroVars /\ UNCHANGED apiVars
        /\ type' = type /\ overlap' = overlap
    BY <2>1 DEF storeVars, fileVars, history, bounds, mlVars
  <2>3. CountedOn
    BY <1>1, <2>2 DEF Counted, CountedOn
  <2>4. JobInv'
    BY <1>1, <2>2, <2>3, JobStays DEF JobInv, JobTyped
  <2>5. Recorded
    <3>1. (ClearingDay' <=> ClearingDay) /\ api' = api
      BY <2>2 DEF ClearingDay, jobVars, apiVars
    <3>2. ~overlap /\ ClearingDay => api = "idle"
      BY DEF DNSProxyDayInv, ScoredAreFed
    <3> QED BY <2>2, <3>1, <3>2 DEF Recorded
  <2> QED BY <2>2, <2>3, <2>4, <2>5, DayElsewhere
<1>3. CASE Next
  <2>1. Recorded
    BY <1>3 DEF Next, Recorded
  <2>2. CASE MLStep /\ UNCHANGED <<jobVars, dendroVars, apiVars>>
    <3>1. JobInv' /\ CountedOn /\ UNCHANGED <<tables, stories, feedback, acked, cleared>>
      BY <1>1, <2>2, MLStays
    <3> QED BY <2>1, <2>2, <3>1, DayElsewhere
  <2>3. CASE OAStep
    BY <2>1, <2>3, DayOAStep
  <2>4. CASE APIStep
    BY <2>1, <2>4, DayAPIStep
  <2> QED BY <1>3, <2>2, <2>3, <2>4 DEF Next
<1> QED BY <1>2, <1>3

\* Of the tables and files of a day of dns or of proxy data, whatever the jobs and the
\* API do between each other's steps, and whatever of it fails.
THEOREM DNSProxyDayInvariant == Spec => []DNSProxyDayInv
BY DayInit, DayNext, PTL DEF Spec

\* ScoresInFeedback: what an analyst scored is in the feedback file, with the severity
\* of the table or, of dns, one that covers it, though score_connection writes the
\* table and the file by separate calls.
THEOREM ScoredInFeedback == Spec => []ScoresInFeedback
<1>1. DNSProxyDayInv => ScoresInFeedback
  <2> SUFFICES ASSUME DNSProxyDayInv, api = "idle", Clean,
                      NEW r \in RowsOf("threat_investigation")
               PROVE  \E line \in Range(Before) : Fed(r, line)
    BY DEF ScoresInFeedback, Clean, Fed
  <2>1. Unfed = {}
    BY DEF Unfed
  <2> QED BY <2>1 DEF DNSProxyDayInv, ScoredAreFed, Scored
<1> QED BY <1>1, DNSProxyDayInvariant, PTL

\* HiddenAreScored: suspicious_requests hides by the URI, and score_connection scores
\* by it, all that the job took from the results.
THEOREM HiddenWereScored == Spec => []HiddenAreScored
<1>1. DNSProxyDayInv => HiddenAreScored
  <2> SUFFICES ASSUME DNSProxyDayInv, type = "proxy", NEW c \in Range(ShownConns),
                      ProxyHidden(c)
               PROVE  c \in {r.conn : r \in RowsOf("threat_investigation")}
    BY DEF HiddenAreScored, ShownConns
  <2> DEFINE scored == ConnsOf(tables["threat_investigation"])
  <2>1. scored = {r.conn : r \in RowsOf("threat_investigation")}
    BY ConnsOfIs DEF RowsOf
  <2>2. PICK d \in scored : Uri[d] = Uri[c]
    BY <2>1 DEF ProxyHidden
  <2>3. tables["suspicious"] # << >>
    BY ConnsOfIs
  <2>4. local # None /\ c \in Range(FirstRows(local.rows)) /\ Closed(scored)
    BY <2>3 DEF DNSProxyDayInv, ScoredByUri
  <2> HIDE DEF scored
  <2>5. c \in scored
    BY <2>2, <2>4 DEF Closed
  <2> QED BY <2>1, <2>5
<1> QED BY <1>1, DNSProxyDayInvariant, PTL

\* OneTimelinePerThreat: create_timeline, which deletes all timelines and inserts them
\* again, leaves no threat two.
THEOREM TimelinesOfThreats == Spec => []OneTimelinePerThreat
<1>1. DNSProxyDayInv => OneTimelinePerThreat
  BY DEF DNSProxyDayInv, TimelinesOnce, OneTimelinePerThreat, IsInjective
<1> QED BY <1>1, DNSProxyDayInvariant, PTL

\* SavedStoriesShown: of a story that create_storyboard answered is saved the tables
\* hold the comment and the timeline (proxy) or the dendrogram (dns), though each is
\* written by calls of its own.
THEOREM SavedAreShown == Spec => []SavedStoriesShown
<1>1. DNSProxyDayInv => SavedStoriesShown
  <2> SUFFICES ASSUME DNSProxyDayInv, Clean, ~ClearingDay, NEW c \in acked
               PROVE  /\ CommentKept(c)
                      /\ type = "proxy" => TimelineKept(c.anchor)
                      /\ type = "dns" => Range(DNSExpandedSearch(c.anchor))
                                           \subseteq DNSIncidentProgression(c.anchor)
    BY DEF SavedStoriesShown, Clean
  <2>1. CommentKept(c)
    BY DEF DNSProxyDayInv, RequestInv, CommentsInv, AckedAreKept, Clean
  <2>2. Whole(c.anchor)
    BY DEF DNSProxyDayInv, StoriesAreWhole
  <2>3. type = "dns" => Range(DNSExpandedSearch(c.anchor))
                          \subseteq DNSIncidentProgression(c.anchor)
    <3>1. SUFFICES ASSUME type = "dns", NEW d \in Range(DNSExpandedSearch(c.anchor))
                   PROVE  d \in DNSIncidentProgression(c.anchor)
      OBVIOUS
    <3> DEFINE row == [anchor |-> c.anchor, conn |-> d]
    <3>2. row \in RowsOf("threat_dendro")
      BY <2>2, <3>1 DEF Whole, DNSStory
    <3>3. row.anchor = c.anchor /\ row.conn = d
      OBVIOUS
    <3> HIDE DEF row
    <3> QED BY <3>2, <3>3 DEF DNSIncidentProgression
  <2> QED BY <2>1, <2>2, <2>3 DEF Whole
<1> QED BY <1>1, DNSProxyDayInvariant, PTL

\* ShownHaveDetails: a job whose children did all of their work has inserted details
\* of every connection it shows and, of dns, the dendrogram of its client, whatever
\* of an earlier run was killed.
THEOREM DetailsOfShown == Spec => []ShownHaveDetails
<1>1. DNSProxyDayInv => ShownHaveDetails
  <2> SUFFICES ASSUME DNSProxyDayInv, oa = "done", ~missed, undeleted = 0,
                      NEW r \in RowsOf("suspicious")
               PROVE  /\ \E records \in RowsOf("edge") : records \in Details(r.conn)
                      /\ type = "dns" => Client[r.conn] \in RowsOf("dendro")
    BY DEF ShownHaveDetails
  <2>1. r.conn \in Range(ShownConns)
    BY ConnsOfIs DEF RowsOf
  <2>2. \E records \in RowsOf("edge") : records \in Details(r.conn)
    BY <2>1, DetailsAreShown DEF DNSProxyDayInv, Inserted
  <2>3. type = "dns" => Client[r.conn] \in RowsOf("dendro")
    BY <2>1 DEF DNSProxyDayInv, DendroDrawn
  <2> QED BY <2>2, <2>3
<1> QED BY <1>1, DNSProxyDayInvariant, PTL

\* DetailsAreOfShown: once a run has cleared the day, its details are of connections
\* that are shown or that a killed run left to its child, whichever inserts when.
THEOREM DetailsOfThisRun == Spec => []DetailsAreOfShown
<1>1. DNSProxyDayInv => DetailsAreOfShown
  <2>1. Range(ShownConns) = {r.conn : r \in RowsOf("suspicious")}
    BY ConnsOfIs DEF RowsOf
  <2> QED BY <2>1, DetailsAreShown DEF DNSProxyDayInv, DetailsAreOfShown, EdgesAreOf
<1> QED BY <1>1, DNSProxyDayInvariant, PTL

=============================================================================
