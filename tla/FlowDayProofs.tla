--------------------------- MODULE FlowDayProofs ----------------------------
(***************************************************************************)
(* Proofs about FlowDay: what holds of a day of flow data whichever the    *)
(* connections, results, requests and bounds are.                          *)
(***************************************************************************)
EXTENDS FlowDay, DayProofs

Lines == {Line(sev, conn) : sev \in Scores \cup {None}, conn \in Conns \cup {None}}

\* The job goes on to the summary when its children are done.
JoinedFirst == oa = "summary" => edges = << >>

\* HeaderOnlyFirst, ScoresOfOneRun, OneCommentPerIp, AckedCommentsKept and
\* ShownHaveDetails with what they rest on.
FlowDayInv ==
  /\ RequestInv(CommentIps, Scores)
  /\ JobInv
  /\ JoinedFirst
  /\ feedback \in Seq(Lines) \cup {None}
  /\ HeaderOnlyFirst

\* The list begins with the directories of the scores and of the details.
LEMMA ClearListIs ==
  /\ ClearList \in Seq(Tables \cup {Nowhere}) /\ Len(ClearList) = 7
  /\ ClearList[1] = "suspicious" /\ ClearList[2] = "edge"
  /\ \A i \in 1 .. 7 : ClearList[i] \in Tables \cup {Nowhere}
<1>1. {"suspicious", "edge", "chords", "threat_investigation", "timeline",
       "storyboard", "summary"} \subseteq Tables
  BY FlowAssumption DEF FlowTables
<1> QED BY <1>1 DEF ClearList

\* At first.
LEMMA FlowInit == Init => FlowDayInv
<1> SUFFICES ASSUME Init PROVE FlowDayInv
  OBVIOUS
<1>1. JobInv /\ RequestInv(CommentIps, Scores)
  BY JobInvInit, RequestInvInit DEF Init, OAInit
<1>2. JoinedFirst /\ feedback = None
  BY DEF Init, OAInit, JobInit, StoreInit, JoinedFirst
<1> QED BY <1>1, <1>2 DEF FlowDayInv, HeaderOnlyFirst

\* A step that is none of the job's and leaves what it inserted.
LEMMA FlowJobStays ==
  ASSUME FlowDayInv, UNCHANGED jobVars, Untouched, mlRun' = mlRun
  PROVE  JobInv' /\ JoinedFirst'
<1>1. results' \in Copies /\ mlRun' \in Nat
  BY DEF FlowDayInv, JobInv, JobTyped, Untouched
<1>2. JobInv'
  BY <1>1, JobStays DEF FlowDayInv, RequestInv, RequestTyped, Untouched
<1>3. JoinedFirst'
  BY DEF FlowDayInv, JoinedFirst, jobVars, childVars
<1> QED BY <1>2, <1>3

\* The header stays first when no line is added.
LEMMA FeedbackStays ==
  ASSUME FlowDayInv, CountedOn, feedback' \in {feedback, None}
  PROVE  feedback' \in Seq(Lines) \cup {None} /\ HeaderOnlyFirst'
<1>1. faults' = 0 => faults = 0
  BY DEF FlowDayInv, RequestInv, RequestTyped, CountedOn, Counted
<1> QED BY <1>1 DEF FlowDayInv, HeaderOnlyFirst

\* A step of the machine learning job.
LEMMA FlowMLStep ==
  ASSUME FlowDayInv, MLStep, UNCHANGED <<oaVars, apiVars>>
  PROVE  FlowDayInv'
<1>1. UNCHANGED jobVars /\ UNCHANGED apiVars
  BY DEF oaVars
<1>2. JobInv' /\ CountedOn /\ UNCHANGED <<tables, stories, feedback, acked, cleared>>
  BY <1>1, MLStays DEF FlowDayInv, RequestInv, RequestTyped
<1>3. JoinedFirst'
  BY <1>1 DEF FlowDayInv, JoinedFirst, jobVars, childVars
<1>4. RequestInv(CommentIps, Scores)'
  <2>1. DOMAIN tables' = Tables /\ tables'["storyboard"] = tables["storyboard"]
    BY <1>2 DEF FlowDayInv, RequestInv, RequestTyped
  <2> QED BY <1>1, <1>2, <2>1, RequestStays DEF FlowDayInv
<1> QED BY <1>2, <1>3, <1>4, FeedbackStays DEF FlowDayInv

\* What an action of the job does to the request: it clears a directory, or leaves
\* the story board alone.
BoardIsCleared ==
  \/ /\ tables'["storyboard"] = tables["storyboard"] /\ DOMAIN tables' = Tables
     /\ UNCHANGED <<acked, cleared>>
  \/ \E t \in Tables \cup {Nowhere} : Clear(t)

\* The actions of the job that insert nothing.
LEMMA FlowPreparesStep ==
  ASSUME FlowDayInv, mlRun' = mlRun,
         OAStart \/ OAClear \/ OAClearFeedback \/ OAClearStories \/ GetResults
  PROVE  /\ JobInv' /\ CountedOn /\ JoinedFirst' /\ BoardIsCleared
         /\ feedback' \in {feedback, None}
<1>1. Counted /\ DOMAIN tables = Tables /\ JobInv
  BY DEF FlowDayInv, RequestInv, RequestTyped
<1>2. CASE OAStart
  <2>1. JobStarts
    BY <1>2 DEF OAStart
  <2>2. oa' = "clear" /\ UNCHANGED <<tables, feedback, acked, cleared>>
    BY <2>1 DEF JobStarts, fileVars, history
  <2> QED BY <1>1, <2>1, <2>2, JobStartsStep DEF JoinedFirst, BoardIsCleared
<1>3. CASE OAClear
  <2>1. JobClears(ClearList)
    BY <1>3 DEF OAClear
  <2>2. /\ oa' = "clear" /\ feedback' = feedback
        /\ clearing < 7 /\ Clear(ClearList[clearing + 1])
    BY <2>1, ClearListIs DEF JobClears, fileVars
  <2>3. ClearList[clearing + 1] \in Tables \cup {Nowhere}
    <3>1. clearing + 1 \in 1 .. 7
      BY <1>1, <2>2 DEF JobInv, JobTyped
    <3> QED BY <3>1, ClearListIs
  <2>4. JobInv'
    BY <1>1, <2>1, ClearListIs, JobClearsStep
  <2>5. CountedOn
    BY <1>1, <2>2, <2>3, ClearEmpties
  <2> QED BY <2>2, <2>3, <2>4, <2>5 DEF JoinedFirst, BoardIsCleared
<1>4. CASE OAClearFeedback \/ OAClearStories
  <2>1. JobClearsFeedback(ClearList) \/ JobClearsStories
    BY <1>4 DEF OAClearFeedback, OAClearStories
  <2>2. /\ oa' \in {"stories", "results"} /\ UNCHANGED <<tables, acked, cleared>>
        /\ feedback' \in {feedback, None}
    BY <2>1 DEF JobClearsFeedback, JobClearsStories, history
  <2>3. JobInv' /\ CountedOn
    <3>1. ClearList \in Seq(Tables \cup {Nowhere}) /\ Len(ClearList) >= 2
      BY ClearListIs
    <3> QED BY <1>1, <2>1, <3>1, JobClearsFilesStep
  <2> QED BY <1>1, <2>2, <2>3 DEF JoinedFirst, BoardIsCleared
<1>5. CASE GetResults
  <2>1. JobGetsResults
    BY <1>5 DEF GetResults
  <2>2. oa' \in {"idle", "scores"} /\ UNCHANGED <<tables, feedback, acked, cleared>>
    BY <2>1 DEF JobGetsResults, OAExit, storeVars, fileVars, history
  <2> QED BY <1>1, <2>1, <2>2, JobGetsResultsStep DEF JoinedFirst, BoardIsCleared
<1> QED BY <1>2, <1>3, <1>4, <1>5

\* A child inserts a chord, whichever job it is of.
LEMMA FlowInsertsChord ==
  ASSUME FlowDayInv, mlRun' = mlRun, UNCHANGED jobVars,
         UNCHANGED <<feedback, results, acked, cleared>>, UNCHANGED <<starts, faults, undeleted>>,
         NEW rows, Insert("chords", rows)
  PROVE  /\ JobInv' /\ CountedOn /\ JoinedFirst' /\ BoardIsCleared /\ feedback' = feedback
<1>1. Counted /\ DOMAIN tables = Tables /\ JobInv /\ JoinedFirst
  BY DEF FlowDayInv, RequestInv, RequestTyped
<1>2. {"suspicious", "edge", "chords", "storyboard"} \subseteq Tables
  BY FlowAssumption DEF FlowTables
<1>3. /\ DOMAIN tables' = Tables /\ tables'["storyboard"] = tables["storyboard"]
      /\ tables'["suspicious"] = tables["suspicious"] /\ tables'["edge"] = tables["edge"]
  BY <1>1, <1>2, InsertAppends
<1>4. CountedOn /\ results' \in Copies /\ mlRun' \in Nat
  BY <1>1 DEF Counted, CountedOn, JobInv, JobTyped
<1>5. JoinedFirst'
  BY <1>1 DEF JoinedFirst, jobVars, childVars
<1>6. JobInv'
  BY <1>1, <1>3, <1>4, JobStays
<1> QED BY <1>3, <1>4, <1>5, <1>6 DEF BoardIsCleared

\* Those that insert, and those that end it.
LEMMA FlowInsertsStep ==
  ASSUME FlowDayInv, mlRun' = mlRun,
         \/ CreateFlowScores \/ InsertEdge \/ InsertChord \/ ChildDies \/ JoinChildren
         \/ IngestSummary \/ OAFails \/ OAKilled \/ OAOrphans
  PROVE  /\ JobInv' /\ CountedOn /\ JoinedFirst' /\ BoardIsCleared /\ feedback' = feedback
<1>1. Counted /\ DOMAIN tables = Tables /\ JobInv /\ JoinedFirst
  BY DEF FlowDayInv, RequestInv, RequestTyped
<1>2. {"suspicious", "edge", "chords", "storyboard", "summary"} \subseteq Tables
  BY FlowAssumption DEF FlowTables
<1>3. results \in Copies /\ mlRun' \in Nat
  BY DEF FlowDayInv, JobInv, JobTyped
<1>4. CASE CreateFlowScores
  <2>1. JobInsertsScores("details")
    BY <1>4 DEF CreateFlowScores
  <2>2. /\ oa' = "details" /\ UNCHANGED <<feedback, acked, cleared>>
        /\ \E rows : Insert("suspicious", rows)
    BY <2>1 DEF JobInsertsScores, fileVars, history
  <2>3. DOMAIN tables' = Tables /\ tables'["storyboard"] = tables["storyboard"]
    BY <1>1, <1>2, <2>2, InsertAppends
  <2> QED BY <1>1, <2>1, <2>2, <2>3, JobInsertsScoresStep DEF JoinedFirst, BoardIsCleared
<1>5. CASE InsertEdge
  <2>1. JobInsertsEdge
    BY <1>5 DEF InsertEdge
  <2>2. /\ oa' = oa /\ edges # << >> /\ UNCHANGED <<feedback, acked, cleared>>
        /\ \E rows : Insert("edge", rows)
    BY <2>1 DEF JobInsertsEdge, NextEdge, fileVars, history
  <2>3. DOMAIN tables' = Tables /\ tables'["storyboard"] = tables["storyboard"]
    BY <1>1, <1>2, <2>2, InsertAppends
  <2> QED BY <1>1, <2>1, <2>2, <2>3, JobInsertsEdgeStep DEF JoinedFirst, BoardIsCleared
<1>6. CASE InsertChord
  <2>1. /\ UNCHANGED jobVars /\ UNCHANGED <<feedback, results, acked, cleared>>
        /\ UNCHANGED <<starts, faults, undeleted>>
        /\ \E rows : Insert("chords", rows)
    BY <1>6 DEF InsertChord, fileVars, history, bounds
  <2> QED BY <1>1, <1>2, <1>3, <2>1, FlowInsertsChord DEF FlowDayInv
<1>7. CASE ChildDies
  <2>1. /\ Fault /\ UNCHANGED <<tables, feedback, results, acked, cleared>> /\ oa' = oa
        /\ edges' \in {edges, << >>}
    BY <1>7 DEF ChildDies, EdgeChildDies, fileVars, history, jobVars, childVars
  <2>2. CountedOn /\ BoardIsCleared /\ JoinedFirst'
    BY <1>1, <2>1, OneIsCounted DEF BoardIsCleared, JoinedFirst
  <2>3. CASE EdgeChildDies
    <3>1. /\ edges # << >> /\ edges' = << >> /\ missed' = TRUE
          /\ UNCHANGED <<oa, clearing, local, scores, strayVars>>
      BY <2>3 DEF EdgeChildDies
    <3> QED BY <1>1, <2>1, <2>2, <3>1, EdgesAreLost
  <2>4. CASE UNCHANGED jobVars
    BY <1>1, <1>3, <2>1, <2>2, <2>4, JobStays
  <2> QED BY <1>7, <2>1, <2>2, <2>3, <2>4 DEF ChildDies
<1>8. CASE JoinChildren
  <2>1. /\ oa = "details" /\ oa' = "summary" /\ edges = << >>
        /\ UNCHANGED <<clearing, local, scores, childVars>>
        /\ UNCHANGED <<tables, feedback, results, acked, cleared>>
        /\ UNCHANGED <<starts, faults, undeleted>>
    BY <1>8 DEF JoinChildren, storeVars, fileVars, history, bounds
  <2>2. CountedOn
    BY <1>1, <2>1 DEF Counted, CountedOn
  <2>3. Showing /\ Showing'
    BY <2>1 DEF Showing
  <2>4. JobInv'
    BY <1>1, <1>3, <2>1, <2>2, <2>3, JobGoesOn
  <2>5. JoinedFirst'
    BY <2>1 DEF JoinedFirst, childVars
  <2> QED BY <1>1, <2>1, <2>2, <2>4, <2>5 DEF BoardIsCleared
<1>9. CASE IngestSummary
  <2>1. /\ oa = "summary" /\ OAExit("done") /\ Insert("summary", << "total" >>)
        /\ UNCHANGED <<local, strayVars, missed, feedback, results, acked, cleared>>
        /\ UNCHANGED <<starts, faults, undeleted>>
    BY <1>9 DEF IngestSummary, JobSummary, fileVars, history, bounds
  <2>2. CountedOn
    BY <1>1, <2>1 DEF Counted, CountedOn
  <2>3. /\ DOMAIN tables' = Tables /\ tables'["storyboard"] = tables["storyboard"]
        /\ tables'["suspicious"] = tables["suspicious"] /\ tables'["edge"] = tables["edge"]
    BY <1>1, <1>2, <2>1, InsertAppends
  <2>4. Showing /\ edges = << >> /\ "done" \in OAEnded
    BY <1>1, <2>1 DEF Showing, JoinedFirst, OAEnded
  <2>5. JobInv'
    BY <1>1, <2>1, <2>2, <2>3, <2>4, JobEnds
  <2>6. JoinedFirst'
    BY <2>1 DEF OAExit, JoinedFirst
  <2> QED BY <2>1, <2>2, <2>3, <2>5, <2>6 DEF BoardIsCleared
<1>10. CASE OAFails
  <2>1. JobFails
    BY <1>10 DEF OAFails
  <2>2. oa' = "idle" /\ UNCHANGED <<tables, feedback, acked, cleared>>
    BY <2>1 DEF JobFails, OAExit, fileVars, history
  <2> QED BY <1>1, <2>1, <2>2, JobFailsStep DEF JoinedFirst, BoardIsCleared
<1>11. CASE OAKilled
  <2>1. JobKilled
    BY <1>11 DEF OAKilled
  <2>2. oa' = "idle" /\ UNCHANGED <<tables, feedback, acked, cleared>>
    BY <2>1 DEF JobKilled, OAExit, fileVars, history
  <2> QED BY <1>1, <2>1, <2>2, JobKilledStep DEF JoinedFirst, BoardIsCleared
<1>12. CASE OrphanInsertsEdge
  <2>1. /\ oa' = oa /\ edges' = edges /\ UNCHANGED <<feedback, acked, cleared>>
        /\ \E rows : Insert("edge", rows)
    BY <1>12 DEF OrphanInsertsEdge, fileVars, history
  <2>2. DOMAIN tables' = Tables /\ tables'["storyboard"] = tables["storyboard"]
    BY <1>1, <1>2, <2>1, InsertAppends
  <2> QED BY <1>1, <1>12, <2>1, <2>2, OrphanInsertsEdgeStep DEF JoinedFirst, BoardIsCleared
<1>13. CASE OrphanDies
  <2>1. oa' = oa /\ edges' = edges /\ UNCHANGED <<tables, feedback, acked, cleared>>
    BY <1>13 DEF OrphanDies, storeVars, fileVars, history
  <2> QED BY <1>1, <1>13, <2>1, OrphanDiesStep DEF JoinedFirst, BoardIsCleared
<1>14. CASE OrphanInsertsChord
  <2>1. /\ UNCHANGED jobVars /\ UNCHANGED <<feedback, results, acked, cleared>>
        /\ UNCHANGED <<starts, faults, undeleted>>
        /\ \E rows : Insert("chords", rows)
    BY <1>14 DEF OrphanInsertsChord, fileVars, history, bounds
  <2> QED BY <1>1, <1>2, <1>3, <2>1, FlowInsertsChord DEF FlowDayInv
<1>15. CASE UNCHANGED <<jobVars, storeVars>>
  <2>1. UNCHANGED <<tables, feedback, results, acked, cleared, starts, faults, undeleted>>
    BY <1>15 DEF storeVars, fileVars, history, bounds
  <2>2. CountedOn /\ JoinedFirst'
    BY <1>1, <1>15, <2>1 DEF Counted, CountedOn, JoinedFirst, jobVars, childVars
  <2>3. JobInv'
    BY <1>1, <1>3, <1>15, <2>1, <2>2, JobStays
  <2> QED BY <1>1, <2>1, <2>2, <2>3 DEF BoardIsCleared
<1>16. OAOrphans => OrphanInsertsEdge \/ OrphanDies \/ OrphanInsertsChord
                     \/ UNCHANGED <<jobVars, storeVars>>
  BY DEF OAOrphans
<1> QED BY <1>4, <1>5, <1>6, <1>7, <1>8, <1>9, <1>10, <1>11, <1>12, <1>13, <1>14, <1>15, <1>16

\* A step of the job.
LEMMA FlowOAStep ==
  ASSUME FlowDayInv, OAStep, UNCHANGED <<mlVars, apiVars>>
  PROVE  FlowDayInv'
<1>1. mlRun' = mlRun /\ UNCHANGED apiVars
  BY DEF mlVars
<1>2. /\ JobInv' /\ CountedOn /\ JoinedFirst' /\ BoardIsCleared
      /\ feedback' \in {feedback, None}
  BY <1>1, FlowPreparesStep, FlowInsertsStep DEF OAStep
<1>3. RequestInv(CommentIps, Scores)'
  <2>1. CASE \E t \in Tables \cup {Nowhere} : Clear(t)
    BY <1>1, <2>1, RequestStaysCleared DEF FlowDayInv
  <2>2. CASE /\ tables'["storyboard"] = tables["storyboard"] /\ DOMAIN tables' = Tables
             /\ UNCHANGED <<acked, cleared>>
    BY <1>1, <1>2, <2>2, RequestStays DEF FlowDayInv
  <2> QED BY <1>2, <2>1, <2>2 DEF BoardIsCleared
<1> QED BY <1>2, <1>3, FeedbackStays DEF FlowDayInv

\* A line is a header only when it is of no connection.
LEMMA LinesAre ==
  /\ Header \in Lines
  /\ \A s \in Scores \cup {None}, c \in Conns : Line(s, c) \in Lines /\ Line(s, c) # Header
<1>1. \A s, c : Line(s, c).conn = c
  BY DEF Line
<1>2. Header.conn = None
  BY <1>1 DEF Header
<1>3. \A s \in Scores \cup {None}, c \in Conns : Line(s, c) \in Lines /\ Line(s, c) # Header
  BY <1>1, <1>2, DayAssumption DEF Lines
<1> QED BY <1>3 DEF Header, Lines

\* Scoring writes the feedback file.
LEMMA FlowPutStep ==
  ASSUME FlowDayInv, PutFeedback
  PROVE  /\ feedback' \in Seq(Lines) \cup {None} /\ HeaderOnlyFirst'
         /\ feedback # None /\ feedback' # None => IsPrefix(feedback, feedback')
<1> DEFINE rows == [i \in DOMAIN req.rows |-> Line(req.score, req.rows[i].conn)]
           lead == IF req.append_file THEN << >> ELSE << Header >>
<1>1. req.rows \in Seq(ShownRows) /\ req.score \in Scores \cup {None} /\ Counted
      /\ feedback \in Seq(Lines) \cup {None}
  BY DEF FlowDayInv, RequestInv, RequestTyped
<1>2. /\ rows \in Seq(Lines)
      /\ \A i \in DOMAIN rows : rows[i] # Header
  <2>1. DOMAIN req.rows = 1 .. Len(req.rows) /\ Len(req.rows) \in Nat
    BY <1>1
  <2>2. \A i \in DOMAIN req.rows : req.rows[i].conn \in Conns
    <3>1. \A i \in DOMAIN req.rows : req.rows[i] \in ShownRows
      BY <1>1
    <3> QED BY <3>1 DEF ShownRows
  <2>3. \A i \in DOMAIN req.rows :
          Line(req.score, req.rows[i].conn) \in Lines /\ Line(req.score, req.rows[i].conn) # Header
    BY <1>1, <2>2, LinesAre
  <2>4. rows \in [1 .. Len(req.rows) -> Lines] /\ \A i \in DOMAIN rows : rows[i] # Header
    BY <2>1, <2>3
  <2> HIDE DEF rows
  <2> QED BY <2>1, <2>4
<1>3. lead \in Seq(Lines)
  <2>1. << >> \in Seq(Lines) /\ << Header >> \in Seq(Lines)
    BY LinesAre
  <2> QED BY <2>1
<1>4. PutsFeedback(lead \o rows)
  BY DEF PutFeedback, FeedbackLines
<1>5. lead = IF req.append_file THEN << >> ELSE << Header >>
  OBVIOUS
<1> HIDE DEF rows, lead
<1>6. lead \o rows \in Seq(Lines)
  BY <1>2, <1>3
<1>7. /\ feedback' \in Seq(Lines) \cup {None}
      /\ feedback # None /\ feedback' # None => IsPrefix(feedback, feedback')
  BY <1>1, <1>4, <1>6, PutsFeedbackStep
<1>8. HeaderOnlyFirst'
  <2>1. PutsFeedback((IF req.append_file THEN << >> ELSE << Header >>) \o rows)
    BY <1>4, <1>5
  <2>2. feedback # None =>
          /\ faults = 0 => feedback # << >> /\ feedback[1] = Header
          /\ \A i \in 2 .. Len(feedback) : feedback[i] # Header
    BY DEF FlowDayInv, HeaderOnlyFirst
  <2>3. feedback' # None =>
          /\ faults' = 0 => feedback' # << >> /\ feedback'[1] = Header
          /\ \A i \in 2 .. Len(feedback') : feedback'[i] # Header
    BY <1>1, <1>2, <2>1, <2>2, LinesAre, HeaderStaysFirst
  <2> QED BY <2>3 DEF HeaderOnlyFirst
<1> QED BY <1>7, <1>8

\* The requests that score.
LEMMA FlowScoresStep ==
  ASSUME FlowDayInv,
         \/ \E chosen \in Criteria, s \in Scores : SelectToScore(chosen, s)
         \/ InsertScores \/ ListFeedback \/ PutFeedback
  PROVE  /\ RequestInv(CommentIps, Scores)' /\ Untouched
         /\ PutFeedback \/ feedback' = feedback
<1>1. RequestInv(CommentIps, Scores) /\ JobInv
  BY DEF FlowDayInv
<1>2. CASE \E chosen \in Criteria, s \in Scores : SelectToScore(chosen, s)
  <2>1. PICK chosen \in Criteria, s \in Scores : Selects([c \in Conns |-> c \in chosen], s)
    BY <1>2 DEF SelectToScore
  <2> QED BY <1>1, <2>1, SelectsStep
<1>3. CASE InsertScores
  BY <1>1, <1>3, InsertsScoredStep DEF InsertScores
<1>4. CASE ListFeedback
  BY <1>1, <1>4, ListFeedbackStep
<1>5. CASE PutFeedback
  BY <1>1, <1>5, PutFeedbackStep DEF PutFeedback
<1> QED BY <1>2, <1>3, <1>4, <1>5

\* Those that create a story.
LEMMA FlowStoryStep ==
  ASSUME FlowDayInv,
         \/ \E a \in CommentIps, t \in Texts : CreateStoryboard(a, t)
         \/ WriteStoryFiles \/ CreateTimeLine \/ SelectComments \/ DeleteComments \/ InsertComment
  PROVE  RequestInv(CommentIps, Scores)' /\ Untouched /\ feedback' = feedback
<1>1. RequestInv(CommentIps, Scores) /\ Counted /\ DOMAIN req = DOMAIN NoRequest
  BY DEF FlowDayInv, RequestInv, RequestTyped, CommentsInv, CommentsTyped
<1>2. CASE \E a \in CommentIps, t \in Texts : CreateStoryboard(a, t)
  <2>1. PICK a \in CommentIps, t \in Texts : CreateStoryboard(a, t)
    BY <1>2
  <2>2. StartsStory("files", a, t, << >>)
    BY <2>1, StoryWithoutRows DEF CreateStoryboard, StartsStory
  <2>3. {"files"} \cap {"delete comments", "insert comments"} = {}
    OBVIOUS
  <2> QED BY <1>1, <2>2, <2>3, StoryStarts
<1>3. CASE WriteStoryFiles
  <2>1. /\ api = "files" /\ api' = "timeline" /\ req' = req
        /\ UNCHANGED <<tables, feedback, results, acked, cleared>>
        /\ Fault \/ UNCHANGED bounds
    BY <1>3 DEF WriteStoryFiles, WritesStory, Then, history
  <2>2. CountedOn
    BY <1>1, <2>1, OneIsCounted
  <2> QED BY <1>1, <2>1, <2>2, RequestInserts
<1>4. CASE CreateTimeLine
  <2>1. /\ api = "timeline" /\ api' = "select comments" /\ req' = req
        /\ Insert("timeline", << req.anchor >>)
        /\ UNCHANGED <<feedback, results, acked, cleared>> /\ UNCHANGED bounds
    BY <1>4 DEF CreateTimeLine, Then, fileVars, history
  <2>2. CountedOn
    BY <1>1, <2>1, OneIsCounted
  <2>3. "timeline" \in Tables \ {"suspicious", "edge", "storyboard"}
    BY FlowAssumption DEF FlowTables
  <2> QED BY <1>1, <2>1, <2>2, <2>3, RequestInserts
<1>5. CASE SelectComments \/ DeleteComments \/ InsertComment
  BY <1>1, <1>5, SavesComment
<1> QED BY <1>2, <1>3, <1>4, <1>5

\* Those that reset, and any that fails.
LEMMA FlowResetsStep ==
  ASSUME FlowDayInv, ResetScored \/ ResetTable \/ RequestFails
  PROVE  RequestInv(CommentIps, Scores)' /\ Untouched /\ feedback' = feedback
<1>1. RequestInv(CommentIps, Scores)
  BY DEF FlowDayInv
<1>2. CASE ResetScored
  BY <1>1, <1>2, ResetsStep DEF ResetScored
<1>3. CASE ResetTable
  <2> DEFINE T == {"storyboard", "threat_investigation", "timeline"}
  <2>1. /\ T \in SUBSET (Tables \cup {Nowhere}) /\ "suspicious" \notin T /\ "edge" \notin T
        /\ Len(ResetList) = 3 /\ \A i \in 1 .. 3 : ResetList[i] \in T
    BY FlowAssumption DEF FlowTables, ResetList
  <2>2. ResetsNext(ResetList)
    BY <1>3 DEF ResetTable
  <2> HIDE DEF T
  <2> QED BY <1>1, <2>1, <2>2, ResetsNextStep
<1>4. CASE RequestFails
  BY <1>1, <1>4, RequestFailsKeeps
<1> QED BY <1>2, <1>3, <1>4

\* A step of a request.
LEMMA FlowAPIStep ==
  ASSUME FlowDayInv, APIStep, UNCHANGED <<mlVars, oaVars>>
  PROVE  FlowDayInv'
<1>1. mlRun' = mlRun /\ UNCHANGED jobVars
  BY DEF mlVars, oaVars
<1>2. /\ RequestInv(CommentIps, Scores)' /\ Untouched
      /\ PutFeedback \/ feedback' = feedback
  BY FlowScoresStep, FlowStoryStep, FlowResetsStep DEF APIStep
<1>3. JobInv' /\ JoinedFirst'
  BY <1>1, <1>2, FlowJobStays
<1>4. feedback' \in Seq(Lines) \cup {None} /\ HeaderOnlyFirst'
  <2>1. CASE PutFeedback
    BY <2>1, FlowPutStep
  <2>2. CASE feedback' = feedback
    BY <1>2, <2>2, FeedbackStays DEF Untouched
  <2> QED BY <1>2, <2>1, <2>2
<1> QED BY <1>2, <1>3, <1>4 DEF FlowDayInv

-----------------------------------------------------------------------------

\* Every step keeps the invariant.
LEMMA FlowNext == FlowDayInv /\ [Next]_vars => FlowDayInv'
<1> SUFFICES ASSUME FlowDayInv, [Next]_vars PROVE FlowDayInv'
  OBVIOUS
<1>1. CASE UNCHANGED vars
  <2>1. UNCHANGED <<storeVars, mlVars, oaVars, apiVars>>
    BY <1>1 DEF vars
  <2>2. /\ UNCHANGED <<tables, stories, feedback, results, acked, cleared, starts, faults, undeleted>>
        /\ UNCHANGED <<jobVars, apiVars, mlRun>>
    BY <2>1 DEF storeVars, fileVars, history, bounds, oaVars, mlVars
  <2>3. CountedOn /\ Untouched
    BY <2>2 DEF FlowDayInv, RequestInv, RequestTyped, Counted, CountedOn, Untouched
  <2>4. JobInv' /\ JoinedFirst'
    BY <2>2, <2>3, FlowJobStays
  <2>5. RequestInv(CommentIps, Scores)'
    <3>1. DOMAIN tables' = Tables /\ tables'["storyboard"] = tables["storyboard"]
      BY <2>2 DEF FlowDayInv, RequestInv, RequestTyped
    <3> QED BY <2>2, <2>3, <3>1, RequestStays DEF FlowDayInv
  <2> QED BY <2>2, <2>3, <2>4, <2>5, FeedbackStays DEF FlowDayInv
<1>2. CASE MLStep /\ UNCHANGED <<oaVars, apiVars>>
  BY <1>2, FlowMLStep
<1>3. CASE OAStep /\ UNCHANGED <<mlVars, apiVars>>
  BY <1>3, FlowOAStep
<1>4. CASE APIStep /\ UNCHANGED <<mlVars, oaVars>>
  BY <1>4, FlowAPIStep
<1> QED BY <1>1, <1>2, <1>3, <1>4 DEF Next

\* Of the tables and the feedback file of a day of flow data, whatever the jobs and
\* the API do between each other's steps, and whatever of it fails.
THEOREM FlowDayInvariant == Spec => []FlowDayInv
BY FlowInit, FlowNext, PTL DEF Spec

\* HeaderOnlyFirst: score_connection writes the header of the feedback file first,
\* and never again, though it decides on it by a listing that may be wrong when it
\* writes.
THEOREM HeaderIsFirst == Spec => []HeaderOnlyFirst
<1>1. FlowDayInv => HeaderOnlyFirst
  BY DEF FlowDayInv
<1> QED BY <1>1, FlowDayInvariant, PTL

\* FeedbackOnlyGrows: no step but the removal of the whole file takes a line from it
\* or changes one.
THEOREM FeedbackGrows == Spec => FeedbackOnlyGrows
<1> DEFINE Grows == feedback # None /\ feedback' # None => IsPrefix(feedback, feedback')
<1>1. FlowDayInv /\ [Next]_vars => [Grows]_feedback
  <2> SUFFICES ASSUME FlowDayInv, Next, feedback' # feedback, feedback' # None PROVE Grows
    BY DEF vars, storeVars, fileVars
  <2>1. CASE MLStep /\ UNCHANGED <<oaVars, apiVars>>
    <3>1. feedback' = feedback
      BY <2>1, MLStays DEF FlowDayInv, RequestInv, RequestTyped, oaVars
    <3> QED BY <3>1
  <2>2. CASE OAStep /\ UNCHANGED <<mlVars, apiVars>>
    <3>1. feedback' \in {feedback, None}
      BY <2>2, FlowPreparesStep, FlowInsertsStep DEF OAStep, mlVars
    <3> QED BY <3>1
  <2>3. CASE APIStep /\ UNCHANGED <<mlVars, oaVars>>
    <3>1. PutFeedback \/ feedback' = feedback
      BY <2>3, FlowScoresStep, FlowStoryStep, FlowResetsStep DEF APIStep
    <3> QED BY <3>1, FlowPutStep
  <2> QED BY <2>1, <2>2, <2>3 DEF Next
<1>2. [][Grows]_feedback => FeedbackOnlyGrows
  BY DEF FeedbackOnlyGrows
<1> HIDE DEF Grows
<1> QED BY <1>1, <1>2, FlowDayInvariant, PTL DEF Spec

\* ScoresOfOneRun: flow_scores holds the first results of one run of the machine
\* learning, each connection once.
THEOREM ScoresAreOfOneRun == Spec => []ScoresOfOneRun
<1>1. FlowDayInv => ScoresOfOneRun
  BY DetailsAreShown DEF FlowDayInv, ScoresOfOneRun
<1> QED BY <1>1, FlowDayInvariant, PTL

\* OneCommentPerIp: save_comment never leaves two comments of one address.
THEOREM OneComment == Spec => []OneCommentPerIp
<1>1. FlowDayInv => OneCommentPerIp
  BY DEF FlowDayInv, RequestInv, CommentsInv, CommentsOnce, OnePerAnchor, OneCommentPerIp
<1> QED BY <1>1, FlowDayInvariant, PTL

\* AckedCommentsKept: what save_comment said it saved stays until it is cleared.
THEOREM CommentsAreKept == Spec => []AckedCommentsKept
<1>1. FlowDayInv => AckedCommentsKept
  BY DEF FlowDayInv, RequestInv, CommentsInv, AckedAreKept, AckedCommentsKept
<1> QED BY <1>1, FlowDayInvariant, PTL

\* ShownHaveDetails: a job whose children did all of their work has inserted the
\* details of every connection it shows, whichever of its earlier runs were killed
\* and whatever the children they left go on to insert.
THEOREM DetailsOfShown == Spec => []ShownHaveDetails
<1>1. FlowDayInv => ShownHaveDetails
  <2> SUFFICES ASSUME FlowDayInv, oa = "done", ~missed, undeleted = 0,
                      NEW r \in RowsOf("suspicious")
               PROVE  Alike[r.conn] \in RowsOf("edge")
    BY DEF ShownHaveDetails
  <2>1. Range(ShownConns) \subseteq Inserted
    BY DetailsAreShown DEF FlowDayInv
  <2>2. r.conn \in Inserted
    BY <2>1 DEF RowsOf, ShownConns, Range
  <2>3. Details(r.conn) = {Alike[r.conn]}
    BY FlowAssumption DEF Details
  <2> QED BY <2>2, <2>3 DEF Inserted
<1> QED BY <1>1, FlowDayInvariant, PTL

=============================================================================
