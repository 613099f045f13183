---------------------------- MODULE FlowResource -----------------------------
(***************************************************************************)
(* spot-oa/api/resources/flow.py: the mutations of the OA API on a day of  *)
(* flow data.                                                              *)
(***************************************************************************)
EXTENDS Request

CONSTANTS
  Criteria,       \* sets of connections that the fields of a request select
  Scores,         \* severities an analyst gives: "1", "2", "3"
  CommentIps

\* score_connection
SelectToScore(chosen, s) == Selects([c \in Conns |-> c \in chosen], s)

InsertScores == InsertsScored([c \in Conns |-> [conn |-> c, score |-> req.score]])

\* fb_data: the header leads when the file is to be created.
FeedbackLines ==
  (IF req.append_file THEN << >> ELSE << Header >>)
    \o [i \in DOMAIN req.rows |-> Line(req.score, req.rows[i].conn)]

PutFeedback == PutsFeedback(FeedbackLines)

\* create_storyboard
CreateStoryboard(a, t) ==
  /\ NewRequest("files", [NoRequest EXCEPT !.anchor = a, !.text = t])
  /\ UNCHANGED <<tables, fileVars, history>>

\* The three JSON files of an address count as one.
WriteStoryFiles == api = "files" /\ WritesStory("timeline")

CreateTimeLine ==
  /\ api = "timeline"
  /\ Insert("timeline", << req.anchor >>)
  /\ Then("select comments")
  /\ UNCHANGED <<fileVars, history, bounds>>

\* reset_scored_connections
ResetList == << "storyboard", "threat_investigation", "timeline" >>

ResetScored == Resets

ResetTable == ResetsNext(ResetList)

APIStep ==
  \/ \E chosen \in Criteria, s \in Scores : SelectToScore(chosen, s)
  \/ InsertScores \/ ListFeedback \/ PutFeedback
  \/ \E a \in CommentIps, t \in Texts : CreateStoryboard(a, t)
  \/ WriteStoryFiles \/ CreateTimeLine \/ SelectComments \/ DeleteComments \/ InsertComment
  \/ ResetScored \/ ResetTable
  \/ RequestFails

=============================================================================
