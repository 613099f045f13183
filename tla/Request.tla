------------------------------ MODULE Request -------------------------------
(***************************************************************************)
(* What the mutations of the OA API do alike for the three types of data   *)
(* (spot-oa/api/resources/{flow,dns,proxy}.py): score connections, which   *)
(* adds to the feedback file; save a comment of the story board; reset.    *)
(* The server runs one request at a time, each as a sequence of statements *)
(* and HDFS calls; the OA job and the machine learning job are other       *)
(* processes and run between any two of them.                              *)
(***************************************************************************)
EXTENDS DayStore

CONSTANTS
  Texts           \* what an analyst writes

VARIABLES
  api,            \* where the request is
  req             \* its arguments and local variables

apiVars == <<api, req>>

NoRequest == [score |-> None,           \* scoring: the argument,
              rows |-> << >>,           \*   the rows selected,
              append_file |-> FALSE,    \*   and how the feedback file is opened
              anchor |-> None,          \* create_storyboard: the threat
              text |-> None,            \*   and what is said of it
              expanded |-> << >>,       \*   rows of the expanded search still to insert
              tmp |-> << >>,            \*   timelines of others still to insert again
              sb_data |-> << >>,        \* save_comment: comments still to be inserted
              resetting |-> 0]          \* reset_...: how many directories are done

APIInit == api = "idle" /\ req = NoRequest

NewRequest(first, arguments) ==
  /\ api = "idle"
  /\ Starts
  /\ api' = first
  /\ req' = arguments

Then(next) == api' = next /\ UNCHANGED req

Return == api' = "idle" /\ req' = NoRequest

-----------------------------------------------------------------------------
(* Scoring *)

\* The SELECT of the rows to score.
Selects(chosen, s) ==
  /\ NewRequest("insert scores",
                [NoRequest EXCEPT
                   !.score = s,
                   !.rows = Where(tables["suspicious"],
                                {r \in RowsOf("suspicious") : chosen[r.conn]})])
  /\ UNCHANGED <<tables, fileVars, history>>

\* The INSERT of scored[conn] for each of them, none when there are none.
InsertsScored(scored) ==
  /\ api = "insert scores"
  /\ Insert("threat_investigation", [i \in DOMAIN req.rows |-> scored[req.rows[i].conn]])
  /\ Then("list feedback")
  /\ UNCHANGED <<fileVars, history, bounds>>

\* list_dir of the feedback directory, which answers {} to an HdfsError.
ListFeedback ==
  /\ api = "list feedback"
  /\ api' = "put feedback"
  /\ \/ req' = [req EXCEPT !.append_file = feedback # None] /\ UNCHANGED bounds
     \/ req' = [req EXCEPT !.append_file = FALSE] /\ Fault
  /\ UNCHANGED <<tables, fileVars, history>>

Line(sev, conn) == [delimiter |-> "comma", sev |-> sev, conn |-> conn]
Header == Line(None, None)

\* Mutant of Opened: always opened for appending.
OpenedToAppend == TRUE

\* client.write appends to a file that exists and creates one that does not.
Opened == req.append_file <=> feedback # None

\* Mutant of Before: what was there is overwritten.
NothingBefore == << >>

Before == IF feedback = None THEN << >> ELSE feedback

\* put_file_csv: its False is not looked at; a write may end in the middle.
PutsFeedback(lines) ==
  /\ api = "put feedback"
  /\ \/ Opened /\ feedback' = Before \o lines /\ UNCHANGED bounds
     \/ ~Opened /\ UNCHANGED <<feedback, bounds>>
     \/ /\ Opened
        /\ Fault
        /\ \/ UNCHANGED feedback
           \/ \E n \in 0 .. Len(lines) - 1 : feedback' = Before \o SubSeq(lines, 1, n)
  /\ Return
  /\ UNCHANGED <<tables, stories, results, history>>

-----------------------------------------------------------------------------
(* The story board *)

\* A JSON file of the threat: what put_file_json answers is only text.
WritesStory(next) ==
  /\ \/ stories' = stories \cup {req.anchor} /\ UNCHANGED bounds
     \/ Fault /\ UNCHANGED stories
  /\ Then(next)
  /\ UNCHANGED <<tables, feedback, results, history>>

Comment(a, t) == [anchor |-> a, text |-> t]

\* Mutants of Merged: a comment is always added; only the new one is kept.
AlwaysAdded(comments, new) == Append(comments, new)
OnlyTheNew(comments, new) == << new >>

\* The comment of the threat gets the new text, or is added at the end.
Merged(comments, new) ==
  IF \E c \in Range(comments) : c.anchor = new.anchor
  THEN [i \in DOMAIN comments |-> IF comments[i].anchor = new.anchor THEN new ELSE comments[i]]
  ELSE Append(comments, new)

SelectComments ==
  /\ api = "select comments"
  /\ api' = "delete comments"
  /\ req' = [req EXCEPT
               !.sb_data = Merged(tables["storyboard"], Comment(req.anchor, req.text))]
  /\ cleared' = FALSE
  /\ UNCHANGED <<tables, fileVars, acked, bounds>>

DeleteComments ==
  /\ api = "delete comments"
  /\ Delete("storyboard")
  /\ Then("insert comments")
  /\ UNCHANGED <<fileVars, history>>

\* One INSERT per comment; after the last the request is answered.
InsertComment ==
  /\ api = "insert comments"
  /\ Insert("storyboard", << Head(req.sb_data) >>)
  /\ IF Len(req.sb_data) > 1
     THEN /\ api' = api
          /\ req' = [req EXCEPT !.sb_data = Tail(@)]
          /\ acked' = acked
     ELSE /\ Return
          /\ acked' = IF cleared
                      THEN acked
                      ELSE {c \in acked : c.anchor # req.anchor}
                             \cup {Comment(req.anchor, req.text)}
  /\ UNCHANGED <<fileVars, cleared, bounds>>

\* The comment is in the table, or among those the request inserts again.
CommentKept(c) ==
  \/ c \in RowsOf("storyboard")
  \/ /\ api = "insert comments"
     /\ c.anchor = req.anchor \/ c \in Range(req.sb_data)

-----------------------------------------------------------------------------
(* Resetting *)

Resets ==
  /\ NewRequest("reset", NoRequest)
  /\ UNCHANGED <<tables, fileVars, history>>

ResetsNext(list) ==
  /\ api = "reset"
  /\ Clear(list[req.resetting + 1])
  /\ IF req.resetting + 1 < Len(list)
     THEN api' = api /\ req' = [req EXCEPT !.resetting = @ + 1]
     ELSE Return
  /\ UNCHANGED fileVars

\* A statement raises: the request ends with an error.
RequestFails ==
  /\ api # "idle"
  /\ Fault
  /\ Return
  /\ UNCHANGED <<tables, fileVars, history>>

=============================================================================
