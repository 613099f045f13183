------------------------------- MODULE OAJob --------------------------------
(***************************************************************************)
(* spot-oa/oa/start_oa.py, utils.py and what the OA jobs of the three      *)
(* types of data do alike: clear what an earlier run left, copy the        *)
(* machine learning results to the local data directory, insert the scores *)
(* and, in a child process, the details of each connection.  A child is    *)
(* not a daemon: it outlives a job that is killed without it.              *)
(***************************************************************************)
EXTENDS DayStore

CONSTANTS
  Limit,          \* -l: how many results are shown
  Alike,          \* [Conns -> connections that the SELECT of its details finds]
  DetailsLimit    \* LIMIT of that SELECT, None: it has none

ASSUME LimitAssumption == Limit \in Nat /\ DetailsLimit \in Nat \cup {None}
ASSUME AlikeAssumption == Alike \in [Conns -> SUBSET Conns] /\ \A c \in Conns : c \in Alike[c]

VARIABLES
  oa,             \* where the job is
  clearing,       \* how many directories _clear_previous_executions has done
  local,          \* <type>_results.csv in the local data directory, None: no file
  scores,         \* _<type>_scores
  edges,          \* connections whose details are still to be inserted
  orphans,        \* such lists of children whose job was killed
  abandoned,      \* history: connections that were left to them
  missed          \* history: a child of this run did not do all of its work

strayVars == <<orphans, abandoned>>
childVars == <<edges, strayVars, missed>>
jobVars   == <<oa, clearing, local, scores, childVars>>

JobInit ==
  /\ oa = "idle"
  /\ clearing = 0
  /\ local = None
  /\ scores = << >>
  /\ edges = << >>
  /\ orphans = << >>
  /\ abandoned = {}
  /\ missed = FALSE

OAEnded == {"idle", "done"}

\* The process ends; what it holds in memory goes with it.
OAExit(outcome) ==
  /\ oa' = outcome
  /\ clearing' = 0
  /\ scores' = << >>
  /\ edges' = << >>

JobStarts ==
  /\ oa \in OAEnded
  /\ Starts
  /\ oa' = "clear"
  /\ missed' = FALSE
  /\ UNCHANGED <<clearing, local, scores, edges, strayVars, tables, fileVars, history>>

\* One directory of the list after the other, and then the feedback file.
JobClears(list) ==
  /\ oa = "clear"
  /\ clearing < Len(list)
  /\ Clear(list[clearing + 1])
  /\ clearing' = clearing + 1
  /\ UNCHANGED <<oa, local, scores, childVars, fileVars>>

JobClearsFeedback(list) ==
  /\ oa = "clear"
  /\ clearing = Len(list)
  /\ oa' = "stories"
  /\ \/ feedback' = None /\ UNCHANGED bounds
     \/ Undeleted /\ UNCHANGED feedback
  /\ UNCHANGED <<clearing, local, scores, childVars, tables, stories, results, history>>

JobClearsStories ==
  /\ oa = "stories"
  /\ oa' = "results"
  /\ \/ stories' = {} /\ UNCHANGED bounds
     \/ Undeleted /\ UNCHANGED stories
  /\ UNCHANGED <<clearing, local, scores, childVars, tables, feedback, results, history>>

\* hadoop fs -get: copies the file if there is one, and never over a local file.
Fetched == IF local = None /\ results.csv \in {"partial", "complete"}
           THEN results
           ELSE local

\* read_results
FirstRows(rows) == SubSeq(rows, 1, IF Len(rows) < Limit THEN Len(rows) ELSE Limit)

JobGetsResults ==
  /\ oa = "results"
  /\ local' = Fetched
  /\ IF Fetched = None \/ Fetched.rows = << >>
     THEN OAExit("idle")
     ELSE /\ oa' = "scores"
          /\ clearing' = 0
          /\ scores' = FirstRows(Fetched.rows)
          /\ UNCHANGED edges
  /\ UNCHANGED <<strayVars, missed, storeVars>>

Shown == Range(scores)

\* One INSERT of all rows; then the child process starts.
JobInsertsScores(next) ==
  /\ oa = "scores"
  /\ Insert("suspicious", [i \in DOMAIN scores |-> [conn |-> scores[i], run |-> local.run]])
  /\ oa' = next
  /\ edges' = scores
  /\ UNCHANGED <<clearing, local, scores, strayVars, missed, fileVars, history, bounds>>

\* What one SELECT of the details of c may give: the records of flow that have its
\* addresses, either way, and its minute; of dns those of its hour whose name holds
\* its name, of proxy those of its hour, client and URI, as many as the LIMIT lets.
Details(c) ==
  IF DetailsLimit = None
  THEN {Alike[c]}
  ELSE {S \in SUBSET Alike[c] :
          \/ Cardinality(S) = DetailsLimit
          \/ Cardinality(S) < DetailsLimit /\ S = Alike[c]}

\* The child goes on to the next connection, which it does for each in order.
NextEdge ==
  /\ edges # << >>
  /\ edges' = Tail(edges)
  /\ UNCHANGED <<oa, clearing, local, scores, strayVars, fileVars, history>>

\* One INSERT of all records of the connection.
JobInsertsEdge ==
  /\ NextEdge
  /\ \E records \in Details(Head(edges)) : Insert("edge", << records >>)
  /\ UNCHANGED <<missed, bounds>>

\* An exception ends the child, and the parent does not look.
EdgeChildDies ==
  /\ edges # << >>
  /\ Fault
  /\ edges' = << >>
  /\ missed' = TRUE
  /\ UNCHANGED <<oa, clearing, local, scores, strayVars, tables, fileVars, history>>

JobSummary ==
  /\ oa = "summary"
  /\ Insert("summary", << "total" >>)
  /\ UNCHANGED <<local, strayVars, missed, fileVars, history, bounds>>

\* A statement or a request fails, or the job is interrupted with its children.
JobFails ==
  /\ oa \notin OAEnded
  /\ Fault
  /\ OAExit("idle")
  /\ UNCHANGED <<local, strayVars, missed, tables, fileVars, history>>

\* The work of a child that goes on without its job.
LeftTo(strays, work, nothing) == IF work = nothing THEN strays ELSE Append(strays, work)

\* The job is killed, and its children are not.
JobKilled ==
  /\ oa \notin OAEnded
  /\ Fault
  /\ OAExit("idle")
  /\ orphans' = LeftTo(orphans, edges, << >>)
  /\ abandoned' = abandoned \cup Range(edges)
  /\ UNCHANGED <<local, missed, tables, fileVars, history>>

\* A child without a job goes on, whatever job runs now, or ends.
OrphanInsertsEdge ==
  /\ \E i \in DOMAIN orphans :
       /\ orphans[i] # << >>
       /\ \E records \in Details(Head(orphans[i])) : Insert("edge", << records >>)
       /\ orphans' = [orphans EXCEPT ![i] = Tail(@)]
  /\ UNCHANGED <<oa, clearing, local, scores, edges, abandoned, missed, fileVars, history,
                 bounds>>

OrphanDies ==
  /\ \E i \in DOMAIN orphans :
       /\ orphans[i] # << >>
       /\ orphans' = [orphans EXCEPT ![i] = << >>]
  /\ UNCHANGED <<oa, clearing, local, scores, edges, abandoned, missed, storeVars>>

=============================================================================
