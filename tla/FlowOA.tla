------------------------------- MODULE FlowOA -------------------------------
(***************************************************************************)
(* spot-oa/oa/flow/flow_oa.py: the OA job of one day of flow data.  The    *)
(* details and the chords are inserted by two child processes.             *)
(***************************************************************************)
EXTENDS OAJob

CONSTANTS
  Src, Dst        \* [Conns -> addresses]

VARIABLES
  chords,         \* addresses whose chords are still to be inserted
  strayChords     \* such sets of children whose job was killed

chordVars == <<chords, strayChords>>
oaVars    == <<jobVars, chordVars>>

Ips == {Src[c] : c \in Conns} \cup {Dst[c] : c \in Conns}

FlowTables == {"suspicious", "edge", "chords", "threat_investigation",
               "timeline", "storyboard", "summary"}

ASSUME FlowAssumption == FlowTables \subseteq Tables /\ DetailsLimit = None

OAInit == JobInit /\ chords = {} /\ strayChords = << >>

\* Mutant of ClearList: a table is forgotten.
AllButSuspicious == << "edge", "chords", "threat_investigation", "timeline",
                       "storyboard", "summary" >>

ClearList == << "suspicious", "edge", "chords", "threat_investigation",
                "timeline", "storyboard", "summary" >>

OAStart         == JobStarts /\ UNCHANGED chordVars
OAClear         == JobClears(ClearList) /\ UNCHANGED chordVars
OAClearFeedback == JobClearsFeedback(ClearList) /\ UNCHANGED chordVars
OAClearStories  == JobClearsStories /\ UNCHANGED chordVars
GetResults      == JobGetsResults /\ UNCHANGED chordVars

\* _get_chord_details: addresses seen more than once, with more than one peer.
Peers(ip) == {Dst[c] : c \in {d \in Shown : Src[d] = ip}}
        \cup {Src[c] : c \in {d \in Shown : Dst[d] = ip}}
ChordIps == {ip \in Ips : \E p, q \in Peers(ip) : p # q}

CreateFlowScores ==
  JobInsertsScores("details") /\ chords' = ChordIps /\ UNCHANGED strayChords

\* _get_suspicious_details, in a child process
InsertEdge == JobInsertsEdge /\ UNCHANGED chordVars

\* _get_chord_details, in another
InsertChord ==
  /\ \E ip \in chords :
       /\ Insert("chords", << ip >>)
       /\ chords' = chords \ {ip}
  /\ UNCHANGED <<strayChords, jobVars, fileVars, history, bounds>>

ChildDies ==
  \/ EdgeChildDies /\ UNCHANGED chordVars
  \/ /\ chords # {}
     /\ Fault
     /\ chords' = {}
     /\ UNCHANGED <<strayChords, jobVars, tables, fileVars, history>>

\* Mutant of JoinChildren: only the child of the chords is joined.
JoinChordsChild ==
  /\ oa = "details"
  /\ chords = {}
  /\ oa' = "summary"
  /\ UNCHANGED <<clearing, local, scores, childVars, chordVars, storeVars>>

JoinChildren ==
  /\ oa = "details"
  /\ edges = << >>
  /\ chords = {}
  /\ oa' = "summary"
  /\ UNCHANGED <<clearing, local, scores, childVars, chordVars, storeVars>>

IngestSummary == JobSummary /\ OAExit("done") /\ UNCHANGED chordVars

OAFails == JobFails /\ chords' = {} /\ UNCHANGED strayChords

OAKilled ==
  /\ JobKilled
  /\ chords' = {}
  /\ strayChords' = LeftTo(strayChords, chords, {})

OrphanInsertsChord ==
  /\ \E i \in DOMAIN strayChords : \E ip \in strayChords[i] :
       /\ Insert("chords", << ip >>)
       /\ strayChords' = [strayChords EXCEPT ![i] = @ \ {ip}]
  /\ UNCHANGED <<chords, jobVars, fileVars, history, bounds>>

\* Children of jobs that were killed.
OAOrphans ==
  \/ (OrphanInsertsEdge \/ OrphanDies) /\ UNCHANGED chordVars
  \/ OrphanInsertsChord
  \/ \E i \in DOMAIN strayChords :
       /\ strayChords[i] # {}
       /\ strayChords' = [strayChords EXCEPT ![i] = {}]
       /\ UNCHANGED <<chords, jobVars, storeVars>>

OAStep ==
  \/ OAStart \/ OAClear \/ OAClearFeedback \/ OAClearStories \/ GetResults
  \/ CreateFlowScores \/ InsertEdge \/ InsertChord \/ ChildDies \/ JoinChildren
  \/ IngestSummary \/ OAFails \/ OAKilled \/ OAOrphans

=============================================================================
