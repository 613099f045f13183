---------------------------- MODULE Investigation ----------------------------
(***************************************************************************)
(* The threat investigation notebook on top of the answers of the API:     *)
(* a kernel that handles the clicks of the browser one after the other,    *)
(* and callbacks that read the globals of the notebook when they run.      *)
(***************************************************************************)
EXTENDS DayAnswers

CONSTANTS
  MaxClicks,      \* bound: clicks that wait for the kernel
  MaxCallbacks    \* bound: callbacks on the Search button with which Save is clicked

VARIABLES
  options,        \* threats of the list
  anchor,         \* of the last search
  expanded,       \* whose details "expanded_results" holds
  box,            \* the threat whose box, with its Save button, is displayed
  clicks,         \* that the kernel has not handled
  kernel,         \* what it is doing
  callbacks,      \* how often search_ip is registered on the Search button
  left,           \* how often it is still to run for the click
  saving          \* the arguments of the mutation it sent

searchVars   == <<callbacks, left>>
notebookVars == <<options, anchor, expanded, box, clicks, kernel, searchVars, saving>>
vars == <<dayVars, notebookVars>>

None   == "none"
Errors == "errors"

Searched == [flow |-> Flow!SearchFields, dns |-> DNS!SearchFields, proxy |-> Proxy!SearchFields]
Advanced == [flow |-> Flow!AdvancedFields, dns |-> DNS!AdvancedFields,
             proxy |-> Proxy!AdvancedFields]
Listed   == [flow |-> Flow!ListFields, dns |-> DNS!ListFields, proxy |-> Proxy!ListFields]
InputOf  == [flow |-> Flow!ThreatDetailsInput, dns |-> DNS!ThreatDetailsInput,
             proxy |-> Proxy!ThreatDetailsInput]
Reads    == [flow |-> Flow!StoryReads, dns |-> DNS!StoryReads, proxy |-> Proxy!StoryReads]

\* A query that names a field the type has not is answered with errors.
Valid(query, fields) == fields \subseteq Fields(Queries[kind][query].type)

\* The details of a threat, as the notebook holds them
DetailsOf(of) ==
  [f \in Searched[kind] |-> (CHOOSE c \in RowAnswered("details", of) : c[1] = f)[2]]

Init ==
  /\ DayInit
  /\ options = {} /\ anchor = None /\ expanded = None /\ box = None
  /\ clicks = << >> /\ kernel = "off" /\ saving = << >>
  /\ callbacks = 0 /\ left = 0

---------------------------------------------------------------------------
(* The browser *)

Quiet == clicks = << >> /\ kernel \in {"off", "idle"}

Clicks(button, of) ==
  /\ Len(clicks) < MaxClicks
  /\ answer = NoAnswer
  /\ clicks' = Append(clicks, [button |-> button, of |-> of, waited |-> ~Quiet])
  /\ UNCHANGED <<dayVars, options, anchor, expanded, box, kernel, searchVars, saving>>

ClickSearch == \E of \in options : Clicks("search", of)

ClickSave == callbacks <= MaxCallbacks /\ box # None /\ Clicks("save", box)

---------------------------------------------------------------------------
(* The kernel *)

\* start_investigation, of the notebook's last cell.  Bound: when the day's job is
\* done, and everything is installed.
StartInvestigation ==
  /\ kernel = "off"
  /\ job = "ended"
  /\ DOMAIN Details \subseteq DOMAIN tables
  /\ Installed
  /\ scored # {}
  /\ answer = NoAnswer
  /\ Valid("list", Listed[kind])
  /\ options' = scored
  /\ kernel' = "idle"
  /\ callbacks' = 1
  /\ UNCHANGED <<dayVars, anchor, expanded, box, clicks, left, saving>>

Handles(button) ==
  /\ kernel = "idle"
  /\ answer = NoAnswer
  /\ clicks # << >>
  /\ Head(clicks).button = button
  /\ clicks' = Tail(clicks)

\* search_ip, until it has sent its request
Search(of, boxLeft) ==
  /\ anchor' = of
  /\ box' = boxLeft
  /\ kernel' = "searching"
  /\ UNCHANGED <<dayVars, options, expanded, callbacks, saving>>

\* Mutant of SearchIp: the box of the last search is not removed.
SearchKeepsBox == Handles("search") /\ left' = callbacks - 1 /\ Search(Head(clicks).of, box)

SearchIp == Handles("search") /\ left' = callbacks - 1 /\ Search(Head(clicks).of, None)

\* The next callback on the button, for the same click
SearchAgain ==
  /\ kernel = "again"
  /\ left' = left - 1
  /\ Search(anchor, None)
  /\ UNCHANGED clicks

Searches(results, shown) ==
  /\ kernel = "searching"
  /\ expanded' = results
  /\ box' = IF shown THEN anchor ELSE box
  /\ kernel' = IF left > 0 THEN "again" ELSE "idle"
  /\ UNCHANGED <<dayVars, options, anchor, clicks, searchVars, saving>>

\* int(row['maxBytes']) raises when the answer was null.
SearchAnswered ==
  /\ Valid("details", Searched[kind])
  /\ Searches(anchor, kind = "flow" => DetailsOf(anchor)["maxBytes"] # Null)

\* Only proxy shows a box without results; in dns the message itself raises.
SearchErrors == Searches(Errors, kind = "proxy")

\* GraphQLClient.request raises.
SearchRaises == Searches(expanded, FALSE)

\* save_threat_summary, until it has sent the mutation.  Its widgets are those of
\* the box, in dns also the kind of threat; the threat is the global.
SaveThreatSummary ==
  /\ Handles("save")
  /\ box' = IF kind = "flow" THEN None ELSE box
  /\ IF expanded = Errors
     THEN UNCHANGED <<kernel, saving>>
     ELSE /\ kernel' = "saving"
          /\ saving' = << [anchor |-> anchor, details |-> expanded,
                           text |-> Head(clicks).of, waited |-> Head(clicks).waited] >>
  /\ UNCHANGED <<dayVars, options, anchor, expanded, searchVars>>

\* createStoryboard, with the details the notebook passes
CreateStoryboard ==
  /\ Searched[kind] \subseteq InputOf[kind]
  /\ Reads[kind] \subseteq Searched[kind]
  /\ LET args     == Head(saving)
         r        == DetailsOf(args.details)
         byClient == args.text \in ClientThreats
         rows     == CASE kind = "flow"  -> Flow!StoryRows(r, byClient)
                       [] kind = "dns"   -> DNS!StoryRows(r, byClient)
                       [] kind = "proxy" -> Proxy!StoryRows(r, byClient)
     IN  /\ \A t \in DOMAIN rows : Fits(ColumnsOf[kind][t], rows[t])
         /\ tables' = Over(rows, tables)
   /\ UNCHANGED <<kind, conf, jobVars, scored, answer, range>>

\* The answer to the mutation.  Flow and proxy call start_investigation again, which
\* registers one more search_ip on the button.
Saves(reloads) ==
  /\ kernel = "saving"
  /\ saving' = << >>
  /\ kernel' = "idle"
  /\ options' = IF reloads THEN scored ELSE options
  /\ box' = IF reloads THEN None ELSE box
  /\ callbacks' = IF reloads /\ kind # "dns" THEN callbacks + 1 ELSE callbacks
  /\ UNCHANGED <<anchor, expanded, clicks, left>>

NotSaved == UNCHANGED dayVars

\* In dns create_storyboard returns nothing: the answer is an error though it saved.
SaveAnswered == kind # "dns" /\ Saves(TRUE) /\ CreateStoryboard

\* Some of it may have been saved.  Proxy loads the list again only on success.
SaveErrors == Saves(kind # "proxy") /\ (CreateStoryboard \/ NotSaved)

\* GraphQLClient.request raises.
SaveRaises == Saves(FALSE) /\ (CreateStoryboard \/ NotSaved)

---------------------------------------------------------------------------

\* Bound: the pages ask and the analyst scores while the notebook is quiet.
Panel ==
  /\ Quiet
  /\ \/ \E query \in DOMAIN Queries[kind], of \in Threats : Ask(query, of)
     \/ \E start, end \in Calendar : AskSummary(start, end)
     \/ \E of \in Threats : Score(of)
  /\ UNCHANGED notebookVars

\* The Advanced Mode notebook asks for the suspicious rows.
AdvancedMode ==
  /\ Quiet
  /\ Valid("suspicious", Advanced[kind])
  /\ \E of \in Threats : AskFields("suspicious", Advanced[kind], of)
  /\ UNCHANGED notebookVars

JobStep ==
  /\ GetResults \/ AddColumns \/ CreateScores \/ InsertDetails \/ IngestSummary
  /\ UNCHANGED notebookVars

Next ==
  \/ JobStep
  \/ Panel \/ AdvancedMode
  \/ Show /\ UNCHANGED notebookVars
  \/ ClickSearch \/ ClickSave
  \/ StartInvestigation
  \/ SearchIp \/ SearchAgain \/ SearchAnswered \/ SearchErrors \/ SearchRaises
  \/ SaveThreatSummary \/ SaveAnswered \/ SaveErrors \/ SaveRaises

Spec == Init /\ [][Next]_vars

---------------------------------------------------------------------------
(* A story sent for a click that had nothing to wait for is about the       *)
(* threat of its box: the details and the text are that threat's, although  *)
(* the callback reads the globals that later searches set.                  *)
StoriesOfTheirThreat ==
  \A i \in DOMAIN saving :
    ~saving[i].waited => /\ saving[i].anchor = saving[i].text
                         /\ saving[i].details = saving[i].text

=============================================================================
