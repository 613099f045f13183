------------------------- MODULE InvestigationProofs -------------------------
(***************************************************************************)
(* Proofs about Investigation: the days of an ingest summary, the stories  *)
(* that are saved, and what every field of an answer shows, for every      *)
(* calendar and any threats, whatever is installed and however many clicks *)
(* wait.                                                                   *)
(***************************************************************************)
EXTENDS Investigation, SequenceTheorems, TLAPS

Day == [y : Nat, m : 1 .. 12, d : 1 .. 31]

-----------------------------------------------------------------------------
(* Ranges of days *)

\* Between two days of order, daterange_query selects exactly the days in
\* between: the disjuncts of the loop over the years neither overlap the borders
\* nor leave a gap, in one month, in one year, and over several.
LEMMA FlowRange ==
  ASSUME NEW s \in Day, NEW e \in Day, NEW day \in Day, Before(s, e)
  PROVE  Flow!DaterangeQuery(s, e, day) <=> Before(s, day) /\ Before(day, e)
<1> USE DEF Day, Before, Flow!DaterangeQuery, Flow!FromStart, Flow!UntilEnd, Flow!Whole
<1>1. CASE s.y = e.y
  OBVIOUS
<1>2. CASE s.y < e.y
  OBVIOUS
<1> QED BY <1>1, <1>2

\* Year, month and day compared on their own select no day outside the range,
\* and all of it within a month.
LEMMA OwnRange ==
  ASSUME NEW s \in Day, NEW e \in Day, NEW day \in Day, Before(s, e)
  PROVE  /\ DNS!SummaryRange(s, e, day) <=> Proxy!SummaryRange(s, e, day)
         /\ DNS!SummaryRange(s, e, day) => Before(s, day) /\ Before(day, e)
         /\ s.y = e.y /\ s.m = e.m /\ Before(s, day) /\ Before(day, e)
              => DNS!SummaryRange(s, e, day)
BY DEF Day, Before, DNS!SummaryRange, Proxy!SummaryRange

-----------------------------------------------------------------------------
(* The ingest summary *)

\* What the three kinds of data have in common.
LEMMA InRangeFacts ==
  ASSUME kind \in Kinds, NEW s \in Calendar, NEW e \in Calendar, NEW day \in Calendar,
         Before(s, e)
  PROVE  /\ InRange(s, e, day) => Before(s, day) /\ Before(day, e)
         /\ (kind = "flow" \/ (s.y = e.y /\ s.m = e.m)) /\ Before(s, day) /\ Before(day, e)
              => InRange(s, e, day)
<1>1. s \in Day /\ e \in Day /\ day \in Day
  BY CalendarAssumption DEF Day
<1>2. CASE kind = "flow"
  BY <1>1, <1>2, FlowRange DEF InRange
<1>3. CASE kind = "dns"
  BY <1>1, <1>3, OwnRange DEF InRange
<1>4. CASE kind = "proxy"
  BY <1>1, <1>4, OwnRange DEF InRange
<1> QED BY <1>2, <1>3, <1>4 DEF Kinds

RangeInv ==
  /\ kind \in Kinds
  /\ range = NoRange \/ range \in Calendar \X Calendar

\* Only AskSummary and Show change the range, and nothing changes the kind of data.
LEMMA RangeStep ==
  ASSUME RangeInv, [Next]_vars
  PROVE  RangeInv'
<1>1. CASE JobStep
  BY <1>1 DEF RangeInv, JobStep, GetResults, AddColumns, CreateScores, InsertDetails,
              IngestSummary, InsertRow
<1>2. CASE Panel
  <2>1. CASE \E query \in DOMAIN Queries[kind], of \in Threats : Ask(query, of)
    BY <2>1 DEF RangeInv, Ask, AskFields
  <2>2. CASE \E start, end \in Calendar : AskSummary(start, end)
    BY <2>2 DEF RangeInv, AskSummary
  <2>3. CASE \E of \in Threats : Score(of)
    BY <2>3 DEF RangeInv, Score, InsertRow
  <2> QED BY <1>2, <2>1, <2>2, <2>3 DEF Panel
<1>3. CASE AdvancedMode
  BY <1>3 DEF RangeInv, AdvancedMode, AskFields
<1>4. CASE Show
  BY <1>4 DEF RangeInv, Show
<1>5. CASE ClickSearch \/ ClickSave
  BY <1>5 DEF RangeInv, ClickSearch, ClickSave, Clicks, dayVars
<1>6. CASE StartInvestigation
  BY <1>6 DEF RangeInv, StartInvestigation, dayVars
<1>7. CASE SearchIp \/ SearchAgain \/ SearchAnswered \/ SearchErrors \/ SearchRaises
  BY <1>7 DEF RangeInv, SearchIp, SearchAgain, Search, SearchAnswered, SearchErrors,
              SearchRaises, Searches, dayVars
<1>8. CASE SaveThreatSummary
  BY <1>8 DEF RangeInv, SaveThreatSummary, dayVars
<1>9. CASE SaveAnswered \/ SaveErrors \/ SaveRaises
  BY <1>9 DEF RangeInv, SaveAnswered, SaveErrors, SaveRaises, NotSaved,
              CreateStoryboard, dayVars
<1>10. CASE UNCHANGED vars
  BY <1>10 DEF RangeInv, vars, dayVars
<1> QED BY <1>1, <1>2, <1>3, <1>4, <1>5, <1>6, <1>7, <1>8, <1>9, <1>10 DEF Next

\* Whatever dates are asked for and whatever days there are, the summary shows none
\* outside them, and for flow, or within a month, every one between them.
THEOREM SummaryCovers == Spec => []SummaryCoversTheRange
<1>1. Init => RangeInv
  BY DEF Init, DayInit, RangeInv
<1>2. RangeInv /\ [Next]_vars => RangeInv'
  BY RangeStep
<1>3. RangeInv => SummaryCoversTheRange
  <2> SUFFICES ASSUME RangeInv, range # NoRange, Before(range[1], range[2])
               PROVE  LET shown  == {day \in Calendar : InRange(range[1], range[2], day)}
                          inside == {day \in Calendar :
                                       Before(range[1], day) /\ Before(day, range[2])}
                      IN  /\ shown \subseteq inside
                          /\ (kind = "flow" \/ (range[1].y = range[2].y /\ range[1].m = range[2].m))
                               => shown = inside
    BY DEF SummaryCoversTheRange
  <2>1. range[1] \in Calendar /\ range[2] \in Calendar /\ kind \in Kinds
    BY DEF RangeInv
  <2> QED BY <2>1, InRangeFacts
<1> QED BY <1>1, <1>2, <1>3, PTL DEF Spec

-----------------------------------------------------------------------------
(* Stories *)

Anchors == Threats \cup {None}
Button == [button : {"search", "save"}, of : Anchors, waited : BOOLEAN]

NotebookTypeOK ==
  /\ scored \subseteq Threats /\ options \subseteq Threats
  /\ anchor \in Anchors /\ box \in Anchors
  /\ clicks \in Seq(Button)

\* The box is that of the last search, and so are the details.
BoxOfLastSearch ==
  box # None => /\ kernel \in {"idle", "again", "saving"}
                /\ anchor = box
                /\ expanded \in {anchor, Errors}

\* A click with nothing to wait for is the next to be handled, with the box it was
\* made in still displayed.
NextClick ==
  \A i \in DOMAIN clicks :
    ~clicks[i].waited => /\ i = 1 /\ kernel = "idle"
                         /\ clicks[i].button = "save" => box # None /\ box = clicks[i].of

NotebookInv ==
  /\ NotebookTypeOK
  /\ kernel = "off" => options = {}
  /\ BoxOfLastSearch
  /\ NextClick
  /\ StoriesOfTheirThreat

\* Steps that leave the notebook alone, or only score one more threat.
LEMMA QuietStep ==
  ASSUME NotebookInv, UNCHANGED notebookVars, scored' \subseteq Threats
  PROVE  NotebookInv'
BY DEF NotebookInv, NotebookTypeOK, BoxOfLastSearch, NextClick, StoriesOfTheirThreat,
       notebookVars

\* A click on a button is the last of the queue: one with nothing to wait for is the
\* only one.
LEMMA ClickStep ==
  ASSUME NotebookInv,
         NEW button \in {"search", "save"}, NEW of \in Anchors,
         Clicks(button, of),
         kernel # "off",
         button = "save" => box # None /\ box = of
  PROVE  NotebookInv'
<1> DEFINE click == [button |-> button, of |-> of, waited |-> ~Quiet]
<1> USE DEF NotebookInv, Clicks
<1>1. click \in Button
  BY DEF Quiet, Button
<1>2. NotebookTypeOK'
  BY <1>1 DEF NotebookTypeOK, dayVars
<1>3. NextClick'
  <2> SUFFICES ASSUME NEW i \in DOMAIN clicks', ~clicks'[i].waited
               PROVE  /\ i = 1 /\ kernel = "idle"
                      /\ clicks'[i].button = "save" => box # None /\ box = clicks'[i].of
    BY DEF NextClick
  <2>1. /\ clicks' = Append(clicks, click)
        /\ DOMAIN clicks' = 1 .. Len(clicks) + 1
        /\ Len(clicks) \in Nat
        /\ clicks \in Seq(Button)
    BY <1>1 DEF NotebookTypeOK
  <2>2. CASE i = Len(clicks) + 1
    <3>1. clicks'[i] = click
      BY <2>1, <2>2
    <3>2. click.waited = ~Quiet
      OBVIOUS
    <3>3. Quiet
      <4> HIDE DEF click
      <4> QED BY <3>1, <3>2
    <3> QED BY <2>1, <2>2, <3>1, <3>3 DEF Quiet
  <2>3. CASE i \in DOMAIN clicks
    BY <2>1, <2>3 DEF NextClick
  <2> QED BY <2>1, <2>2, <2>3
<1>4. BoxOfLastSearch' /\ StoriesOfTheirThreat' /\ (kernel' = "off" => options' = {})
  BY DEF BoxOfLastSearch, StoriesOfTheirThreat
<1> QED BY <1>2, <1>3, <1>4

\* Handling a click leaves only clicks that had to wait.
LEMMA HandledClick ==
  ASSUME NotebookInv, NEW button, Handles(button)
  PROVE  /\ clicks' \in Seq(Button)
         /\ Head(clicks) \in Button
         /\ Head(clicks) = clicks[1] /\ 1 \in DOMAIN clicks
         /\ \A i \in DOMAIN clicks' : clicks'[i].waited
<1>1. /\ clicks \in Seq(Button)
      /\ clicks # << >> /\ clicks' = Tail(clicks)
  BY DEF NotebookInv, NotebookTypeOK, Handles
<1>2. \A i \in DOMAIN clicks' : clicks'[i] = clicks[i + 1] /\ i + 1 \in DOMAIN clicks /\ i + 1 # 1
  BY <1>1
<1>3. \A i \in DOMAIN clicks' : clicks'[i].waited
  BY <1>2 DEF NotebookInv, NextClick
<1>4. clicks' \in Seq(Button)
  BY <1>1
<1>6. Head(clicks) = clicks[1] /\ 1 \in DOMAIN clicks
  BY <1>1
<1>5. Head(clicks) \in Button
  BY <1>1, <1>6
<1> QED BY <1>3, <1>4, <1>5, <1>6

\* The invariant of the notebook.
LEMMA NotebookStep ==
  ASSUME NotebookInv, [Next]_vars
  PROVE  NotebookInv'
<1> USE DEF NotebookInv
<1>1. CASE JobStep
  <2>1. UNCHANGED notebookVars /\ UNCHANGED scored
    BY <1>1 DEF JobStep, GetResults, AddColumns, CreateScores, InsertDetails,
                IngestSummary, InsertRow
  <2> QED BY <2>1, QuietStep DEF NotebookTypeOK
<1>2. CASE Panel
  <2>1. UNCHANGED notebookVars
    BY <1>2 DEF Panel
  <2>2. CASE \E query \in DOMAIN Queries[kind], of \in Threats : Ask(query, of)
    BY <2>1, <2>2, QuietStep DEF Ask, AskFields, NotebookTypeOK
  <2>3. CASE \E start, end \in Calendar : AskSummary(start, end)
    BY <2>1, <2>3, QuietStep DEF AskSummary, NotebookTypeOK
  <2>4. CASE \E of \in Threats : Score(of)
    BY <2>1, <2>4, QuietStep DEF Score, NotebookTypeOK
  <2> QED BY <1>2, <2>2, <2>3, <2>4 DEF Panel
<1>3. CASE AdvancedMode
  BY <1>3, QuietStep DEF AdvancedMode, AskFields, NotebookTypeOK
<1>4. CASE Show /\ UNCHANGED notebookVars
  BY <1>4, QuietStep DEF Show, NotebookTypeOK
<1>5. CASE ClickSearch
  <2>1. PICK of \in options : Clicks("search", of)
    BY <1>5 DEF ClickSearch
  <2>2. of \in Anchors /\ kernel # "off"
    BY DEF NotebookTypeOK, Anchors
  <2> QED BY <2>1, <2>2, ClickStep
<1>6. CASE ClickSave
  <2>1. box # None /\ Clicks("save", box)
    BY <1>6 DEF ClickSave
  <2>2. box \in Anchors /\ kernel # "off"
    BY <2>1 DEF NotebookTypeOK, BoxOfLastSearch
  <2> QED BY <2>1, <2>2, ClickStep
<1>7. CASE StartInvestigation
  BY <1>7 DEF StartInvestigation, NotebookTypeOK, BoxOfLastSearch, NextClick,
              StoriesOfTheirThreat, dayVars
<1>8. CASE SearchIp
  <2>1. Handles("search")
    BY <1>8 DEF SearchIp
  <2>2. NotebookTypeOK'
    <3>1. Head(clicks).of \in Anchors /\ clicks' \in Seq(Button)
      BY <2>1, HandledClick DEF Button
    <3> QED BY <1>8, <3>1 DEF SearchIp, Search, NotebookTypeOK, Anchors, dayVars
  <2>3. BoxOfLastSearch' /\ StoriesOfTheirThreat' /\ (kernel' = "off" => options' = {})
    BY <1>8 DEF SearchIp, Search, BoxOfLastSearch, StoriesOfTheirThreat
  <2>4. NextClick'
    BY <2>1, HandledClick DEF NextClick
  <2> QED BY <2>2, <2>3, <2>4
<1>9. CASE SearchAnswered \/ SearchErrors \/ SearchRaises
  <2>1. PICK results \in {anchor, Errors, expanded}, shown \in BOOLEAN :
          /\ Searches(results, shown)
          /\ results \notin {anchor, Errors} => ~shown
    BY <1>9 DEF SearchAnswered, SearchErrors, SearchRaises
  <2>2. box = None /\ kernel = "searching"
    BY <2>1 DEF Searches, BoxOfLastSearch
  <2>3. NotebookTypeOK'
    BY <2>1 DEF Searches, NotebookTypeOK, dayVars
  <2>4. BoxOfLastSearch'
    BY <2>1, <2>2 DEF Searches, BoxOfLastSearch
  <2>5. NextClick'
    BY <2>1, <2>2 DEF Searches, NextClick
  <2> QED BY <2>1, <2>3, <2>4, <2>5 DEF Searches, StoriesOfTheirThreat
<1>10. CASE SaveThreatSummary
  <2>1. Handles("save")
    BY <1>10 DEF SaveThreatSummary
  <2>2. kernel = "idle" /\ Head(clicks).button = "save"
    BY <2>1 DEF Handles
  <2>3. NotebookTypeOK'
    <3>1. clicks' \in Seq(Button)
      BY <2>1, HandledClick
    <3> QED BY <1>10, <3>1 DEF SaveThreatSummary, NotebookTypeOK, Anchors, dayVars
  <2>4. BoxOfLastSearch' /\ (kernel' = "off" => options' = {})
    BY <1>10, <2>2 DEF SaveThreatSummary, BoxOfLastSearch
  <2>5. NextClick'
    BY <2>1, HandledClick DEF NextClick
  <2>6. StoriesOfTheirThreat'
    <3>1. CASE expanded = Errors
      BY <1>10, <3>1 DEF SaveThreatSummary, StoriesOfTheirThreat
    <3>2. CASE expanded # Errors
      <4>1. ~Head(clicks).waited => anchor = Head(clicks).of /\ expanded = Head(clicks).of
        BY <2>1, <2>2, <3>2, HandledClick DEF NextClick, BoxOfLastSearch
      <4>2. saving' = << [anchor |-> anchor, details |-> expanded,
                          text |-> Head(clicks).of, waited |-> Head(clicks).waited] >>
        BY <1>10, <3>2 DEF SaveThreatSummary
      <4> QED BY <4>1, <4>2 DEF StoriesOfTheirThreat
    <3> QED BY <3>1, <3>2
  <2> QED BY <2>3, <2>4, <2>5, <2>6
<1>11. CASE SaveAnswered \/ SaveErrors \/ SaveRaises
  <2>1. PICK reloads \in BOOLEAN : Saves(reloads)
    BY <1>11 DEF SaveAnswered, SaveErrors, SaveRaises
  <2>2. UNCHANGED scored
    BY <1>11 DEF SaveAnswered, SaveErrors, SaveRaises, CreateStoryboard, NotSaved, dayVars
  <2>3. NotebookTypeOK'
    BY <2>1, <2>2 DEF Saves, NotebookTypeOK, Anchors
  <2>4. BoxOfLastSearch' /\ (kernel' = "off" => options' = {}) /\ StoriesOfTheirThreat'
    BY <2>1 DEF Saves, BoxOfLastSearch, StoriesOfTheirThreat
  <2>5. NextClick'
    BY <2>1 DEF Saves, NextClick
  <2> QED BY <2>3, <2>4, <2>5
<1>12. CASE SearchAgain
  <2>1. /\ kernel = "again" /\ kernel' = "searching" /\ box' = None
        /\ UNCHANGED <<scored, options, anchor, clicks, saving>>
    BY <1>12 DEF SearchAgain, Search, dayVars
  <2>2. NextClick'
    BY <2>1 DEF NextClick
  <2>3. NotebookTypeOK'
    BY <2>1 DEF NotebookTypeOK, Anchors
  <2>4. BoxOfLastSearch' /\ StoriesOfTheirThreat' /\ (kernel' = "off" => options' = {})
    BY <2>1 DEF BoxOfLastSearch, StoriesOfTheirThreat
  <2> QED BY <2>2, <2>3, <2>4
<1>13. CASE UNCHANGED vars
  <2>1. UNCHANGED notebookVars /\ UNCHANGED scored
    BY <1>13 DEF vars, dayVars
  <2> QED BY <2>1, QuietStep DEF NotebookTypeOK
<1> QED BY <1>1, <1>2, <1>3, <1>4, <1>5, <1>6, <1>7, <1>8, <1>9, <1>10, <1>11, <1>12, <1>13
        DEF Next

\* However many clicks wait and whatever fails, the story sent for a click that had
\* nothing to wait for has the details and the text of the threat it is saved under.
THEOREM StoriesAreOfTheirThreat == Spec => []StoriesOfTheirThreat
<1>1. Init => NotebookInv
  BY DEF Init, DayInit, NotebookInv, NotebookTypeOK, Anchors, BoxOfLastSearch, NextClick,
         StoriesOfTheirThreat
<1>2. NotebookInv /\ [Next]_vars => NotebookInv'
  BY NotebookStep
<1>3. NotebookInv => StoriesOfTheirThreat
  BY DEF NotebookInv
<1> QED BY <1>1, <1>2, <1>3, PTL DEF Spec

-----------------------------------------------------------------------------
(* Columns, positions, keys *)

Distinct(columns) ==
  \A i, j \in DOMAIN columns : columns[i] = columns[j] => i = j

\* A row has a value under a key.
Holds(entry, key, v) == key \in DOMAIN entry /\ entry[key] = v

\* A value that is inserted is found in the column of its position.
LEMMA InsertedCell ==
  ASSUME NEW columns, NEW cells, Distinct(columns), NEW i \in DOMAIN columns
  PROVE  Holds(Inserted(columns, cells), columns[i], cells[i])
<1>1. columns[i] \in Range(columns)
  BY DEF Range
<1>2. (CHOOSE j \in DOMAIN columns : columns[j] = columns[i]) = i
  BY DEF Distinct
<1> QED BY <1>1, <1>2 DEF Inserted, Holds

\* A column that a SELECT names once is answered under its alias: the value in the
\* column, or the expression where it is none.
LEMMA SelectedCell ==
  ASSUME NEW list, NEW entry, NEW alias, NEW expr,
         \A e : <<alias, e>> \in list <=> e = expr
  PROVE  Holds(Selected(list, entry), alias,
               IF expr \in DOMAIN entry THEN entry[expr] ELSE expr)
<1>1. <<alias, expr>> \in list /\ <<alias, expr>>[1] = alias /\ <<alias, expr>>[2] = expr
  OBVIOUS
<1>2. alias \in {p[1] : p \in list} /\ expr \in {p[2] : p \in list}
  BY <1>1
<1>3. (CHOOSE e \in {p[2] : p \in list} : <<alias, e>> \in list) = expr
  BY <1>2
<1> QED BY <1>2, <1>3 DEF Selected, Holds

\* A SELECT of columns under their own names keeps the values, and answers those keys
\* only.
LEMMA SelectedSame ==
  ASSUME NEW names, NEW entry
  PROVE  /\ \A n \in names : \A v :
              Holds(entry, n, v) => Holds(Selected(Same(names), entry), n, v)
         /\ DOMAIN Selected(Same(names), entry) = names
<1>1. \A n, e : <<n, e>> \in Same(names) <=> n \in names /\ e = n
  BY DEF Same
<1>2. ASSUME NEW n \in names, NEW v, Holds(entry, n, v)
      PROVE  Holds(Selected(Same(names), entry), n, v)
  <2>1. \A e : <<n, e>> \in Same(names) <=> e = n
    BY <1>1
  <2>2. Holds(Selected(Same(names), entry), n, IF n \in DOMAIN entry THEN entry[n] ELSE n)
    BY <2>1, SelectedCell
  <2> QED BY <1>2, <2>2 DEF Holds
<1>3. {p[1] : p \in Same(names)} = names
  <2>1. ASSUME NEW n \in names PROVE n \in {p[1] : p \in Same(names)}
    <3>1. <<n, n>> \in Same(names) /\ <<n, n>>[1] = n
      BY <1>1
    <3> QED BY <3>1
  <2>2. ASSUME NEW p \in Same(names) PROVE p[1] \in names
    BY DEF Same
  <2> QED BY <2>1, <2>2
<1>4. DOMAIN Selected(Same(names), entry) = names
  BY <1>3 DEF Selected
<1> QED BY <1>2, <1>4

-----------------------------------------------------------------------------
(* Rows put together *)

IsRow(s, n) == Len(s) = n /\ \E S : s \in Seq(S)

Join(s, t) == s \o t

\* Rows put together: the values of the first come first, those of the second after
\* them.
LEMMA Joined ==
  ASSUME NEW s, NEW t, NEW m \in Nat, NEW n \in Nat, IsRow(s, m), IsRow(t, n)
  PROVE  /\ IsRow(Join(s, t), m + n)
         /\ \A i \in 1 .. m : Join(s, t)[i] = s[i]
         /\ \A i \in m + 1 .. m + n : Join(s, t)[i] = t[i - m]
<1>1. PICK S : s \in Seq(S)
  BY DEF IsRow
<1>2. PICK T : t \in Seq(T)
  BY DEF IsRow
<1>3. s \in Seq(S \cup T) /\ t \in Seq(S \cup T)
  BY <1>1, <1>2
<1>4. Len(s) = m /\ Len(t) = n
  BY DEF IsRow
<1>5. /\ Join(s, t) \in Seq(S \cup T) /\ Len(Join(s, t)) = m + n
      /\ \A i \in 1 .. m + n : Join(s, t)[i] = IF i <= m THEN s[i] ELSE t[i - m]
  BY <1>3, <1>4, ConcatProperties DEF Join
<1> QED BY <1>5 DEF IsRow

\* Rows of up to four values
LEMMA Small ==
  ASSUME NEW a, NEW b, NEW c, NEW d
  PROVE  /\ IsRow(<<a>>, 1) /\ IsRow(<<a, b>>, 2)
         /\ IsRow(<<a, b, c>>, 3) /\ IsRow(<<a, b, c, d>>, 4)
<1>1. <<a>> \in Seq({a})
  OBVIOUS
<1>2. <<a, b>> \in Seq({a, b})
  OBVIOUS
<1>3. <<a, b, c>> \in Seq({a, b, c})
  OBVIOUS
<1>4. <<a, b, c, d>> \in Seq({a, b, c, d})
  OBVIOUS
<1> QED BY <1>1, <1>2, <1>3, <1>4 DEF IsRow

-----------------------------------------------------------------------------
(* What the fields of a row should show *)

Read(entry, p) == IF p[2] \in DOMAIN entry THEN entry[p[2]]
                  ELSE IF p[1] \in OrZero THEN Zero ELSE Null

\* What is read where a value should be: the label of the proxy timeline is null with
\* the iana file and without it.
Written(query, field, v) ==
  IF v \in Missing /\ query # "timeline" THEN Blank
  ELSE IF v \in External THEN Zero
  ELSE IF <<kind, query, field>> \in NeverAnswered THEN Null
  ELSE IF kind = "dns" /\ <<kind, query, field>> \in AlwaysZero THEN Zero ELSE v

\* A field of a type reads the one value it is for.
Right(query, p, entry) ==
  \E v : Meaning(query, p[1]) = {v} /\ Read(entry, p) = Written(query, p[1], v)

MissingWithout ==
  {"sip-internal", "dip-internal", "sip-geo", "dip-geo", "sip-domain", "dip-domain",
   "class-name", "type-name", "rcode-name", "respcode-name", "network-context",
   "sip-rep", "dip-rep", "query-rep", "uri-rep"}

\* Which values are missing, and without which file or service
LEMMA MissingCells ==
  /\ \A v : v \notin MissingWithout => v \notin Missing \cup External
  /\ \A v \in {"sip-internal", "dip-internal"} :
       v \notin Missing /\ (v \in External <=> "ipranges" \notin conf.files)
  /\ \A v \in MissingWithout \ {"sip-internal", "dip-internal"} : v \notin External
  /\ \A v \in {"sip-geo", "dip-geo", "sip-domain", "dip-domain"} :
       v \in Missing <=> "iploc" \notin conf.files
  /\ \A v \in {"class-name", "type-name", "rcode-name", "respcode-name"} :
       v \in Missing <=> "iana" \notin conf.files
  /\ "network-context" \in Missing <=> "nc" \notin conf.files
  /\ \A v \in {"sip-rep", "dip-rep", "query-rep", "uri-rep"} :
       v \in Missing <=> conf.reputation \in {"none", "silent"}
BY DEF Missing, External, MissingWithout

General == [flow |-> FlowMeaning, dns |-> DNSMeaning, proxy |-> ProxyMeaning]

\* A field is for one value, the particular one of the query or the general one of the
\* kind of data, unless it is the date and time of proxy.
LEMMA MeaningOf ==
  ASSUME kind \in Kinds, NEW query, NEW field,
         kind # "proxy" \/ field # "datetime" \/ query = "ingestSummary"
  PROVE  /\ field \in DOMAIN Particular(query)
              => Meaning(query, field) = {Particular(query)[field]}
         /\ field \notin DOMAIN Particular(query) /\ field \in DOMAIN General[kind]
              => Meaning(query, field) = {General[kind][field]}
<1> DEFINE here == Over(Particular(query), General[kind])
<1>1. /\ field \in DOMAIN Particular(query) => here[field] = Particular(query)[field]
      /\ field \notin DOMAIN Particular(query) /\ field \in DOMAIN General[kind]
           => here[field] = General[kind][field]
  BY DEF Over
<1>2. Meaning(query, field) = {here[field]}
  BY DEF Meaning, General
<1> QED BY <1>1, <1>2

\* No table of flow has two columns of one name.
LEMMA FlowDistinct ==
  /\ Distinct(Flow!RawColumns) /\ Distinct(Flow!ScoresColumns) /\ Distinct(Flow!EdgeColumns)
  /\ Distinct(Flow!ChordsColumns) /\ Distinct(Flow!SummaryColumns)
  /\ Distinct(Flow!ThreatColumns) /\ Distinct(Flow!StoryboardColumns)
  /\ Distinct(Flow!TimelineColumns)
<1>1. Distinct(Flow!RawColumns) /\ Distinct(Flow!ScoresColumns)
  BY DEF Distinct, Flow!RawColumns, Flow!ScoresColumns
<1>2. Distinct(Flow!ChordsColumns) /\ Distinct(Flow!SummaryColumns)
      /\ Distinct(Flow!EdgeColumns)
  BY DEF Distinct, Flow!ChordsColumns, Flow!SummaryColumns, Flow!EdgeColumns
<1>3. Distinct(Flow!ThreatColumns) /\ Distinct(Flow!StoryboardColumns)
      /\ Distinct(Flow!TimelineColumns)
  BY DEF Distinct, Flow!ThreatColumns, Flow!StoryboardColumns, Flow!TimelineColumns
<1> QED BY <1>1, <1>2, <1>3

FlowResultCells(cells) ==
  /\ cells[1] = "treceived" /\ cells[2] = "sip" /\ cells[3] = "dip" /\ cells[4] = "sport"
  /\ cells[5] = "dport" /\ cells[6] = "proto" /\ cells[7] = "ipkt" /\ cells[8] = "ibyt"
  /\ cells[9] = "opkt" /\ cells[10] = "obyt" /\ cells[11] = "score" /\ cells[12] = "rank"

FlowAddedCells(cells) ==
  /\ cells[13] = (IF "ipranges" \in conf.files THEN "sip-internal" ELSE Zero)
  /\ cells[14] = (IF "ipranges" \in conf.files THEN "dip-internal" ELSE Zero)
  /\ cells[15] = (IF "iploc" \in conf.files THEN "sip-geo" ELSE Blank)
  /\ cells[16] = (IF "iploc" \in conf.files THEN "dip-geo" ELSE Blank)
  /\ cells[17] = (IF "iploc" \in conf.files THEN "sip-domain" ELSE Blank)
  /\ cells[18] = (IF "iploc" \in conf.files THEN "dip-domain" ELSE Blank)
  /\ cells[19] = (IF conf.reputation = "none" THEN Blank ELSE "sip-rep")
  /\ cells[20] = (IF conf.reputation = "none" THEN Blank ELSE "dip-rep")
  /\ conf.reputation \in {"none", "complete"}

\* The value that a field is for, where it is only one
For(query, field) ==
  IF field \in DOMAIN Particular(query) THEN Particular(query)[field] ELSE General[kind][field]

\* A field that reads a column selected under its own name shows what is in the column.
LEMMA RightSame ==
  ASSUME kind \in Kinds, NEW query, NEW names, NEW entry, NEW p,
         kind # "proxy" \/ p[1] # "datetime" \/ query = "ingestSummary",
         p[1] \in DOMAIN Particular(query) \cup DOMAIN General[kind],
         p[2] \in names,
         Holds(entry, p[2], Written(query, p[1], For(query, p[1])))
  PROVE  Right(query, p, Selected(Same(names), entry))
<1>1. Meaning(query, p[1]) = {For(query, p[1])}
  BY MeaningOf DEF For
<1>2. Holds(Selected(Same(names), entry), p[2], Written(query, p[1], For(query, p[1])))
  BY SelectedSame
<1> QED BY <1>1, <1>2 DEF Right, Read, Holds

\* In flow every field is answered.
LEMMA FlowWritten ==
  ASSUME kind = "flow", NEW query, NEW field, NEW v
  PROVE  Written(query, field, v) = IF v \in Missing /\ query # "timeline" THEN Blank
                                    ELSE IF v \in External THEN Zero ELSE v
BY DEF Written, NeverAnswered

\* The instance of Same in FlowAnswers is that of Columns.
LEMMA FlowSame == ASSUME NEW names PROVE Flow!Same(names) = Same(names)
BY DEF Flow!Same, Same

FlowScoredCells(cells) ==
  /\ cells[1] = "treceived" /\ cells[2] = "sip" /\ cells[3] = "dip" /\ cells[4] = "sport"
  /\ cells[5] = "dport" /\ cells[6] = "severity"

\* The suspicious rows, of what the job inserted
LEMMA FlowSuspicious ==
  ASSUME kind = "flow", NEW cells, FlowResultCells(cells), FlowAddedCells(cells)
  PROVE  LET entry == Inserted(Flow!ScoresColumns, cells)
         IN  \A p \in Flow!SuspiciousType :
               Right("suspicious", p, Selected(Flow!SuspiciousList, entry))
<1> DEFINE entry == Inserted(Flow!ScoresColumns, cells)
<1> HIDE DEF entry
<1>1. ASSUME NEW p \in Flow!SuspiciousType
      PROVE  /\ p[1] \in DOMAIN Particular("suspicious") \cup DOMAIN General[kind]
             /\ p[2] \in {"tstart", "srcip", "dstip", "sport", "dport", "proto", "ipkt",
                          "ibyt", "opkt", "obyt", "ml_score", "rank", "srcip_internal",
                          "dstip_internal", "src_geoloc", "dst_geoloc", "src_domain",
                          "dst_domain", "src_rep", "dst_rep"}
             /\ Holds(entry, p[2], Written("suspicious", p[1], For("suspicious", p[1])))
  BY InsertedCell, FlowDistinct, MissingCells, FlowWritten
     DEF entry, Flow!ScoresColumns, Flow!SuspiciousType, Flow!Same, Flow!Ends, Flow!Ports,
         FlowResultCells, FlowAddedCells, FlowMeaning, MissingWithout, General, For,
         Particular
<1> QED BY <1>1, RightSame, FlowSame DEF entry, Flow!SuspiciousList, Kinds

\* The edge details, of a suspicious row
LEMMA FlowEdge ==
  ASSUME kind = "flow"
  PROVE  LET entry == Inserted(Flow!EdgeColumns, Flow!EdgeCells)
         IN  \A p \in Flow!EdgeDetailsType :
               Right("edgeDetails", p, Selected(Flow!DetailsList, entry))
<1> DEFINE entry == Inserted(Flow!EdgeColumns, Flow!EdgeCells)
<1> HIDE DEF entry
<1>1. ASSUME NEW p \in Flow!EdgeDetailsType
      PROVE  /\ p[1] \in DOMAIN Particular("edgeDetails") \cup DOMAIN General[kind]
             /\ p[2] \in {"tstart", "srcip", "dstip", "sport", "dport", "proto", "flags",
                          "tos", "ibyt", "ipkt", "input", "output", "rip", "obyt",
                          "opkt"}
             /\ Holds(entry, p[2], Written("edgeDetails", p[1], For("edgeDetails", p[1])))
  BY InsertedCell, FlowDistinct, MissingCells, FlowWritten
     DEF entry, Flow!EdgeColumns, Flow!EdgeCells, Flow!EdgeDetailsType, Flow!Same,
         Flow!Ends, Flow!Ports, FlowMeaning, MissingWithout, General, For, Particular
<1> QED BY <1>1, RightSame, FlowSame DEF entry, Flow!DetailsList, Kinds

\* The details of an address, of the chords of a threat
LEMMA FlowIpDetails ==
  ASSUME kind = "flow"
  PROVE  LET entry == Inserted(Flow!ChordsColumns, Flow!ChordCells)
         IN  \A p \in Flow!IpConnectionDetailsType :
               Right("ipDetails", p, Selected(Flow!ChordList, entry))
<1> DEFINE entry == Inserted(Flow!ChordsColumns, Flow!ChordCells)
<1> HIDE DEF entry
<1>1. ASSUME NEW p \in Flow!IpConnectionDetailsType
      PROVE  /\ p[1] \in DOMAIN Particular("ipDetails") \cup DOMAIN General[kind]
             /\ p[2] \in {"srcip", "dstip", "ibyt", "ipkt"}
             /\ Holds(entry, p[2], Written("ipDetails", p[1], For("ipDetails", p[1])))
  BY InsertedCell, FlowDistinct, MissingCells, FlowWritten
     DEF entry, Flow!ChordsColumns, Flow!ChordCells, Flow!IpConnectionDetailsType,
         Flow!Ends, FlowMeaning, MissingWithout, General, For, Particular
<1> QED BY <1>1, RightSame, FlowSame DEF entry, Flow!ChordList, Kinds

\* The ingest summary
LEMMA FlowSummary ==
  ASSUME kind = "flow"
  PROVE  LET entry == Inserted(Flow!SummaryColumns, Flow!SummaryCells)
         IN  \A p \in Flow!IngestSummaryType :
               Right("ingestSummary", p, Selected(Flow!SummaryList, entry))
<1> DEFINE entry == Inserted(Flow!SummaryColumns, Flow!SummaryCells)
<1> HIDE DEF entry
<1>1. ASSUME NEW p \in Flow!IngestSummaryType
      PROVE  /\ p[1] \in DOMAIN Particular("ingestSummary") \cup DOMAIN General[kind]
             /\ p[2] \in {"tdate", "total"}
             /\ Holds(entry, p[2], Written("ingestSummary", p[1], For("ingestSummary", p[1])))
  BY InsertedCell, FlowDistinct, MissingCells, FlowWritten
     DEF entry, Flow!SummaryColumns, Flow!SummaryCells, Flow!IngestSummaryType,
         FlowMeaning, MissingWithout, General, For, Particular
<1> QED BY <1>1, RightSame, FlowSame DEF entry, Flow!SummaryList, Kinds

\* The list of scored threats, of what the score mutation inserted
LEMMA FlowList ==
  ASSUME kind = "flow", NEW cells, FlowScoredCells(cells)
  PROVE  LET entry == Inserted(Flow!ThreatColumns, cells)
         IN  \A p \in Flow!ScoredConnectionType :
               Right("list", p, Selected(Flow!ScoredList, entry))
<1> DEFINE entry == Inserted(Flow!ThreatColumns, cells)
<1> HIDE DEF entry
<1>1. ASSUME NEW p \in Flow!ScoredConnectionType
      PROVE  /\ p[1] \in DOMAIN Particular("list") \cup DOMAIN General[kind]
             /\ p[2] \in {"tstart", "srcip", "dstip", "srcport", "dstport", "score"}
             /\ Holds(entry, p[2], Written("list", p[1], For("list", p[1])))
  BY InsertedCell, FlowDistinct, MissingCells, FlowWritten
     DEF entry, Flow!ThreatColumns, Flow!ScoredConnectionType, Flow!Same, Flow!Ends,
         FlowScoredCells, FlowMeaning, MissingWithout, General, For, Particular
<1> QED BY <1>1, RightSame, FlowSame DEF entry, Flow!ScoredList, Kinds

\* The comments, of what a story inserted
LEMMA FlowComments ==
  ASSUME kind = "flow", NEW cells, cells = << "threat", "title", "text" >>
  PROVE  LET entry == Inserted(Flow!StoryboardColumns, cells)
         IN  \A p \in Flow!CommentType :
               Right("comments", p, Selected(Flow!StoryboardList, entry))
<1> DEFINE entry == Inserted(Flow!StoryboardColumns, cells)
<1> HIDE DEF entry
<1>1. ASSUME NEW p \in Flow!CommentType
      PROVE  /\ p[1] \in DOMAIN Particular("comments") \cup DOMAIN General[kind]
             /\ p[2] \in {"ip_threat", "title", "text"}
             /\ Holds(entry, p[2], Written("comments", p[1], For("comments", p[1])))
  BY InsertedCell, FlowDistinct, MissingCells, FlowWritten
     DEF entry, Flow!StoryboardColumns, Flow!CommentType, Flow!Same, FlowMeaning,
         MissingWithout, General, For, Particular
<1> QED BY <1>1, RightSame, FlowSame DEF entry, Flow!StoryboardList, Kinds

\* The timeline, of what a story inserted
LEMMA FlowTimeline ==
  ASSUME kind = "flow", NEW cells,
         cells = << "threat", "first-treceived", "last-treceived", "sip", "dip", "proto",
                    "sport", "dport", "ipkt", "ibyt" >>
  PROVE  LET entry == Inserted(Flow!TimelineColumns, cells)
         IN  \A p \in Flow!TimelineType :
               Right("timeline", p, Selected(Flow!TimelineList, entry))
<1> DEFINE entry == Inserted(Flow!TimelineColumns, cells)
<1> HIDE DEF entry
<1>1. ASSUME NEW p \in Flow!TimelineType
      PROVE  /\ p[1] \in DOMAIN Particular("timeline") \cup DOMAIN General[kind]
             /\ p[2] \in {"ip_threat", "tstart", "tend", "srcip", "dstip", "proto",
                          "sport", "dport", "ipkt", "ibyt"}
             /\ Holds(entry, p[2], Written("timeline", p[1], For("timeline", p[1])))
  BY InsertedCell, FlowDistinct, MissingCells, FlowWritten
     DEF entry, Flow!TimelineColumns, Flow!TimelineType, Flow!Same, Flow!Ends, Flow!Ports,
         FlowMeaning, MissingWithout, General, For, Particular
<1> QED BY <1>1, RightSame, FlowSame DEF entry, Flow!TimelineList, Kinds

\* A row of the raw data is made of the names of its columns.
LEMMA RawCell ==
  ASSUME NEW columns, NEW list, NEW alias, NEW expr,
         \A e : <<alias, e>> \in list <=> e = expr
  PROVE  Holds(Selected(list, Inserted(columns, columns)), alias, expr)
<1> DEFINE entry == Inserted(columns, columns)
<1>1. ASSUME expr \in DOMAIN entry
      PROVE  entry[expr] = expr
  <2>1. expr \in Range(columns)
    BY <1>1 DEF Inserted
  <2>2. \E i \in DOMAIN columns : columns[i] = expr
    BY <2>1 DEF Range
  <2> QED BY <2>1, <2>2 DEF Inserted
<1> HIDE DEF entry
<1>2. Holds(Selected(list, entry), alias, IF expr \in DOMAIN entry THEN entry[expr] ELSE expr)
  BY SelectedCell
<1> QED BY <1>1, <1>2 DEF entry

\* A type that is read from other columns than those of its own names
LEMMA RightRaw ==
  ASSUME kind \in Kinds, NEW query, NEW list, NEW columns, NEW p,
         kind # "proxy" \/ p[1] # "datetime" \/ query = "ingestSummary",
         p[1] \in DOMAIN Particular(query) \cup DOMAIN General[kind],
         For(query, p[1]) = Written(query, p[1], For(query, p[1])),
         \A e : <<p[2], e>> \in list <=> e = For(query, p[1])
  PROVE  Right(query, p, Selected(list, Inserted(columns, columns)))
<1>1. Meaning(query, p[1]) = {For(query, p[1])}
  BY MeaningOf DEF For
<1>2. Holds(Selected(list, Inserted(columns, columns)), p[2], For(query, p[1]))
  BY RawCell
<1> QED BY <1>1, <1>2 DEF Right, Read, Holds

\* The details of a threat, of the raw data and of counts over it
LEMMA FlowDetails ==
  ASSUME kind = "flow"
  PROVE  LET entry == Inserted(Flow!RawColumns, Flow!RawColumns)
         IN  \A p \in Flow!ThreatDetailsType :
               Right("details", p, Selected(Flow!ExpandedList, entry))
<1>1. ASSUME NEW p \in Flow!ThreatDetailsType
      PROVE  /\ p[1] \in DOMAIN Particular("details") \cup DOMAIN General[kind]
             /\ For("details", p[1]) = Written("details", p[1], For("details", p[1]))
  BY FlowWritten, MissingCells
     DEF Flow!ThreatDetailsType, Flow!Ends, Flow!Ports, FlowMeaning, MissingWithout,
         General, For, Particular
<1>2. ASSUME NEW p \in Flow!ThreatDetailsType, NEW e
      PROVE  <<p[2], e>> \in Flow!ExpandedList <=> e = For("details", p[1])
  BY DEF Flow!ThreatDetailsType, Flow!Ends, Flow!Ports, Flow!ExpandedList, Flow!Same,
         FlowMeaning, General, For, Particular
<1> QED BY <1>1, <1>2, RightRaw DEF Kinds

\* The columns that flow_oa keeps of the results, and the rank
LEMMA FlowResultsRow == IsRow(Flow!FlowResults, 12) /\ FlowResultCells(Flow!FlowResults)
<1> DEFINE kept == << "treceived", "sip", "dip", "sport", "dport", "proto", "ipkt", "ibyt",
                      "opkt", "obyt", "score" >>
<1>1. Flow!FlowResults = Join(kept, << "rank" >>)
  BY DEF Flow!FlowResults, Flow!ColumnIndexesFilter, Flow!ResultsFields, Join
<1>2. IsRow(kept, 11) /\ IsRow(<< "rank" >>, 1)
  <2>1. kept \in Seq({kept[i] : i \in 1 .. 11}) /\ Len(kept) = 11
    OBVIOUS
  <2> QED BY <2>1, Small DEF IsRow
<1>3. /\ IsRow(Flow!FlowResults, 11 + 1)
      /\ \A i \in 1 .. 11 : Flow!FlowResults[i] = kept[i]
      /\ \A i \in 12 .. 12 : Flow!FlowResults[i] = << "rank" >>[i - 11]
  BY <1>1, <1>2, Joined
<1> QED BY <1>3 DEF FlowResultCells

FlowScores == Join(Join(Join(Flow!FlowResults, Flow!AddNetworkContext(conf)),
                        Flow!AddGeoLocalization(conf)), Flow!AddReputation(conf))

\* A row of the flow job, with every step made and none of them raised
LEMMA FlowRow ==
  ASSUME kind = "flow", NEW cells,
         cells = FlowScores,
         Flow!AddReputation(conf) # Raises
  PROVE  FlowResultCells(cells) /\ FlowAddedCells(cells)
<1> DEFINE results == Flow!FlowResults
           context == Flow!AddNetworkContext(conf)
           geo     == Flow!AddGeoLocalization(conf)
           rep     == Flow!AddReputation(conf)
<1>1. IsRow(context, 2) /\ IsRow(geo, 4) /\ IsRow(rep, 2)
  <2>1. IsRow(context, 2)
    BY Small DEF Flow!AddNetworkContext, Flow!Zero, Zero
  <2>2. IsRow(geo, 4)
    BY Small DEF Flow!AddGeoLocalization, Flow!Blank, Blank
  <2>3. rep = << Blank, Blank >> \/ rep = << "sip-rep", "dip-rep" >>
    BY DEF Flow!AddReputation, Flow!Blank, Blank, Flow!Raises, Raises
  <2> QED BY <2>1, <2>2, <2>3, Small
<1>2. /\ context[1] = (IF "ipranges" \in conf.files THEN "sip-internal" ELSE Zero)
      /\ context[2] = (IF "ipranges" \in conf.files THEN "dip-internal" ELSE Zero)
  <2>1. CASE "ipranges" \in conf.files
    BY <2>1 DEF Flow!AddNetworkContext, Flow!Zero, Zero
  <2>2. CASE "ipranges" \notin conf.files
    BY <2>2 DEF Flow!AddNetworkContext, Flow!Zero, Zero
  <2> QED BY <2>1, <2>2
<1>3. /\ geo[1] = (IF "iploc" \in conf.files THEN "sip-geo" ELSE Blank)
      /\ geo[2] = (IF "iploc" \in conf.files THEN "dip-geo" ELSE Blank)
      /\ geo[3] = (IF "iploc" \in conf.files THEN "sip-domain" ELSE Blank)
      /\ geo[4] = (IF "iploc" \in conf.files THEN "dip-domain" ELSE Blank)
  <2>1. CASE "iploc" \in conf.files
    BY <2>1 DEF Flow!AddGeoLocalization, Flow!Blank, Blank
  <2>2. CASE "iploc" \notin conf.files
    BY <2>2 DEF Flow!AddGeoLocalization, Flow!Blank, Blank
  <2> QED BY <2>1, <2>2
<1>4. /\ rep[1] = (IF conf.reputation = "none" THEN Blank ELSE "sip-rep")
      /\ rep[2] = (IF conf.reputation = "none" THEN Blank ELSE "dip-rep")
  <2>1. CASE conf.reputation = "none"
    BY <2>1 DEF Flow!AddReputation, Flow!Blank, Blank, Flow!Raises, Raises
  <2>2. CASE conf.reputation = "complete"
    BY <2>2 DEF Flow!AddReputation, Flow!Blank, Blank, Flow!Raises, Raises
  <2>3. CASE conf.reputation \notin {"none", "complete"}
    BY <2>3 DEF Flow!AddReputation, Flow!Blank, Blank, Flow!Raises, Raises
  <2> QED BY <2>1, <2>2, <2>3
<1> HIDE DEF results, context, geo, rep
<1>5. /\ IsRow(Join(results, context), 12 + 2)
      /\ \A i \in 1 .. 12 : Join(results, context)[i] = results[i]
      /\ \A i \in 13 .. 14 : Join(results, context)[i] = context[i - 12]
  BY <1>1, FlowResultsRow, Joined DEF results
<1>6. /\ IsRow(Join(Join(results, context), geo), 14 + 4)
      /\ \A i \in 1 .. 14 : Join(Join(results, context), geo)[i] = Join(results, context)[i]
      /\ \A i \in 15 .. 18 : Join(Join(results, context), geo)[i] = geo[i - 14]
  BY <1>1, <1>5, Joined
<1>7. cells = Join(Join(Join(results, context), geo), rep)
  BY DEF FlowScores, results, context, geo, rep
<1>8. /\ \A i \in 1 .. 18 : cells[i] = Join(Join(results, context), geo)[i]
      /\ \A i \in 19 .. 20 : cells[i] = rep[i - 18]
  BY <1>1, <1>6, <1>7, Joined
<1>11. \A i \in 1 .. 12 : cells[i] = results[i]
  <2>1. 1 .. 12 \subseteq 1 .. 14 /\ 1 .. 12 \subseteq 1 .. 18
    OBVIOUS
  <2> QED BY <2>1, <1>5, <1>6, <1>8
<1>9. FlowResultCells(cells)
  <2>1. FlowResultCells(results)
    BY FlowResultsRow DEF results
  <2> QED BY <1>11, <2>1 DEF FlowResultCells
<1>10. /\ cells[13] = context[1] /\ cells[14] = context[2] /\ cells[15] = geo[1]
       /\ cells[16] = geo[2] /\ cells[17] = geo[3] /\ cells[18] = geo[4]
       /\ cells[19] = rep[1] /\ cells[20] = rep[2]
  <2>1. /\ cells[13] = Join(Join(results, context), geo)[13]
        /\ cells[14] = Join(Join(results, context), geo)[14]
        /\ cells[15] = Join(Join(results, context), geo)[15]
        /\ cells[16] = Join(Join(results, context), geo)[16]
        /\ cells[17] = Join(Join(results, context), geo)[17]
        /\ cells[18] = Join(Join(results, context), geo)[18]
        /\ cells[19] = rep[1] /\ cells[20] = rep[2]
    BY <1>8
  <2>2. /\ Join(Join(results, context), geo)[13] = context[1]
        /\ Join(Join(results, context), geo)[14] = context[2]
        /\ Join(Join(results, context), geo)[15] = geo[1]
        /\ Join(Join(results, context), geo)[16] = geo[2]
        /\ Join(Join(results, context), geo)[17] = geo[3]
        /\ Join(Join(results, context), geo)[18] = geo[4]
    BY <1>5, <1>6
  <2> QED BY <2>1, <2>2
<1>12. conf.reputation \in {"none", "complete"}
  BY DEF Flow!AddReputation, Flow!Raises, Raises
<1> QED BY <1>2, <1>3, <1>4, <1>9, <1>10, <1>12 DEF FlowAddedCells

\* The score mutation of flow inserts the first five columns that it selects.
LEMMA FlowThreats ==
  ASSUME NEW cells, FlowResultCells(cells)
  PROVE  FlowScoredCells(Flow!ScoredCells(Inserted(Flow!ScoresColumns, cells)))
<1> DEFINE entry == Inserted(Flow!ScoresColumns, cells)
<1>1. /\ entry["tstart"] = "treceived" /\ entry["srcip"] = "sip" /\ entry["dstip"] = "dip"
      /\ entry["sport"] = "sport" /\ entry["dport"] = "dport"
  BY InsertedCell, FlowDistinct DEF Flow!ScoresColumns, FlowResultCells, Holds
<1> HIDE DEF entry
<1> DEFINE kept == [i \in 1 .. 5 |-> entry[Flow!ScoreSelect[i]]]
<1>2. kept = << "treceived", "sip", "dip", "sport", "dport" >>
  BY <1>1 DEF Flow!ScoreSelect
<1>3. Flow!ScoredCells(entry) = Join(kept, << "severity" >>)
  BY DEF Flow!ScoredCells, Join
<1>4. IsRow(kept, 5) /\ IsRow(<< "severity" >>, 1)
  <2>1. kept \in Seq({kept[i] : i \in 1 .. 5}) /\ Len(kept) = 5
    OBVIOUS
  <2> QED BY <2>1, Small DEF IsRow
<1> HIDE DEF kept
<1>5. /\ IsRow(Flow!ScoredCells(entry), 5 + 1)
      /\ \A i \in 1 .. 5 : Flow!ScoredCells(entry)[i] = kept[i]
      /\ \A i \in 6 .. 6 : Flow!ScoredCells(entry)[i] = << "severity" >>[i - 5]
  BY <1>3, <1>4, Joined
<1> QED BY <1>2, <1>5 DEF FlowScoredCells, entry

\* No table of dns has two columns of one name.
LEMMA DNSDistinct ==
  /\ Distinct(DNS!RawColumns) /\ Distinct(DNS!ScoresColumns) /\ Distinct(DNS!EdgeColumns)
  /\ Distinct(DNS!DendroColumns) /\ Distinct(DNS!SummaryColumns)
  /\ Distinct(DNS!ThreatColumns) /\ Distinct(DNS!StoryboardColumns)
  /\ Distinct(DNS!ThreatDendroColumns)
<1>1. Distinct(DNS!RawColumns) /\ Distinct(DNS!ScoresColumns) /\ Distinct(DNS!EdgeColumns)
  BY DEF Distinct, DNS!RawColumns, DNS!ScoresColumns, DNS!EdgeColumns
<1>2. Distinct(DNS!DendroColumns) /\ Distinct(DNS!SummaryColumns)
      /\ Distinct(DNS!ThreatColumns)
  BY DEF Distinct, DNS!DendroColumns, DNS!SummaryColumns, DNS!ThreatColumns
<1>3. Distinct(DNS!StoryboardColumns) /\ Distinct(DNS!ThreatDendroColumns)
  BY DEF Distinct, DNS!StoryboardColumns, DNS!ThreatDendroColumns
<1> QED BY <1>1, <1>2, <1>3

\* A key that is not selected is answered with null or 0.
LEMMA RightUnread ==
  ASSUME kind \in Kinds, NEW query, NEW names, NEW entry, NEW p,
         kind # "proxy" \/ p[1] # "datetime" \/ query = "ingestSummary",
         p[1] \in DOMAIN Particular(query) \cup DOMAIN General[kind],
         p[2] \notin names,
         Written(query, p[1], For(query, p[1])) = IF p[1] \in OrZero THEN Zero ELSE Null
  PROVE  Right(query, p, Selected(Same(names), entry))
<1>1. Meaning(query, p[1]) = {For(query, p[1])}
  BY MeaningOf DEF For
<1>2. p[2] \notin DOMAIN Selected(Same(names), entry)
  BY SelectedSame
<1> QED BY <1>1, <1>2 DEF Right, Read

\* The instance of Same in DNSAnswers is that of Columns.
LEMMA DNSSame == ASSUME NEW names PROVE DNS!Same(names) = Same(names)
BY DEF DNS!Same, Same

\* Three fields of the suspicious rows of dns are never answered.
LEMMA DNSWritten ==
  ASSUME kind = "dns", NEW query, NEW field, NEW v
  PROVE  Written(query, field, v) =
           IF v \in Missing /\ query # "timeline" THEN Blank
           ELSE IF v \in External THEN Zero
           ELSE IF query = "suspicious" /\ field = "dnsQueryRep" THEN Null
           ELSE IF query = "suspicious" /\ field \in {"clientIpSev", "dnsQuerySev"}
           THEN Zero ELSE v
BY DEF Written, NeverAnswered, AlwaysZero

DNSScoresCells(cells) ==
  /\ cells[1] = "frame_time" /\ cells[2] = "unix_tstamp" /\ cells[3] = "frame_len"
  /\ cells[4] = "ip_dst" /\ cells[5] = "dns_qry_name" /\ cells[6] = "dns_qry_class"
  /\ cells[7] = "dns_qry_type" /\ cells[8] = "dns_qry_rcode" /\ cells[9] = "score"
  /\ cells[10] = "tld"
  /\ cells[11] = (IF conf.reputation \in {"none", "silent"} THEN Blank ELSE Null)
  /\ cells[13] = (IF "iana" \in conf.files THEN "class-name" ELSE Blank)
  /\ cells[14] = (IF "iana" \in conf.files THEN "type-name" ELSE Blank)
  /\ cells[15] = (IF "iana" \in conf.files THEN "rcode-name" ELSE Blank)
  /\ cells[16] = (IF "nc" \in conf.files THEN "network-context" ELSE Blank)

DNSEdgeCells(cells) ==
  /\ cells[1] = "unix_tstamp" /\ cells[2] = "frame_len" /\ cells[3] = "ip_dst"
  /\ cells[4] = "ip_src" /\ cells[5] = "dns_qry_name" /\ cells[6] = "dns_qry_class"
  /\ cells[7] = "dns_qry_type" /\ cells[8] = "dns_qry_rcode" /\ cells[9] = "dns_a"
  /\ cells[11] = "class-name" /\ cells[12] = "type-name" /\ cells[13] = "rcode-name"
  /\ "iana" \in conf.files

\* The suspicious rows: the severities are not selected, the reputation is blank or
\* null, the other fields show their columns.
LEMMA DNSSuspicious ==
  ASSUME kind = "dns", NEW cells, DNSScoresCells(cells)
  PROVE  LET entry == Inserted(DNS!ScoresColumns, cells)
         IN  \A p \in DNS!SuspiciousType :
               Right("suspicious", p, Selected(DNS!SuspiciousList, entry))
<1> DEFINE entry == Inserted(DNS!ScoresColumns, cells)
<1> HIDE DEF entry
<1>1. ASSUME NEW p \in DNS!SuspiciousType,
             p[1] \notin {"clientIpSev", "dnsQuerySev", "dnsQueryRep"}
      PROVE  /\ p[1] \in DOMAIN Particular("suspicious") \cup DOMAIN General[kind]
             /\ p[2] \in {"unix_tstamp", "frame_len", "ip_dst", "dns_qry_name",
                          "dns_qry_class", "dns_qry_type", "dns_qry_rcode", "ml_score",
                          "tld", "query_rep", "hh", "dns_qry_class_name",
                          "dns_qry_type_name", "dns_qry_rcode_name", "network_context"}
             /\ Holds(entry, p[2], Written("suspicious", p[1], For("suspicious", p[1])))
  BY <1>1, InsertedCell, DNSDistinct, MissingCells, DNSWritten
     DEF entry, DNS!ScoresColumns, DNS!SuspiciousType, DNS!Connection, DNS!QueryName,
         DNS!Client, DNSScoresCells, DNSMeaning, MissingWithout, General, For,
         Particular
<1>3. ASSUME NEW p \in DNS!SuspiciousType, p[1] = "dnsQueryRep"
      PROVE  /\ p[1] \in DOMAIN Particular("suspicious") \cup DOMAIN General[kind]
             /\ p[2] \in {"unix_tstamp", "frame_len", "ip_dst", "dns_qry_name",
                          "dns_qry_class", "dns_qry_type", "dns_qry_rcode", "ml_score",
                          "tld", "query_rep", "hh", "dns_qry_class_name",
                          "dns_qry_type_name", "dns_qry_rcode_name", "network_context"}
             /\ Holds(entry, p[2], Written("suspicious", p[1], For("suspicious", p[1])))
  BY <1>3, InsertedCell, DNSDistinct, MissingCells, DNSWritten
     DEF entry, DNS!ScoresColumns, DNS!SuspiciousType, DNS!Connection, DNS!QueryName,
         DNS!Client, DNSScoresCells, DNSMeaning, MissingWithout, General, For,
         Particular
<1>2. ASSUME NEW p \in DNS!SuspiciousType, p[1] \in {"clientIpSev", "dnsQuerySev"}
      PROVE  /\ p[1] \in DOMAIN Particular("suspicious") \cup DOMAIN General[kind]
             /\ p[2] \notin {"unix_tstamp", "frame_len", "ip_dst", "dns_qry_name",
                             "dns_qry_class", "dns_qry_type", "dns_qry_rcode",
                             "ml_score", "tld", "query_rep", "hh", "dns_qry_class_name",
                             "dns_qry_type_name", "dns_qry_rcode_name",
                             "network_context"}
             /\ Written("suspicious", p[1], For("suspicious", p[1])) = Zero
             /\ p[1] \in OrZero
  BY <1>2, MissingCells, DNSWritten
     DEF OrZero, DNS!OrZero, DNS!SuspiciousType, DNS!Connection, DNS!QueryName, DNS!Client, DNSMeaning,
         MissingWithout, General, For, Particular
<1> QED BY <1>1, <1>2, <1>3, RightSame, RightUnread, DNSSame
        DEF entry, DNS!SuspiciousList, Kinds

\* The edge details, of a suspicious query
LEMMA DNSEdge ==
  ASSUME kind = "dns", NEW cells, DNSEdgeCells(cells)
  PROVE  LET entry == Inserted(DNS!EdgeColumns, cells)
         IN  \A p \in DNS!EdgeDetailsType :
               Right("edgeDetails", p, Selected(DNS!DetailsList, entry))
<1> DEFINE entry == Inserted(DNS!EdgeColumns, cells)
<1> HIDE DEF entry
<1>1. ASSUME NEW p \in DNS!EdgeDetailsType
      PROVE  /\ p[1] \in DOMAIN Particular("edgeDetails") \cup DOMAIN General[kind]
             /\ p[2] \in {"unix_tstamp", "frame_len", "ip_dst", "ip_src", "dns_qry_name",
                          "dns_qry_class", "dns_qry_type", "dns_qry_rcode", "dns_a",
                          "dns_qry_type_name", "dns_qry_rcode_name",
                          "dns_qry_class_name"}
             /\ Holds(entry, p[2], Written("edgeDetails", p[1], For("edgeDetails", p[1])))
  BY InsertedCell, DNSDistinct, MissingCells, DNSWritten
     DEF entry, DNS!EdgeColumns, DNS!EdgeDetailsType, DNS!Connection, DNS!QueryName,
         DNS!Client, DNSEdgeCells, DNSMeaning, MissingWithout, General, For, Particular
<1> QED BY <1>1, RightSame, DNSSame DEF entry, DNS!DetailsList, Kinds

\* The queries of a client, of its dendrogram
LEMMA DNSIpDetails ==
  ASSUME kind = "dns"
  PROVE  LET entry == Inserted(DNS!DendroColumns, DNS!DendroCells)
         IN  \A p \in DNS!IpDetailsType :
               Right("ipDetails", p, Selected(DNS!ClientDetailsList, entry))
<1> DEFINE entry == Inserted(DNS!DendroColumns, DNS!DendroCells)
<1> HIDE DEF entry
<1>1. ASSUME NEW p \in DNS!IpDetailsType
      PROVE  /\ p[1] \in DOMAIN Particular("ipDetails") \cup DOMAIN General[kind]
             /\ p[2] \in {"ip_dst", "dns_a", "dns_qry_name"}
             /\ Holds(entry, p[2], Written("ipDetails", p[1], For("ipDetails", p[1])))
  BY InsertedCell, DNSDistinct, MissingCells, DNSWritten
     DEF entry, DNS!DendroColumns, DNS!DendroCells, DNS!IpDetailsType, DNS!QueryName,
         DNSMeaning, MissingWithout, General, For, Particular
<1> QED BY <1>1, RightSame, DNSSame DEF entry, DNS!ClientDetailsList, Kinds

\* The ingest summary
LEMMA DNSSummary ==
  ASSUME kind = "dns"
  PROVE  LET entry == Inserted(DNS!SummaryColumns, DNS!SummaryCells)
         IN  \A p \in DNS!IngestSummaryType :
               Right("ingestSummary", p, Selected(DNS!SummaryList, entry))
<1> DEFINE entry == Inserted(DNS!SummaryColumns, DNS!SummaryCells)
<1> HIDE DEF entry
<1>1. ASSUME NEW p \in DNS!IngestSummaryType
      PROVE  /\ p[1] \in DOMAIN Particular("ingestSummary") \cup DOMAIN General[kind]
             /\ p[2] \in {"tdate", "total"}
             /\ Holds(entry, p[2], Written("ingestSummary", p[1], For("ingestSummary", p[1])))
  BY InsertedCell, DNSDistinct, MissingCells, DNSWritten
     DEF entry, DNS!SummaryColumns, DNS!SummaryCells, DNS!IngestSummaryType, DNSMeaning,
         MissingWithout, General, For, Particular
<1> QED BY <1>1, RightSame, DNSSame DEF entry, DNS!SummaryList, Kinds

\* The list of scored threats, of what the score mutation inserted
LEMMA DNSList ==
  ASSUME kind = "dns", NEW cells,
         cells = << "unix_tstamp", "ip_dst", "dns_qry_name", "client-severity",
                    "query-severity" >>
  PROVE  LET entry == Inserted(DNS!ThreatColumns, cells)
         IN  \A p \in DNS!ScoredThreatType :
               Right("list", p, Selected(DNS!ScoredList, entry))
<1> DEFINE entry == Inserted(DNS!ThreatColumns, cells)
<1> HIDE DEF entry
<1>1. ASSUME NEW p \in DNS!ScoredThreatType
      PROVE  /\ p[1] \in DOMAIN Particular("list") \cup DOMAIN General[kind]
             /\ p[2] \in {"unix_tstamp", "ip_dst", "dns_qry_name", "ip_sev", "dns_sev"}
             /\ Holds(entry, p[2], Written("list", p[1], For("list", p[1])))
  BY InsertedCell, DNSDistinct, MissingCells, DNSWritten
     DEF entry, DNS!ThreatColumns, DNS!ScoredThreatType, DNS!QueryName, DNS!Client,
         DNSMeaning, MissingWithout, General, For, Particular
<1> QED BY <1>1, RightSame, DNSSame DEF entry, DNS!ScoredList, Kinds

\* The comments of a client, of what a story inserted
LEMMA DNSClientComments ==
  ASSUME kind = "dns", NEW cells, cells = << "threat", Blank, "title", "text" >>
  PROVE  LET entry == Inserted(DNS!StoryboardColumns, cells)
         IN  \A p \in DNS!ClientIpCommentType :
               Right("comments", p, Selected(DNS!CommentsList, entry))
<1> DEFINE entry == Inserted(DNS!StoryboardColumns, cells)
<1> HIDE DEF entry
<1>1. ASSUME NEW p \in DNS!ClientIpCommentType
      PROVE  /\ p[1] \in DOMAIN Particular("comments") \cup DOMAIN General[kind]
             /\ p[2] \in {"ip_threat", "dns_threat", "title", "text"}
             /\ Holds(entry, p[2], Written("comments", p[1], For("comments", p[1])))
  BY InsertedCell, DNSDistinct, MissingCells, DNSWritten
     DEF entry, DNS!StoryboardColumns, DNS!ClientIpCommentType, DNS!Same, DNSMeaning,
         MissingWithout, General, For, Particular
<1> QED BY <1>1, RightSame, DNSSame DEF entry, DNS!CommentsList, Kinds

\* The comments of a query name, of what a story inserted
LEMMA DNSQueryComments ==
  ASSUME kind = "dns", NEW cells, cells = << Blank, "threat", "title", "text" >>
  PROVE  LET entry == Inserted(DNS!StoryboardColumns, cells)
         IN  \A p \in DNS!QueryCommentType :
               Right("comments", p, Selected(DNS!CommentsList, entry))
<1> DEFINE entry == Inserted(DNS!StoryboardColumns, cells)
<1> HIDE DEF entry
<1>1. ASSUME NEW p \in DNS!QueryCommentType
      PROVE  /\ p[1] \in DOMAIN Particular("comments") \cup DOMAIN General[kind]
             /\ p[2] \in {"ip_threat", "dns_threat", "title", "text"}
             /\ Holds(entry, p[2], Written("comments", p[1], For("comments", p[1])))
  BY InsertedCell, DNSDistinct, MissingCells, DNSWritten
     DEF entry, DNS!StoryboardColumns, DNS!QueryCommentType, DNS!Same, DNSMeaning,
         MissingWithout, General, For, Particular
<1> QED BY <1>1, RightSame, DNSSame DEF entry, DNS!CommentsList, Kinds

\* The progression of a client: the names it asked for
LEMMA DNSQueriesOfClient ==
  ASSUME kind = "dns", NEW cells,
         cells = << "threat", "count", "dns_qry_name", "ip_dst" >>
  PROVE  LET entry == Inserted(DNS!ThreatDendroColumns, cells)
         IN  \A p \in DNS!IncidentProgressionQueryType :
               Right("queriesOfClient", p, Selected(DNS!ProgressionList(TRUE), entry))
<1> DEFINE entry == Inserted(DNS!ThreatDendroColumns, cells)
<1> HIDE DEF entry
<1>1. ASSUME NEW p \in DNS!IncidentProgressionQueryType
      PROVE  /\ p[1] \in DOMAIN Particular("queriesOfClient") \cup DOMAIN General[kind]
             /\ p[2] \in {"anchor", "total", "dns_qry_name"}
             /\ Holds(entry, p[2],
                      Written("queriesOfClient", p[1], For("queriesOfClient", p[1])))
  BY InsertedCell, DNSDistinct, MissingCells, DNSWritten
     DEF entry, DNS!ThreatDendroColumns, DNS!IncidentProgressionQueryType, DNS!QueryName,
         DNS!Client, DNSMeaning, MissingWithout, General, For, Particular
<1> QED BY <1>1, RightSame, DNSSame DEF entry, DNS!ProgressionList, Kinds

\* The progression of a query name: the clients that asked for it
LEMMA DNSClientsOfQuery ==
  ASSUME kind = "dns", NEW cells,
         cells = << "threat", "count", "dns_qry_name", "ip_dst" >>
  PROVE  LET entry == Inserted(DNS!ThreatDendroColumns, cells)
         IN  \A p \in DNS!IncidentProgressionClientIpType :
               Right("clientsOfQuery", p, Selected(DNS!ProgressionList(FALSE), entry))
<1> DEFINE entry == Inserted(DNS!ThreatDendroColumns, cells)
<1> HIDE DEF entry
<1>1. ASSUME NEW p \in DNS!IncidentProgressionClientIpType
      PROVE  /\ p[1] \in DOMAIN Particular("clientsOfQuery") \cup DOMAIN General[kind]
             /\ p[2] \in {"anchor", "total", "ip_dst"}
             /\ Holds(entry, p[2],
                      Written("clientsOfQuery", p[1], For("clientsOfQuery", p[1])))
  BY InsertedCell, DNSDistinct, MissingCells, DNSWritten
     DEF entry, DNS!ThreatDendroColumns, DNS!IncidentProgressionClientIpType,
         DNS!QueryName, DNS!Client, DNSMeaning, MissingWithout, General, For, Particular
<1> QED BY <1>1, RightSame, DNSSame DEF entry, DNS!ProgressionList, Kinds

\* The details of a threat, of the raw data and of counts over it
LEMMA DNSDetails ==
  ASSUME kind = "dns"
  PROVE  LET entry == Inserted(DNS!RawColumns, DNS!RawColumns)
         IN  \A p \in DNS!ThreatDetailsType :
               Right("details", p, Selected(DNS!ExpandedList, entry))
<1>1. ASSUME NEW p \in DNS!ThreatDetailsType
      PROVE  /\ p[1] \in DOMAIN Particular("details") \cup DOMAIN General[kind]
             /\ For("details", p[1]) = Written("details", p[1], For("details", p[1]))
  BY DNSWritten, MissingCells
     DEF DNS!ThreatDetailsType, DNS!QueryName, DNS!Client, DNSMeaning, MissingWithout,
         General, For, Particular
<1>2. ASSUME NEW p \in DNS!ThreatDetailsType, NEW e
      PROVE  <<p[2], e>> \in DNS!ExpandedList <=> e = For("details", p[1])
  BY DEF DNS!ThreatDetailsType, DNS!QueryName, DNS!Client, DNS!ExpandedList, DNS!Same,
         DNSMeaning, General, For, Particular
<1> QED BY <1>1, <1>2, RightRaw DEF Kinds

\* No table of proxy has two columns of one name.
LEMMA ProxyDistinct ==
  /\ Distinct(Proxy!RawColumns) /\ Distinct(Proxy!ScoresColumns) /\ Distinct(Proxy!EdgeColumns)
  /\ Distinct(Proxy!ProgressionKeys) /\ Distinct(Proxy!SummaryColumns)
  /\ Distinct(Proxy!ThreatColumns) /\ Distinct(Proxy!StoryboardColumns)
  /\ Distinct(Proxy!TimelineColumns)
<1>1. Distinct(Proxy!RawColumns) /\ Distinct(Proxy!ScoresColumns)
  BY DEF Distinct, Proxy!RawColumns, Proxy!ScoresColumns
<1>2. Distinct(Proxy!EdgeColumns) /\ Distinct(Proxy!ProgressionKeys)
  BY DEF Distinct, Proxy!EdgeColumns, Proxy!ProgressionKeys
<1>3. Distinct(Proxy!SummaryColumns) /\ Distinct(Proxy!ThreatColumns)
      /\ Distinct(Proxy!StoryboardColumns) /\ Distinct(Proxy!TimelineColumns)
  BY DEF Distinct, Proxy!SummaryColumns, Proxy!ThreatColumns, Proxy!StoryboardColumns,
         Proxy!TimelineColumns
<1> QED BY <1>1, <1>2, <1>3

\* The instance of Same in ProxyAnswers is that of Columns.
LEMMA ProxySame == ASSUME NEW names PROVE Proxy!Same(names) = Same(names)
BY DEF Proxy!Same, Same

\* The label of the timeline is never answered.
LEMMA ProxyWritten ==
  ASSUME kind = "proxy", NEW query, NEW field, NEW v
  PROVE  Written(query, field, v) =
           IF v \in Missing /\ query # "timeline" THEN Blank
           ELSE IF v \in External THEN Zero
           ELSE IF query = "timeline" /\ field = "responseCodeLabel" THEN Null ELSE v
BY DEF Written, NeverAnswered

\* What a date and a time are put together from
TwoValues(query, type, entry) ==
  /\ Meaning(query, "datetime") = {"p_date", "p_time"}
  /\ {Read(entry, p) : p \in {p \in type : p[1] = "datetime"}} = {"p_date", "p_time"}

\* A date and time read from the columns of the two show both.
LEMMA ProxyStarted ==
  ASSUME kind = "proxy", NEW query \in {"suspicious", "edgeDetails", "details"},
         NEW type, NEW entry, NEW date, NEW time,
         \A p \in type : p[1] = "datetime" => p[2] \in {date, time},
         \E p \in type : p[1] = "datetime" /\ p[2] = date,
         \E p \in type : p[1] = "datetime" /\ p[2] = time,
         Holds(entry, date, "p_date"), Holds(entry, time, "p_time")
  PROVE  TwoValues(query, type, entry)
<1>1. Meaning(query, "datetime") = {"p_date", "p_time"}
  BY DEF Meaning
<1>2. {Read(entry, p) : p \in {p \in type : p[1] = "datetime"}} = {"p_date", "p_time"}
  <2>1. PICK p \in type : p[1] = "datetime" /\ p[2] = date
    OBVIOUS
  <2>2. PICK q \in type : q[1] = "datetime" /\ q[2] = time
    OBVIOUS
  <2> DEFINE read == {Read(entry, r) : r \in {r \in type : r[1] = "datetime"}}
  <2>3. Read(entry, p) \in read /\ Read(entry, q) \in read
    BY <2>1, <2>2
  <2>4. Read(entry, p) = "p_date" /\ Read(entry, q) = "p_time"
    BY <2>1, <2>2 DEF Read, Holds
  <2>5. \A x \in read : x \in {"p_date", "p_time"}
    <3> SUFFICES ASSUME NEW r \in type, r[1] = "datetime"
                 PROVE  Read(entry, r) \in {"p_date", "p_time"}
      OBVIOUS
    <3>1. r[2] = date \/ r[2] = time
      OBVIOUS
    <3> QED BY <3>1 DEF Read, Holds
  <2> HIDE DEF read
  <2>6. read = {"p_date", "p_time"}
    BY <2>3, <2>4, <2>5
  <2> QED BY <2>6 DEF read
<1> QED BY <1>1, <1>2 DEF TwoValues

ProxyResultCells(cells) ==
  /\ cells[1] = "p_date" /\ cells[2] = "p_time" /\ cells[3] = "clientip"
  /\ cells[4] = "host" /\ cells[5] = "reqmethod" /\ cells[6] = "useragent"
  /\ cells[7] = "resconttype" /\ cells[8] = "duration" /\ cells[9] = "username"
  /\ cells[10] = "webcat" /\ cells[11] = "referer" /\ cells[12] = "respcode"
  /\ cells[13] = "uriport" /\ cells[14] = "uripath" /\ cells[15] = "uriquery"
  /\ cells[16] = "serverip" /\ cells[17] = "scbytes" /\ cells[18] = "csbytes"
  /\ cells[19] = "fulluri" /\ cells[21] = "score"

ProxyScoresCells(cells) ==
  /\ ProxyResultCells(cells)
  /\ cells[22] = (IF conf.reputation \in {"none", "silent"} THEN Blank ELSE "uri-rep")
  /\ cells[23] = (IF "iana" \in conf.files THEN "respcode-name" ELSE Blank)
  /\ cells[24] = (IF "nc" \in conf.files THEN "network-context" ELSE Blank)

\* The suspicious rows, of what the job inserted
LEMMA ProxySuspicious ==
  ASSUME kind = "proxy", NEW cells, ProxyScoresCells(cells)
  PROVE  LET entry == Inserted(Proxy!ScoresColumns, cells)
         IN  /\ \A p \in Proxy!SuspiciousType :
                  p[1] # "datetime" =>
                    Right("suspicious", p, Selected(Proxy!SuspiciousList, entry))
             /\ TwoValues("suspicious", Proxy!SuspiciousType,
                          Selected(Proxy!SuspiciousList, entry))
<1> DEFINE entry == Inserted(Proxy!ScoresColumns, cells)
<1> HIDE DEF entry
<1>1. ASSUME NEW p \in Proxy!SuspiciousType, p[1] # "datetime"
      PROVE  /\ p[1] \in DOMAIN Particular("suspicious") \cup DOMAIN General[kind]
             /\ p[2] \in {"tdate", "time", "clientip", "host", "reqmethod", "useragent",
                          "resconttype", "duration", "username", "webcat", "referer",
                          "respcode", "uriport", "uripath", "uriquery", "serverip",
                          "scbytes", "csbytes", "fulluri", "ml_score", "uri_rep",
                          "respcode_name", "network_context"}
             /\ Holds(entry, p[2], Written("suspicious", p[1], For("suspicious", p[1])))
  BY <1>1, InsertedCell, ProxyDistinct, MissingCells, ProxyWritten
     DEF entry, Proxy!ScoresColumns, Proxy!SuspiciousType, Proxy!Uri, Proxy!Started,
         Proxy!Headers, Proxy!Same, ProxyScoresCells, ProxyResultCells, ProxyMeaning,
         MissingWithout, General, For, Particular
<1>2. Holds(entry, "tdate", "p_date") /\ Holds(entry, "time", "p_time")
  BY InsertedCell, ProxyDistinct DEF entry, Proxy!ScoresColumns, ProxyScoresCells,
                                      ProxyResultCells
<1>3. /\ Holds(Selected(Proxy!SuspiciousList, entry), "tdate", "p_date")
      /\ Holds(Selected(Proxy!SuspiciousList, entry), "time", "p_time")
  BY <1>2, SelectedSame, ProxySame DEF Proxy!SuspiciousList
<1>4. TwoValues("suspicious", Proxy!SuspiciousType, Selected(Proxy!SuspiciousList, entry))
  <2>1. /\ <<"datetime", "tdate">> \in Proxy!SuspiciousType
        /\ <<"datetime", "time">> \in Proxy!SuspiciousType
        /\ \A p \in Proxy!SuspiciousType : p[1] = "datetime" => p[2] \in {"tdate", "time"}
    BY DEF Proxy!SuspiciousType, Proxy!Uri, Proxy!Started, Proxy!Headers, Proxy!Same
  <2>2. /\ \E p \in Proxy!SuspiciousType : p[1] = "datetime" /\ p[2] = "tdate"
        /\ \E p \in Proxy!SuspiciousType : p[1] = "datetime" /\ p[2] = "time"
    BY <2>1
  <2> QED BY <1>3, <2>1, <2>2, ProxyStarted
<1>5. ASSUME NEW p \in Proxy!SuspiciousType, p[1] # "datetime"
      PROVE  Right("suspicious", p, Selected(Proxy!SuspiciousList, entry))
  BY <1>1, <1>5, RightSame, ProxySame DEF Proxy!SuspiciousList, Kinds
<1> QED BY <1>4, <1>5 DEF entry

\* The edge details, of a suspicious request
LEMMA ProxyEdge ==
  ASSUME kind = "proxy", NEW cells, cells = Proxy!EdgeCells(conf), "iana" \in conf.files
  PROVE  LET entry == Inserted(Proxy!EdgeColumns, cells)
         IN  /\ \A p \in Proxy!EdgeDetailsType :
                  p[1] # "datetime" =>
                    Right("edgeDetails", p, Selected(Proxy!DetailsList, entry))
             /\ TwoValues("edgeDetails", Proxy!EdgeDetailsType,
                          Selected(Proxy!DetailsList, entry))
<1> DEFINE entry == Inserted(Proxy!EdgeColumns, cells)
<1> HIDE DEF entry
<1>1. ASSUME NEW p \in Proxy!EdgeDetailsType, p[1] # "datetime"
      PROVE  /\ p[1] \in DOMAIN Particular("edgeDetails") \cup DOMAIN General[kind]
             /\ p[2] \in {"tdate", "time", "clientip", "host", "webcat", "respcode",
                          "respcode_name", "reqmethod", "useragent", "resconttype",
                          "referer", "uriport", "serverip", "scbytes", "csbytes",
                          "fulluri", "hh"}
             /\ Holds(entry, p[2], Written("edgeDetails", p[1], For("edgeDetails", p[1])))
  BY <1>1, InsertedCell, ProxyDistinct, MissingCells, ProxyWritten
     DEF entry, Proxy!EdgeColumns, Proxy!EdgeDetailsType, Proxy!Uri, Proxy!Started,
         Proxy!Headers, Proxy!EdgeCells, ProxyMeaning, MissingWithout, General, For,
         Particular
<1>2. Holds(entry, "tdate", "p_date") /\ Holds(entry, "time", "p_time")
  BY InsertedCell, ProxyDistinct DEF entry, Proxy!EdgeColumns, Proxy!EdgeCells
<1>3. /\ Holds(Selected(Proxy!DetailsList, entry), "tdate", "p_date")
      /\ Holds(Selected(Proxy!DetailsList, entry), "time", "p_time")
  BY <1>2, SelectedSame, ProxySame DEF Proxy!DetailsList
<1>4. TwoValues("edgeDetails", Proxy!EdgeDetailsType, Selected(Proxy!DetailsList, entry))
  <2>1. /\ <<"datetime", "tdate">> \in Proxy!EdgeDetailsType
        /\ <<"datetime", "time">> \in Proxy!EdgeDetailsType
        /\ \A p \in Proxy!EdgeDetailsType : p[1] = "datetime" => p[2] \in {"tdate", "time"}
    BY DEF Proxy!EdgeDetailsType, Proxy!Uri, Proxy!Started, Proxy!Headers
  <2>2. /\ \E p \in Proxy!EdgeDetailsType : p[1] = "datetime" /\ p[2] = "tdate"
        /\ \E p \in Proxy!EdgeDetailsType : p[1] = "datetime" /\ p[2] = "time"
    BY <2>1
  <2> QED BY <1>3, <2>1, <2>2, ProxyStarted
<1>5. ASSUME NEW p \in Proxy!EdgeDetailsType, p[1] # "datetime"
      PROVE  Right("edgeDetails", p, Selected(Proxy!DetailsList, entry))
  BY <1>1, <1>5, RightSame, ProxySame DEF Proxy!DetailsList, Kinds
<1> QED BY <1>4, <1>5 DEF entry

\* The ingest summary
LEMMA ProxySummary ==
  ASSUME kind = "proxy"
  PROVE  LET entry == Inserted(Proxy!SummaryColumns, Proxy!SummaryCells)
         IN  \A p \in Proxy!IngestSummaryType :
               Right("ingestSummary", p, Selected(Proxy!SummaryList, entry))
<1> DEFINE entry == Inserted(Proxy!SummaryColumns, Proxy!SummaryCells)
<1> HIDE DEF entry
<1>1. ASSUME NEW p \in Proxy!IngestSummaryType
      PROVE  /\ p[1] \in DOMAIN Particular("ingestSummary") \cup DOMAIN General[kind]
             /\ p[2] \in {"tdate", "total"}
             /\ Holds(entry, p[2], Written("ingestSummary", p[1], For("ingestSummary", p[1])))
  BY InsertedCell, ProxyDistinct, MissingCells, ProxyWritten
     DEF entry, Proxy!SummaryColumns, Proxy!SummaryCells, Proxy!IngestSummaryType,
         ProxyMeaning, MissingWithout, General, For, Particular
<1> QED BY <1>1, RightSame, ProxySame DEF entry, Proxy!SummaryList, Kinds

\* The list of scored threats, of what the score mutation inserted
LEMMA ProxyList ==
  ASSUME kind = "proxy", NEW cells, cells = << "p_date", "fulluri", "severity" >>
  PROVE  LET entry == Inserted(Proxy!ThreatColumns, cells)
         IN  \A p \in Proxy!ScoredRequestType :
               Right("list", p, Selected(Proxy!ScoredList, entry))
<1> DEFINE entry == Inserted(Proxy!ThreatColumns, cells)
<1> HIDE DEF entry
<1>1. ASSUME NEW p \in Proxy!ScoredRequestType, p[1] # "datetime"
      PROVE  /\ p[1] \in DOMAIN Particular("list") \cup DOMAIN General[kind]
             /\ p[2] \in {"tdate", "fulluri", "uri_sev"}
             /\ Holds(entry, p[2], Written("list", p[1], For("list", p[1])))
  BY <1>1, InsertedCell, ProxyDistinct, MissingCells, ProxyWritten
     DEF entry, Proxy!ThreatColumns, Proxy!ScoredRequestType, Proxy!Uri, ProxyMeaning,
         MissingWithout, General, For, Particular
<1>2. Holds(entry, "tdate", "p_date")
  BY InsertedCell, ProxyDistinct DEF entry, Proxy!ThreatColumns
<1>3. Holds(Selected(Proxy!ScoredList, entry), "tdate", "p_date")
  BY <1>2, SelectedSame, ProxySame DEF Proxy!ScoredList
<1>4. ASSUME NEW p \in Proxy!ScoredRequestType, p[1] = "datetime"
      PROVE  Right("list", p, Selected(Proxy!ScoredList, entry))
  <2>1. p[2] = "tdate"
    BY <1>4 DEF Proxy!ScoredRequestType, Proxy!Uri
  <2>2. Meaning("list", p[1]) = {"p_date"}
    BY <1>4 DEF Meaning
  <2>3. Written("list", p[1], "p_date") = "p_date"
    BY ProxyWritten, MissingCells DEF MissingWithout
  <2> QED BY <1>3, <2>1, <2>2, <2>3 DEF Right, Read, Holds
<1>5. ASSUME NEW p \in Proxy!ScoredRequestType, p[1] # "datetime"
      PROVE  Right("list", p, Selected(Proxy!ScoredList, entry))
  BY <1>1, <1>5, RightSame, ProxySame DEF Proxy!ScoredList, Kinds
<1> QED BY <1>4, <1>5 DEF entry

\* The comments, of what a story inserted
LEMMA ProxyComments ==
  ASSUME kind = "proxy", NEW cells, cells = << "threat", "title", "text" >>
  PROVE  LET entry == Inserted(Proxy!StoryboardColumns, cells)
         IN  \A p \in Proxy!CommentType :
               Right("comments", p, Selected(Proxy!StoryboardList, entry))
<1> DEFINE entry == Inserted(Proxy!StoryboardColumns, cells)
<1> HIDE DEF entry
<1>1. ASSUME NEW p \in Proxy!CommentType
      PROVE  /\ p[1] \in DOMAIN Particular("comments") \cup DOMAIN General[kind]
             /\ p[2] \in {"p_threat", "title", "text"}
             /\ Holds(entry, p[2], Written("comments", p[1], For("comments", p[1])))
  BY InsertedCell, ProxyDistinct, MissingCells, ProxyWritten
     DEF entry, Proxy!StoryboardColumns, Proxy!CommentType, Proxy!Same, ProxyMeaning,
         MissingWithout, General, For, Particular
<1>2. \A p \in Proxy!CommentType : p[1] # "datetime"
  BY DEF Proxy!CommentType, Proxy!Same
<1> QED BY <1>1, <1>2, RightSame, ProxySame DEF entry, Proxy!StoryboardList, Kinds

\* The timeline, of what a story inserted: the label reads a key that is not selected.
LEMMA ProxyTimeline ==
  ASSUME kind = "proxy", NEW cells,
         cells = << "threat", "p_date-first-p_time", "p_date-last-p_time", "sum-duration",
                    "clientip", "respcode", "respCodeName" >>
  PROVE  LET entry == Inserted(Proxy!TimelineColumns, cells)
         IN  \A p \in Proxy!TimelineType :
               Right("timeline", p, Selected(Proxy!TimelineList, entry))
<1> DEFINE entry == Inserted(Proxy!TimelineColumns, cells)
<1> HIDE DEF entry
<1>1. ASSUME NEW p \in Proxy!TimelineType, p[1] # "responseCodeLabel"
      PROVE  /\ p[1] \in DOMAIN Particular("timeline") \cup DOMAIN General[kind]
             /\ p[2] \in {"p_threat", "tstart", "tend", "duration", "clientip",
                          "respcode", "respcodename"}
             /\ Holds(entry, p[2], Written("timeline", p[1], For("timeline", p[1])))
  BY <1>1, InsertedCell, ProxyDistinct, MissingCells, ProxyWritten
     DEF entry, Proxy!TimelineColumns, Proxy!TimelineType, ProxyMeaning, MissingWithout,
         General, For, Particular
<1>2. ASSUME NEW p \in Proxy!TimelineType, p[1] = "responseCodeLabel"
      PROVE  /\ p[1] \in DOMAIN Particular("timeline") \cup DOMAIN General[kind]
             /\ p[2] \notin {"p_threat", "tstart", "tend", "duration", "clientip",
                             "respcode", "respcodename"}
             /\ Written("timeline", p[1], For("timeline", p[1])) = Null
             /\ p[1] \notin OrZero
  BY <1>2, ProxyWritten, MissingCells
     DEF OrZero, MissingWithout, Proxy!TimelineType, ProxyMeaning, General, For, Particular
<1>3. \A p \in Proxy!TimelineType : p[1] # "datetime"
  BY DEF Proxy!TimelineType
<1> QED BY <1>1, <1>2, <1>3, RightSame, RightUnread, ProxySame
        DEF entry, Proxy!TimelineList, Kinds

\* The details of a threat, of the raw data
LEMMA ProxyDetails ==
  ASSUME kind = "proxy"
  PROVE  LET entry == Inserted(Proxy!RawColumns, Proxy!RawColumns)
         IN  /\ \A p \in Proxy!ThreatDetailsType :
                  p[1] # "datetime" =>
                    Right("details", p, Selected(Proxy!ExpandedList, entry))
             /\ TwoValues("details", Proxy!ThreatDetailsType,
                          Selected(Proxy!ExpandedList, entry))
<1> DEFINE entry == Inserted(Proxy!RawColumns, Proxy!RawColumns)
<1> HIDE DEF entry
<1>1. ASSUME NEW p \in Proxy!ThreatDetailsType, p[1] # "datetime"
      PROVE  /\ p[1] \in DOMAIN Particular("details") \cup DOMAIN General[kind]
             /\ For("details", p[1]) = Written("details", p[1], For("details", p[1]))
             /\ For("details", p[1]) = p[2]
             /\ p[2] \in {"p_date", "p_time", "clientip", "username", "duration",
                          "fulluri", "webcat", "respcode", "reqmethod", "useragent",
                          "resconttype", "referer", "uriport", "serverip", "scbytes",
                          "csbytes"}
  BY <1>1, ProxyWritten, MissingCells
     DEF Proxy!ThreatDetailsType, Proxy!Uri, Proxy!Headers, Proxy!Same, ProxyMeaning,
         MissingWithout, General, For, Particular
<1>2. \A n \in {"p_date", "p_time", "clientip", "username", "duration", "fulluri",
              "webcat", "respcode", "reqmethod", "useragent", "resconttype", "referer",
              "uriport", "serverip", "scbytes", "csbytes"} : \A e :
        <<n, e>> \in Proxy!ExpandedList <=> e = n
  BY DEF Proxy!ExpandedList, Proxy!Same
<1>3. ASSUME NEW p \in Proxy!ThreatDetailsType, p[1] # "datetime"
      PROVE  Right("details", p, Selected(Proxy!ExpandedList, entry))
  BY <1>1, <1>2, <1>3, RightRaw DEF Kinds, entry
<1>4. /\ Holds(Selected(Proxy!ExpandedList, entry), "p_date", "p_date")
      /\ Holds(Selected(Proxy!ExpandedList, entry), "p_time", "p_time")
  BY <1>2, RawCell DEF entry
<1>5. TwoValues("details", Proxy!ThreatDetailsType, Selected(Proxy!ExpandedList, entry))
  <2>1. /\ <<"datetime", "p_date">> \in Proxy!ThreatDetailsType
        /\ <<"datetime", "p_time">> \in Proxy!ThreatDetailsType
        /\ \A p \in Proxy!ThreatDetailsType :
             p[1] = "datetime" => p[2] \in {"p_date", "p_time"}
    BY DEF Proxy!ThreatDetailsType, Proxy!Uri, Proxy!Headers, Proxy!Same
  <2>2. /\ \E p \in Proxy!ThreatDetailsType : p[1] = "datetime" /\ p[2] = "p_date"
        /\ \E p \in Proxy!ThreatDetailsType : p[1] = "datetime" /\ p[2] = "p_time"
    BY <2>1
  <2> QED BY <1>4, <2>1, <2>2, ProxyStarted
<1> QED BY <1>3, <1>5 DEF entry

\* Every field of a type reads what it should.
AllRight(query, type, entry) ==
  \A p \in type :
    \/ Right(query, p, entry)
    \/ kind = "proxy" /\ p[1] = "datetime" /\ TwoValues(query, type, entry)

\* No field of the timeline is for a value that may be missing, but for the label that
\* proxy never answers.
TimelineComplete(query, type) ==
  query = "timeline" =>
    \A p \in type : /\ kind = "proxy" => p[1] # "datetime"
                    /\ \/ For(query, p[1]) \notin Missing
                       \/ <<kind, query, p[1]>> \in NeverAnswered
                    /\ Meaning(query, p[1]) = {For(query, p[1])}

Serialize(query, of, field, v) ==
  IF kind = "flow" /\ of \in Heavy /\ v \in TooLarge THEN Null
  ELSE IF field \in Truncated(query) THEN Zero ELSE v

Shown(cells, field) == {c[2] : c \in {c \in cells : c[1] = field}}

\* An answer shows for a field what it is due.
Shows(query, of, cells, field) ==
  LET shown == Shown(cells, field)
      due   == Meaning(query, field)
      seen  == <<kind, query, field>>
  IN  \/ shown = due /\ due \cap (Missing \cup External) = {}
      \/ shown = {Blank} /\ due \subseteq Missing
      \/ shown = {Zero} /\ (due \subseteq External \/ seen \in AlwaysZero)
      \/ shown = {Null} /\ seen \in NeverAnswered
      \/ shown = {Null} /\ of \in Heavy /\ due \subseteq TooLarge

\* A field that shows the one value it is for; blank, 0 or null where that is due
LEMMA ShowsField ==
  ASSUME kind \in Kinds, NEW query, NEW of, NEW field, NEW v, NEW cells,
         Meaning(query, field) = {v},
         Shown(cells, field) = {Serialize(query, of, field, Written(query, field, v))},
         query # "timeline" \/ v \notin Missing \/ <<kind, query, field>> \in NeverAnswered
  PROVE  Shows(query, of, cells, field)
<1> DEFINE shown == Shown(cells, field)
           w == Written(query, field, v)
<1>1. shown = {Serialize(query, of, field, w)}
  OBVIOUS
<1> HIDE DEF shown, w
<1>2. CASE field \in Truncated(query)
  <2>1. kind = "proxy" /\ query = "suspicious" /\ field = "score"
    BY <1>2 DEF Truncated, Proxy!Truncated
  <2>2. shown = {Zero}
    BY <1>1, <1>2, <2>1 DEF Serialize
  <2> QED BY <2>1, <2>2 DEF Shows, shown, AlwaysZero
<1>3. CASE field \notin Truncated(query) /\ v \in Missing /\ query # "timeline"
  <2>1. w = Blank
    BY <1>3 DEF Written, w
  <2>2. shown = {Blank}
    BY <1>1, <1>3, <2>1 DEF Serialize, TooLarge, Blank
  <2> QED BY <1>3, <2>2 DEF Shows, shown
<1>4. CASE /\ field \notin Truncated(query) /\ ~(v \in Missing /\ query # "timeline")
           /\ v \in External
  <2>1. w = Zero
    BY <1>4 DEF Written, w
  <2>2. shown = {Zero}
    BY <1>1, <1>4, <2>1 DEF Serialize, TooLarge, Zero
  <2> QED BY <1>4, <2>2 DEF Shows, shown
<1>5. CASE /\ field \notin Truncated(query) /\ ~(v \in Missing /\ query # "timeline")
           /\ v \notin External /\ <<kind, query, field>> \in NeverAnswered
  <2>1. w = Null
    BY <1>5 DEF Written, w
  <2>2. shown = {Null}
    BY <1>1, <1>5, <2>1 DEF Serialize, TooLarge, Null
  <2> QED BY <1>5, <2>2 DEF Shows, shown
<1>6. CASE /\ field \notin Truncated(query) /\ v \notin Missing /\ v \notin External
           /\ <<kind, query, field>> \notin NeverAnswered
  <2>1. CASE kind = "dns" /\ <<kind, query, field>> \in AlwaysZero
    <3>1. w = Zero
      BY <1>6, <2>1 DEF Written, w
    <3>2. shown = {Zero}
      BY <1>1, <1>6, <2>1, <3>1 DEF Serialize
    <3> QED BY <2>1, <3>2 DEF Shows, shown
  <2>2. CASE ~(kind = "dns" /\ <<kind, query, field>> \in AlwaysZero)
    <3>1. w = v
      BY <1>6, <2>2 DEF Written, w
    <3>2. CASE kind = "flow" /\ of \in Heavy /\ v \in TooLarge
      <4>1. shown = {Null}
        BY <1>1, <3>1, <3>2 DEF Serialize
      <4> QED BY <3>2, <4>1 DEF Shows, shown
    <3>3. CASE ~(kind = "flow" /\ of \in Heavy /\ v \in TooLarge)
      <4>1. shown = {v}
        BY <1>1, <1>6, <3>1, <3>3 DEF Serialize
      <4> QED BY <1>6, <4>1 DEF Shows, shown
    <3> QED BY <3>2, <3>3
  <2> QED BY <2>1, <2>2
<1> QED BY <1>2, <1>3, <1>4, <1>5, <1>6

\* What is answered of a row that has every field right, shows every field right.
LEMMA AnsweredShows ==
  ASSUME kind \in Kinds,
         NEW query, NEW of, NEW fields, NEW type, NEW entry,
         AllRight(query, type, entry), TimelineComplete(query, type),
         NEW cells, cells = {c \in Serialized(query, of, Resolved(type, OrZero, entry)) : c[1] \in fields},
         NEW field \in Fields(cells)
  PROVE  Shows(query, of, cells, field)
<1> DEFINE shown == Shown(cells, field)
<1>1. field \in fields
  BY DEF Fields
<1>2. \A c : c \in Resolved(type, OrZero, entry) <=> \E p \in type : c = <<p[1], Read(entry, p)>>
  BY DEF Resolved, Read, Null
<1>3. \A c : c \in Serialized(query, of, Resolved(type, OrZero, entry))
             <=> \E p \in type : c = <<p[1], Serialize(query, of, p[1], Read(entry, p))>>
  <2>1. \A c : c \in Serialized(query, of, Resolved(type, OrZero, entry))
               <=> \E d \in Resolved(type, OrZero, entry) : c = <<d[1], Serialize(query, of, d[1], d[2])>>
    BY DEF Serialized, Serialize
  <2>2. ASSUME NEW c \in Serialized(query, of, Resolved(type, OrZero, entry))
        PROVE  \E p \in type : c = <<p[1], Serialize(query, of, p[1], Read(entry, p))>>
    <3>1. PICK d \in Resolved(type, OrZero, entry) : c = <<d[1], Serialize(query, of, d[1], d[2])>>
      BY <2>1
    <3>2. PICK p \in type : d = <<p[1], Read(entry, p)>>
      BY <1>2
    <3> QED BY <3>1, <3>2
  <2>3. ASSUME NEW p \in type
        PROVE  <<p[1], Serialize(query, of, p[1], Read(entry, p))>>
                 \in Serialized(query, of, Resolved(type, OrZero, entry))
    <3>1. <<p[1], Read(entry, p)>> \in Resolved(type, OrZero, entry)
      BY <1>2
    <3> QED BY <2>1, <3>1
  <2> QED BY <2>2, <2>3
<1>4. \A x : x \in shown
            <=> \E p \in type : p[1] = field /\ x = Serialize(query, of, p[1], Read(entry, p))
  <2>1. ASSUME NEW x \in shown
        PROVE  \E p \in type : p[1] = field /\ x = Serialize(query, of, p[1], Read(entry, p))
    <3>1. PICK c \in cells : c[1] = field /\ x = c[2]
      BY DEF Shown
    <3>2. PICK p \in type : c = <<p[1], Serialize(query, of, p[1], Read(entry, p))>>
      BY <1>3
    <3> QED BY <3>1, <3>2
  <2>2. ASSUME NEW p \in type, p[1] = field
        PROVE  Serialize(query, of, p[1], Read(entry, p)) \in shown
    <3>1. <<p[1], Serialize(query, of, p[1], Read(entry, p))>> \in cells
      BY <1>1, <1>3, <2>2
    <3> QED BY <2>2, <3>1 DEF Shown
  <2> QED BY <2>1, <2>2
<1>5. PICK q \in type : q[1] = field
  <2>1. PICK c \in cells : c[1] = field
    BY DEF Fields
  <2>2. PICK p \in type : c = <<p[1], Serialize(query, of, p[1], Read(entry, p))>>
    BY <1>3
  <2> QED BY <2>1, <2>2
<1> HIDE DEF shown
<1>6. CASE Right(query, q, entry)
  <2>1. PICK v : Meaning(query, field) = {v}
    BY <1>5, <1>6 DEF Right
  <2>5. ASSUME kind = "proxy", TwoValues(query, type, entry), field = "datetime"
        PROVE  FALSE
    BY <2>1, <2>5 DEF TwoValues
  <2>2. \A p \in type : p[1] = field => Read(entry, p) = Written(query, field, v)
    <3> SUFFICES ASSUME NEW p \in type, p[1] = field
                 PROVE  Read(entry, p) = Written(query, field, v)
      OBVIOUS
    <3>1. Right(query, p, entry)
      BY <2>5 DEF AllRight
    <3> QED BY <2>1, <3>1 DEF Right
  <2>3. shown = {Serialize(query, of, field, Written(query, field, v))}
    BY <1>4, <1>5, <2>2
  <2>4. query # "timeline" \/ v \notin Missing \/ <<kind, query, field>> \in NeverAnswered
    BY <1>5, <2>1 DEF TimelineComplete
  <2> QED BY <2>1, <2>3, <2>4, ShowsField DEF shown
<1>7. CASE kind = "proxy" /\ q[1] = "datetime" /\ TwoValues(query, type, entry)
  <2>1. Meaning(query, field) = {"p_date", "p_time"} /\ field = "datetime"
    BY <1>5, <1>7 DEF TwoValues
  <2>2. \A v : Serialize(query, of, "datetime", v) = v
    BY <1>7 DEF Serialize, Truncated, Proxy!Truncated
  <2>3. \A x : x \in {Read(entry, p) : p \in {p \in type : p[1] = "datetime"}}
                 <=> \E p \in type : p[1] = field /\ x = Read(entry, p)
    BY <2>1
  <2>4. shown = {"p_date", "p_time"}
    <3>1. \A x : x \in shown <=> \E p \in type : p[1] = field /\ x = Read(entry, p)
      BY <1>4, <2>1, <2>2
    <3> QED BY <1>7, <2>3, <3>1 DEF TwoValues
  <2>5. {"p_date", "p_time"} \cap (Missing \cup External) = {}
    BY MissingCells DEF MissingWithout
  <2> QED BY <2>1, <2>4, <2>5 DEF Shows, shown
<1> QED BY <1>5, <1>6, <1>7 DEF AllRight

-----------------------------------------------------------------------------
(* The rows of the tables *)

FlowTableRow(table, cells) ==
  /\ table = "raw" => cells = Flow!RawColumns
  /\ table = "scores" => FlowResultCells(cells) /\ FlowAddedCells(cells)
  /\ table = "edge" => cells = Flow!EdgeCells
  /\ table = "chords" => cells = Flow!ChordCells
  /\ table = "summary" => cells = << "minute", "count" >>
  /\ table = "threats" => FlowScoredCells(cells)
  /\ table = "timeline" => cells = << "threat", "first-treceived", "last-treceived", "sip",
                                      "dip", "proto", "sport", "dport", "ipkt", "ibyt" >>
  /\ table = "storyboard" => cells = << "threat", "title", "text" >>

DNSTableRow(table, cells) ==
  /\ table = "raw" => cells = DNS!RawColumns
  /\ table = "scores" => DNSScoresCells(cells)
  /\ table = "edge" => DNSEdgeCells(cells)
  /\ table = "dendro" => cells = DNS!DendroCells
  /\ table = "summary" => cells = << "minute", "count" >>
  /\ table = "threats" => cells = << "unix_tstamp", "ip_dst", "dns_qry_name",
                                     "client-severity", "query-severity" >>
  /\ table = "threat_dendro" => cells = << "threat", "count", "dns_qry_name", "ip_dst" >>
  /\ table = "storyboard" => \/ cells = << "threat", Blank, "title", "text" >>
                             \/ cells = << Blank, "threat", "title", "text" >>

ProxyTableRow(table, cells) ==
  /\ table = "raw" => cells = Proxy!RawColumns
  /\ table = "scores" => ProxyScoresCells(cells)
  /\ table = "edge" => cells = Proxy!EdgeCells(conf) /\ "iana" \in conf.files
  /\ table = "summary" => cells = << "minute", "count" >>
  /\ table = "threats" => cells = << "p_date", "fulluri", "severity" >>
  /\ table = "progression" => cells = << "threat", "fulluri", "clientip", "referer",
                                         "reqmethod", "resconttype" >>
  /\ table = "timeline" => cells = << "threat", "p_date-first-p_time", "p_date-last-p_time",
                                      "sum-duration", "clientip", "respcode",
                                      "respCodeName" >>
  /\ table = "storyboard" => cells = << "threat", "title", "text" >>

\* A row of a table has in every column the value that the column is for.
TableRow(table, cells) ==
  /\ kind = "flow" => FlowTableRow(table, cells)
  /\ kind = "dns" => DNSTableRow(table, cells)
  /\ kind = "proxy" => ProxyTableRow(table, cells)

TablesRight ==
  /\ "raw" \in DOMAIN tables
  /\ \A table \in DOMAIN tables : TableRow(table, tables[table])

\* The queries of flow data
LEMMA FlowQueries ==
  ASSUME kind = "flow"
  PROVE  /\ DOMAIN Queries[kind] =
              {"suspicious", "edgeDetails", "ipDetails", "ingestSummary", "list",
               "comments", "details", "timeline"}
         /\ Queries[kind]["suspicious"] =
              [table |-> "scores", list |-> Flow!SuspiciousList,
               type |-> Flow!SuspiciousType]
         /\ Queries[kind]["edgeDetails"] = [table |-> "edge", list |-> Flow!DetailsList,
              type |-> Flow!EdgeDetailsType]
         /\ Queries[kind]["ipDetails"] = [table |-> "chords", list |-> Flow!ChordList,
              type |-> Flow!IpConnectionDetailsType]
         /\ Queries[kind]["ingestSummary"] =
              [table |-> "summary", list |-> Flow!SummaryList,
               type |-> Flow!IngestSummaryType]
         /\ Queries[kind]["list"] = [table |-> "threats", list |-> Flow!ScoredList,
              type |-> Flow!ScoredConnectionType]
         /\ Queries[kind]["comments"] =
              [table |-> "storyboard", list |-> Flow!StoryboardList,
               type |-> Flow!CommentType]
         /\ Queries[kind]["details"] = [table |-> "raw", list |-> Flow!ExpandedList,
              type |-> Flow!ThreatDetailsType]
         /\ Queries[kind]["timeline"] = [table |-> "timeline", list |-> Flow!TimelineList,
              type |-> Flow!TimelineType]
BY DEF Queries, Over, Flow!QueryType, Flow!ThreatsInformationType,
       Flow!ThreatInformationType

\* No type of flow is left to the row.
LEMMA FlowTypes ==
  /\ Flow!SuspiciousType # {}
  /\ Flow!EdgeDetailsType # {}
  /\ Flow!IpConnectionDetailsType # {}
  /\ Flow!IngestSummaryType # {}
  /\ Flow!ScoredConnectionType # {}
  /\ Flow!CommentType # {}
  /\ Flow!ThreatDetailsType # {}
  /\ Flow!TimelineType # {}
<1>1. Flow!SuspiciousType # {}
  BY DEF Flow!SuspiciousType, Flow!Same
<1>2. Flow!EdgeDetailsType # {}
  BY DEF Flow!EdgeDetailsType, Flow!Same
<1>3. Flow!IpConnectionDetailsType # {}
  BY DEF Flow!IpConnectionDetailsType, Flow!Ends
<1>4. Flow!IngestSummaryType # {}
  BY DEF Flow!IngestSummaryType
<1>5. Flow!ScoredConnectionType # {}
  BY DEF Flow!ScoredConnectionType, Flow!Same
<1>6. Flow!CommentType # {}
  BY DEF Flow!CommentType, Flow!Same
<1>7. Flow!ThreatDetailsType # {}
  BY DEF Flow!ThreatDetailsType, Flow!Ends
<1>8. Flow!TimelineType # {}
  BY DEF Flow!TimelineType, Flow!Same
<1> QED BY <1>1, <1>2, <1>3, <1>4, <1>5, <1>6, <1>7, <1>8

\* The queries of dns data
LEMMA DNSQueries ==
  ASSUME kind = "dns"
  PROVE  /\ DOMAIN Queries[kind] =
              {"suspicious", "edgeDetails", "ipDetails", "ingestSummary", "list",
               "comments", "details", "queriesOfClient", "clientsOfQuery"}
         /\ Queries[kind]["suspicious"] =
              [table |-> "scores", list |-> DNS!SuspiciousList,
               type |-> DNS!SuspiciousType]
         /\ Queries[kind]["edgeDetails"] = [table |-> "edge", list |-> DNS!DetailsList,
              type |-> DNS!EdgeDetailsType]
         /\ Queries[kind]["ipDetails"] =
              [table |-> "dendro", list |-> DNS!ClientDetailsList,
               type |-> DNS!IpDetailsType]
         /\ Queries[kind]["ingestSummary"] =
              [table |-> "summary", list |-> DNS!SummaryList,
               type |-> DNS!IngestSummaryType]
         /\ Queries[kind]["list"] = [table |-> "threats", list |-> DNS!ScoredList,
              type |-> DNS!ScoredThreatType]
         /\ Queries[kind]["comments"] =
              [table |-> "storyboard", list |-> DNS!CommentsList,
               type |-> {}]
         /\ Queries[kind]["details"] = [table |-> "raw", list |-> DNS!ExpandedList,
              type |-> DNS!ThreatDetailsType]
         /\ Queries[kind]["queriesOfClient"] =
              [table |-> "threat_dendro", list |-> DNS!ProgressionList(TRUE),
               type |-> {}]
         /\ Queries[kind]["clientsOfQuery"] =
              [table |-> "threat_dendro", list |-> DNS!ProgressionList(FALSE),
               type |-> {}]
BY DEF Queries, Over, DNS!QueryType, DNS!ThreatsInformationType, DNS!ThreatInformationType

\* These types of dns are not left to the row.
LEMMA DNSTypes ==
  /\ DNS!SuspiciousType # {}
  /\ DNS!EdgeDetailsType # {}
  /\ DNS!IpDetailsType # {}
  /\ DNS!IngestSummaryType # {}
  /\ DNS!ScoredThreatType # {}
  /\ DNS!ThreatDetailsType # {}
<1>1. DNS!SuspiciousType # {}
  BY DEF DNS!SuspiciousType, DNS!Connection, DNS!QueryName
<1>2. DNS!EdgeDetailsType # {}
  BY DEF DNS!EdgeDetailsType, DNS!Connection, DNS!QueryName
<1>3. DNS!IpDetailsType # {}
  BY DEF DNS!IpDetailsType, DNS!QueryName
<1>4. DNS!IngestSummaryType # {}
  BY DEF DNS!IngestSummaryType
<1>5. DNS!ScoredThreatType # {}
  BY DEF DNS!ScoredThreatType, DNS!QueryName
<1>6. DNS!ThreatDetailsType # {}
  BY DEF DNS!ThreatDetailsType, DNS!QueryName
<1> QED BY <1>1, <1>2, <1>3, <1>4, <1>5, <1>6

\* The queries of proxy data
LEMMA ProxyQueries ==
  ASSUME kind = "proxy"
  PROVE  /\ DOMAIN Queries[kind] =
              {"suspicious", "edgeDetails", "ingestSummary", "list", "comments",
               "details", "timeline"}
         /\ Queries[kind]["suspicious"] =
              [table |-> "scores", list |-> Proxy!SuspiciousList,
               type |-> Proxy!SuspiciousType]
         /\ Queries[kind]["edgeDetails"] = [table |-> "edge", list |-> Proxy!DetailsList,
              type |-> Proxy!EdgeDetailsType]
         /\ Queries[kind]["ingestSummary"] =
              [table |-> "summary", list |-> Proxy!SummaryList,
               type |-> Proxy!IngestSummaryType]
         /\ Queries[kind]["list"] = [table |-> "threats", list |-> Proxy!ScoredList,
              type |-> Proxy!ScoredRequestType]
         /\ Queries[kind]["comments"] =
              [table |-> "storyboard", list |-> Proxy!StoryboardList,
               type |-> Proxy!CommentType]
         /\ Queries[kind]["details"] = [table |-> "raw", list |-> Proxy!ExpandedList,
              type |-> Proxy!ThreatDetailsType]
         /\ Queries[kind]["timeline"] =
              [table |-> "timeline", list |-> Proxy!TimelineList,
               type |-> Proxy!TimelineType]
BY DEF Queries, Over, Proxy!QueryType, Proxy!ThreatsInformationType,
                  Proxy!ThreatInformationType

\* No type of proxy is left to the row.
LEMMA ProxyTypes ==
  /\ Proxy!SuspiciousType # {}
  /\ Proxy!EdgeDetailsType # {}
  /\ Proxy!IngestSummaryType # {}
  /\ Proxy!ScoredRequestType # {}
  /\ Proxy!CommentType # {}
  /\ Proxy!ThreatDetailsType # {}
  /\ Proxy!TimelineType # {}
<1>1. Proxy!SuspiciousType # {}
  BY DEF Proxy!SuspiciousType, Proxy!Uri
<1>2. Proxy!EdgeDetailsType # {}
  BY DEF Proxy!EdgeDetailsType, Proxy!Uri
<1>3. Proxy!IngestSummaryType # {}
  BY DEF Proxy!IngestSummaryType
<1>4. Proxy!ScoredRequestType # {}
  BY DEF Proxy!ScoredRequestType, Proxy!Uri
<1>5. Proxy!CommentType # {}
  BY DEF Proxy!CommentType, Proxy!Same
<1>6. Proxy!ThreatDetailsType # {}
  BY DEF Proxy!ThreatDetailsType, Proxy!Uri
<1>7. Proxy!TimelineType # {}
  BY DEF Proxy!TimelineType
<1> QED BY <1>1, <1>2, <1>3, <1>4, <1>5, <1>6, <1>7

\* The row that a query selects
AnsweredRow(query) ==
  Selected(Queries[kind][query].list,
           Inserted(ColumnsOf[kind][Queries[kind][query].table],
                    tables[Queries[kind][query].table]))

\* The timeline of flow
LEMMA FlowTimelineComplete ==
  ASSUME kind = "flow"
  PROVE  TimelineComplete("timeline", Flow!TimelineType)
<1>1. ASSUME NEW p \in Flow!TimelineType
      PROVE  /\ p[1] \in DOMAIN Particular("timeline") \cup DOMAIN General[kind]
             /\ For("timeline", p[1]) \notin MissingWithout
  BY DEF Flow!TimelineType, Flow!Same, Flow!Ends, Flow!Ports, FlowMeaning,
         MissingWithout, General, For, Particular
<1> QED BY <1>1, MeaningOf, MissingCells DEF TimelineComplete, For, Kinds

\* The timeline of proxy
LEMMA ProxyTimelineComplete ==
  ASSUME kind = "proxy"
  PROVE  TimelineComplete("timeline", Proxy!TimelineType)
<1>1. ASSUME NEW p \in Proxy!TimelineType
      PROVE  /\ p[1] \in DOMAIN Particular("timeline") \cup DOMAIN General[kind]
             /\ p[1] # "datetime"
             /\ \/ For("timeline", p[1]) \notin MissingWithout
                \/ p[1] = "responseCodeLabel"
  BY DEF Proxy!TimelineType, ProxyMeaning, MissingWithout, General, For, Particular
<1> QED BY <1>1, MeaningOf, MissingCells DEF TimelineComplete, For, Kinds, NeverAnswered

\* Whatever flow query is asked, every field reads what it should.
LEMMA FlowAnswered ==
  ASSUME kind = "flow", TablesRight, NEW query \in DOMAIN Queries[kind],
         Queries[kind][query].table \in DOMAIN tables
  PROVE  LET entry  == AnsweredRow(query)
             type == TypeOf(query, entry)
         IN  AllRight(query, type, entry) /\ TimelineComplete(query, type)
<1>1. CASE query = "suspicious"
  <2> DEFINE entry == Selected(Flow!SuspiciousList,
                          Inserted(Flow!ScoresColumns, tables["scores"]))
  <2>1. AnsweredRow(query) = entry
    BY <1>1, FlowQueries DEF AnsweredRow, ColumnsOf, Flow!Tables
  <2>2. FlowTableRow("scores", tables["scores"])
    BY <1>1, FlowQueries DEF TablesRight, TableRow
  <2>3. TypeOf(query, entry) = Flow!SuspiciousType
    BY <1>1, FlowQueries, FlowTypes DEF TypeOf
  <2>4. AllRight(query, Flow!SuspiciousType, entry)
    BY <1>1, <2>2, FlowSuspicious DEF AllRight, FlowTableRow
  <2> HIDE DEF entry
  <2> QED BY <1>1, <2>1, <2>3, <2>4 DEF TimelineComplete
<1>2. CASE query = "edgeDetails"
  <2> DEFINE entry == Selected(Flow!DetailsList, Inserted(Flow!EdgeColumns, tables["edge"]))
  <2>1. AnsweredRow(query) = entry
    BY <1>2, FlowQueries DEF AnsweredRow, ColumnsOf, Flow!Tables
  <2>2. FlowTableRow("edge", tables["edge"])
    BY <1>2, FlowQueries DEF TablesRight, TableRow
  <2>3. TypeOf(query, entry) = Flow!EdgeDetailsType
    BY <1>2, FlowQueries, FlowTypes DEF TypeOf
  <2>4. AllRight(query, Flow!EdgeDetailsType, entry)
    BY <1>2, <2>2, FlowEdge DEF AllRight, FlowTableRow
  <2> HIDE DEF entry
  <2> QED BY <1>2, <2>1, <2>3, <2>4 DEF TimelineComplete
<1>3. CASE query = "ipDetails"
  <2> DEFINE entry == Selected(Flow!ChordList,
                          Inserted(Flow!ChordsColumns, tables["chords"]))
  <2>1. AnsweredRow(query) = entry
    BY <1>3, FlowQueries DEF AnsweredRow, ColumnsOf, Flow!Tables
  <2>2. FlowTableRow("chords", tables["chords"])
    BY <1>3, FlowQueries DEF TablesRight, TableRow
  <2>3. TypeOf(query, entry) = Flow!IpConnectionDetailsType
    BY <1>3, FlowQueries, FlowTypes DEF TypeOf
  <2>4. AllRight(query, Flow!IpConnectionDetailsType, entry)
    BY <1>3, <2>2, FlowIpDetails DEF AllRight, FlowTableRow
  <2> HIDE DEF entry
  <2> QED BY <1>3, <2>1, <2>3, <2>4 DEF TimelineComplete
<1>4. CASE query = "ingestSummary"
  <2> DEFINE entry == Selected(Flow!SummaryList,
                          Inserted(Flow!SummaryColumns, tables["summary"]))
  <2>1. AnsweredRow(query) = entry
    BY <1>4, FlowQueries DEF AnsweredRow, ColumnsOf, Flow!Tables
  <2>2. FlowTableRow("summary", tables["summary"])
    BY <1>4, FlowQueries DEF TablesRight, TableRow
  <2>3. TypeOf(query, entry) = Flow!IngestSummaryType
    BY <1>4, FlowQueries, FlowTypes DEF TypeOf
  <2>4. AllRight(query, Flow!IngestSummaryType, entry)
    BY <1>4, <2>2, FlowSummary DEF AllRight, FlowTableRow, Flow!SummaryCells
  <2> HIDE DEF entry
  <2> QED BY <1>4, <2>1, <2>3, <2>4 DEF TimelineComplete
<1>5. CASE query = "list"
  <2> DEFINE entry == Selected(Flow!ScoredList,
                          Inserted(Flow!ThreatColumns, tables["threats"]))
  <2>1. AnsweredRow(query) = entry
    BY <1>5, FlowQueries DEF AnsweredRow, ColumnsOf, Flow!Tables
  <2>2. FlowTableRow("threats", tables["threats"])
    BY <1>5, FlowQueries DEF TablesRight, TableRow
  <2>3. TypeOf(query, entry) = Flow!ScoredConnectionType
    BY <1>5, FlowQueries, FlowTypes DEF TypeOf
  <2>4. AllRight(query, Flow!ScoredConnectionType, entry)
    BY <1>5, <2>2, FlowList DEF AllRight, FlowTableRow
  <2> HIDE DEF entry
  <2> QED BY <1>5, <2>1, <2>3, <2>4 DEF TimelineComplete
<1>6. CASE query = "comments"
  <2> DEFINE entry == Selected(Flow!StoryboardList,
                          Inserted(Flow!StoryboardColumns, tables["storyboard"]))
  <2>1. AnsweredRow(query) = entry
    BY <1>6, FlowQueries DEF AnsweredRow, ColumnsOf, Flow!Tables
  <2>2. FlowTableRow("storyboard", tables["storyboard"])
    BY <1>6, FlowQueries DEF TablesRight, TableRow
  <2>3. TypeOf(query, entry) = Flow!CommentType
    BY <1>6, FlowQueries, FlowTypes DEF TypeOf
  <2>4. AllRight(query, Flow!CommentType, entry)
    BY <1>6, <2>2, FlowComments DEF AllRight, FlowTableRow
  <2> HIDE DEF entry
  <2> QED BY <1>6, <2>1, <2>3, <2>4 DEF TimelineComplete
<1>7. CASE query = "details"
  <2> DEFINE entry == Selected(Flow!ExpandedList, Inserted(Flow!RawColumns, tables["raw"]))
  <2>1. AnsweredRow(query) = entry
    BY <1>7, FlowQueries DEF AnsweredRow, ColumnsOf, Flow!Tables
  <2>2. FlowTableRow("raw", tables["raw"])
    BY <1>7, FlowQueries DEF TablesRight, TableRow
  <2>3. TypeOf(query, entry) = Flow!ThreatDetailsType
    BY <1>7, FlowQueries, FlowTypes DEF TypeOf
  <2>4. AllRight(query, Flow!ThreatDetailsType, entry)
    BY <1>7, <2>2, FlowDetails DEF AllRight, FlowTableRow
  <2> HIDE DEF entry
  <2> QED BY <1>7, <2>1, <2>3, <2>4 DEF TimelineComplete
<1>8. CASE query = "timeline"
  <2> DEFINE entry == Selected(Flow!TimelineList,
                          Inserted(Flow!TimelineColumns, tables["timeline"]))
  <2>1. AnsweredRow(query) = entry
    BY <1>8, FlowQueries DEF AnsweredRow, ColumnsOf, Flow!Tables
  <2>2. FlowTableRow("timeline", tables["timeline"])
    BY <1>8, FlowQueries DEF TablesRight, TableRow
  <2>3. TypeOf(query, entry) = Flow!TimelineType
    BY <1>8, FlowQueries, FlowTypes DEF TypeOf
  <2>4. AllRight(query, Flow!TimelineType, entry)
    BY <1>8, <2>2, FlowTimeline DEF AllRight, FlowTableRow
  <2> HIDE DEF entry
  <2> QED BY <1>8, <2>1, <2>3, <2>4, FlowTimelineComplete DEF TimelineComplete
<1> QED BY <1>1, <1>2, <1>3, <1>4, <1>5, <1>6, <1>7, <1>8, FlowQueries

\* Whatever dns query is asked, of whatever type its rows are, every field reads what it
\* should.
LEMMA DNSAnswered ==
  ASSUME kind = "dns", TablesRight, NEW query \in DOMAIN Queries[kind],
         Queries[kind][query].table \in DOMAIN tables
  PROVE  LET entry  == AnsweredRow(query)
             type == TypeOf(query, entry)
         IN  AllRight(query, type, entry) /\ TimelineComplete(query, type)
<1>1. CASE query = "suspicious"
  <2> DEFINE entry == Selected(DNS!SuspiciousList,
                          Inserted(DNS!ScoresColumns, tables["scores"]))
  <2>1. AnsweredRow(query) = entry
    BY <1>1, DNSQueries DEF AnsweredRow, ColumnsOf, DNS!Tables
  <2>2. DNSTableRow("scores", tables["scores"])
    BY <1>1, DNSQueries DEF TablesRight, TableRow
  <2>3. TypeOf(query, entry) = DNS!SuspiciousType
    BY <1>1, DNSQueries, DNSTypes DEF TypeOf
  <2>4. AllRight(query, DNS!SuspiciousType, entry)
    BY <1>1, <2>2, DNSSuspicious DEF AllRight, DNSTableRow
  <2> HIDE DEF entry
  <2> QED BY <1>1, <2>1, <2>3, <2>4 DEF TimelineComplete
<1>2. CASE query = "edgeDetails"
  <2> DEFINE entry == Selected(DNS!DetailsList, Inserted(DNS!EdgeColumns, tables["edge"]))
  <2>1. AnsweredRow(query) = entry
    BY <1>2, DNSQueries DEF AnsweredRow, ColumnsOf, DNS!Tables
  <2>2. DNSTableRow("edge", tables["edge"])
    BY <1>2, DNSQueries DEF TablesRight, TableRow
  <2>3. TypeOf(query, entry) = DNS!EdgeDetailsType
    BY <1>2, DNSQueries, DNSTypes DEF TypeOf
  <2>4. AllRight(query, DNS!EdgeDetailsType, entry)
    BY <1>2, <2>2, DNSEdge DEF AllRight, DNSTableRow
  <2> HIDE DEF entry
  <2> QED BY <1>2, <2>1, <2>3, <2>4 DEF TimelineComplete
<1>3. CASE query = "ipDetails"
  <2> DEFINE entry == Selected(DNS!ClientDetailsList,
                          Inserted(DNS!DendroColumns, tables["dendro"]))
  <2>1. AnsweredRow(query) = entry
    BY <1>3, DNSQueries DEF AnsweredRow, ColumnsOf, DNS!Tables
  <2>2. DNSTableRow("dendro", tables["dendro"])
    BY <1>3, DNSQueries DEF TablesRight, TableRow
  <2>3. TypeOf(query, entry) = DNS!IpDetailsType
    BY <1>3, DNSQueries, DNSTypes DEF TypeOf
  <2>4. AllRight(query, DNS!IpDetailsType, entry)
    BY <1>3, <2>2, DNSIpDetails DEF AllRight, DNSTableRow
  <2> HIDE DEF entry
  <2> QED BY <1>3, <2>1, <2>3, <2>4 DEF TimelineComplete
<1>4. CASE query = "ingestSummary"
  <2> DEFINE entry == Selected(DNS!SummaryList,
                          Inserted(DNS!SummaryColumns, tables["summary"]))
  <2>1. AnsweredRow(query) = entry
    BY <1>4, DNSQueries DEF AnsweredRow, ColumnsOf, DNS!Tables
  <2>2. DNSTableRow("summary", tables["summary"])
    BY <1>4, DNSQueries DEF TablesRight, TableRow
  <2>3. TypeOf(query, entry) = DNS!IngestSummaryType
    BY <1>4, DNSQueries, DNSTypes DEF TypeOf
  <2>4. AllRight(query, DNS!IngestSummaryType, entry)
    BY <1>4, <2>2, DNSSummary DEF AllRight, DNSTableRow, DNS!SummaryCells
  <2> HIDE DEF entry
  <2> QED BY <1>4, <2>1, <2>3, <2>4 DEF TimelineComplete
<1>5. CASE query = "list"
  <2> DEFINE entry == Selected(DNS!ScoredList,
                          Inserted(DNS!ThreatColumns, tables["threats"]))
  <2>1. AnsweredRow(query) = entry
    BY <1>5, DNSQueries DEF AnsweredRow, ColumnsOf, DNS!Tables
  <2>2. DNSTableRow("threats", tables["threats"])
    BY <1>5, DNSQueries DEF TablesRight, TableRow
  <2>3. TypeOf(query, entry) = DNS!ScoredThreatType
    BY <1>5, DNSQueries, DNSTypes DEF TypeOf
  <2>4. AllRight(query, DNS!ScoredThreatType, entry)
    BY <1>5, <2>2, DNSList DEF AllRight, DNSTableRow
  <2> HIDE DEF entry
  <2> QED BY <1>5, <2>1, <2>3, <2>4 DEF TimelineComplete
<1>6. CASE query = "comments"
  <2> DEFINE entry == Selected(DNS!CommentsList,
                          Inserted(DNS!StoryboardColumns, tables["storyboard"]))
  <2>1. AnsweredRow(query) = entry
    BY <1>6, DNSQueries DEF AnsweredRow, ColumnsOf, DNS!Tables
  <2>2. DNSTableRow("storyboard", tables["storyboard"])
    BY <1>6, DNSQueries DEF TablesRight, TableRow
  <2>3. CASE tables["storyboard"] = << "threat", Blank, "title", "text" >>
    <3>1. Holds(entry, "dns_threat", Blank)
      <4>1. Holds(Inserted(DNS!StoryboardColumns, tables["storyboard"]), "dns_threat", Blank)
        BY <2>3, InsertedCell, DNSDistinct DEF DNS!StoryboardColumns
      <4> QED BY <4>1, SelectedSame, DNSSame DEF DNS!CommentsList
    <3>2. TypeOf(query, entry) = DNS!ClientIpCommentType
      <4> HIDE DEF entry
      <4> QED BY <1>6, <3>1, DNSQueries
              DEF TypeOf, DNS!Interface, DNS!CommentInterface, Holds, DNS!Blank, Blank
    <3>3. AllRight(query, DNS!ClientIpCommentType, entry)
      BY <1>6, <2>3, DNSClientComments DEF AllRight
    <3> HIDE DEF entry
    <3> QED BY <1>6, <2>1, <3>2, <3>3 DEF TimelineComplete
  <2>4. CASE tables["storyboard"] = << Blank, "threat", "title", "text" >>
    <3>1. Holds(entry, "dns_threat", "threat")
      <4>1. Holds(Inserted(DNS!StoryboardColumns, tables["storyboard"]),
                  "dns_threat", "threat")
        BY <2>4, InsertedCell, DNSDistinct DEF DNS!StoryboardColumns
      <4> QED BY <4>1, SelectedSame, DNSSame DEF DNS!CommentsList
    <3>2. TypeOf(query, entry) = DNS!QueryCommentType
      <4> HIDE DEF entry
      <4> QED BY <1>6, <3>1, DNSQueries
              DEF TypeOf, DNS!Interface, DNS!CommentInterface, Holds, DNS!Blank, Blank
    <3>3. AllRight(query, DNS!QueryCommentType, entry)
      BY <1>6, <2>4, DNSQueryComments DEF AllRight
    <3> HIDE DEF entry
    <3> QED BY <1>6, <2>1, <3>2, <3>3 DEF TimelineComplete
  <2> QED BY <2>2, <2>3, <2>4 DEF DNSTableRow
<1>7. CASE query = "details"
  <2> DEFINE entry == Selected(DNS!ExpandedList, Inserted(DNS!RawColumns, tables["raw"]))
  <2>1. AnsweredRow(query) = entry
    BY <1>7, DNSQueries DEF AnsweredRow, ColumnsOf, DNS!Tables
  <2>2. DNSTableRow("raw", tables["raw"])
    BY <1>7, DNSQueries DEF TablesRight, TableRow
  <2>3. TypeOf(query, entry) = DNS!ThreatDetailsType
    BY <1>7, DNSQueries, DNSTypes DEF TypeOf
  <2>4. AllRight(query, DNS!ThreatDetailsType, entry)
    BY <1>7, <2>2, DNSDetails DEF AllRight, DNSTableRow
  <2> HIDE DEF entry
  <2> QED BY <1>7, <2>1, <2>3, <2>4 DEF TimelineComplete
<1>8. CASE query = "queriesOfClient"
  <2> DEFINE entry == Selected(DNS!ProgressionList(TRUE),
                          Inserted(DNS!ThreatDendroColumns, tables["threat_dendro"]))
  <2>1. AnsweredRow(query) = entry
    BY <1>8, DNSQueries DEF AnsweredRow, ColumnsOf, DNS!Tables, DNS!ProgressionList
  <2>2. DNSTableRow("threat_dendro", tables["threat_dendro"])
    BY <1>8, DNSQueries DEF TablesRight, TableRow
  <2>3. DOMAIN entry = {"anchor", "total", "dns_qry_name"}
    BY SelectedSame, DNSSame DEF DNS!ProgressionList
  <2>4. TypeOf(query, entry) = DNS!IncidentProgressionQueryType
    <3> HIDE DEF entry
    <3> QED BY <1>8, <2>3, DNSQueries
            DEF TypeOf, DNS!Interface, DNS!IncidentProgressionInterface
  <2>5. AllRight(query, DNS!IncidentProgressionQueryType, entry)
    BY <1>8, <2>2, DNSQueriesOfClient DEF AllRight, DNSTableRow
  <2> HIDE DEF entry
  <2> QED BY <1>8, <2>1, <2>4, <2>5 DEF TimelineComplete
<1>9. CASE query = "clientsOfQuery"
  <2> DEFINE entry == Selected(DNS!ProgressionList(FALSE),
                          Inserted(DNS!ThreatDendroColumns, tables["threat_dendro"]))
  <2>1. AnsweredRow(query) = entry
    BY <1>9, DNSQueries DEF AnsweredRow, ColumnsOf, DNS!Tables, DNS!ProgressionList
  <2>2. DNSTableRow("threat_dendro", tables["threat_dendro"])
    BY <1>9, DNSQueries DEF TablesRight, TableRow
  <2>3. DOMAIN entry = {"anchor", "total", "ip_dst"}
    BY SelectedSame, DNSSame DEF DNS!ProgressionList
  <2>4. TypeOf(query, entry) = DNS!IncidentProgressionClientIpType
    <3> HIDE DEF entry
    <3> QED BY <1>9, <2>3, DNSQueries
            DEF TypeOf, DNS!Interface, DNS!IncidentProgressionInterface
  <2>5. AllRight(query, DNS!IncidentProgressionClientIpType, entry)
    BY <1>9, <2>2, DNSClientsOfQuery DEF AllRight, DNSTableRow
  <2> HIDE DEF entry
  <2> QED BY <1>9, <2>1, <2>4, <2>5 DEF TimelineComplete
<1> QED BY <1>1, <1>2, <1>3, <1>4, <1>5, <1>6, <1>7, <1>8, <1>9, DNSQueries

\* Whatever proxy query is asked, every field reads what it should.
LEMMA ProxyAnswered ==
  ASSUME kind = "proxy", TablesRight, NEW query \in DOMAIN Queries[kind],
         Queries[kind][query].table \in DOMAIN tables
  PROVE  LET entry  == AnsweredRow(query)
             type == TypeOf(query, entry)
         IN  AllRight(query, type, entry) /\ TimelineComplete(query, type)
<1>1. CASE query = "suspicious"
  <2> DEFINE entry == Selected(Proxy!SuspiciousList,
                          Inserted(Proxy!ScoresColumns, tables["scores"]))
  <2>1. AnsweredRow(query) = entry
    BY <1>1, ProxyQueries DEF AnsweredRow, ColumnsOf, Proxy!Tables
  <2>2. ProxyTableRow("scores", tables["scores"])
    BY <1>1, ProxyQueries DEF TablesRight, TableRow
  <2>3. TypeOf(query, entry) = Proxy!SuspiciousType
    BY <1>1, ProxyQueries, ProxyTypes DEF TypeOf
  <2>4. AllRight(query, Proxy!SuspiciousType, entry)
    BY <1>1, <2>2, ProxySuspicious DEF AllRight, ProxyTableRow
  <2> HIDE DEF entry
  <2> QED BY <1>1, <2>1, <2>3, <2>4 DEF TimelineComplete
<1>2. CASE query = "edgeDetails"
  <2> DEFINE entry == Selected(Proxy!DetailsList,
                          Inserted(Proxy!EdgeColumns, tables["edge"]))
  <2>1. AnsweredRow(query) = entry
    BY <1>2, ProxyQueries DEF AnsweredRow, ColumnsOf, Proxy!Tables
  <2>2. ProxyTableRow("edge", tables["edge"])
    BY <1>2, ProxyQueries DEF TablesRight, TableRow
  <2>3. TypeOf(query, entry) = Proxy!EdgeDetailsType
    BY <1>2, ProxyQueries, ProxyTypes DEF TypeOf
  <2>4. AllRight(query, Proxy!EdgeDetailsType, entry)
    BY <1>2, <2>2, ProxyEdge DEF AllRight, ProxyTableRow
  <2> HIDE DEF entry
  <2> QED BY <1>2, <2>1, <2>3, <2>4 DEF TimelineComplete
<1>3. CASE query = "ingestSummary"
  <2> DEFINE entry == Selected(Proxy!SummaryList,
                          Inserted(Proxy!SummaryColumns, tables["summary"]))
  <2>1. AnsweredRow(query) = entry
    BY <1>3, ProxyQueries DEF AnsweredRow, ColumnsOf, Proxy!Tables
  <2>2. ProxyTableRow("summary", tables["summary"])
    BY <1>3, ProxyQueries DEF TablesRight, TableRow
  <2>3. TypeOf(query, entry) = Proxy!IngestSummaryType
    BY <1>3, ProxyQueries, ProxyTypes DEF TypeOf
  <2>4. AllRight(query, Proxy!IngestSummaryType, entry)
    BY <1>3, <2>2, ProxySummary DEF AllRight, ProxyTableRow, Proxy!SummaryCells
  <2> HIDE DEF entry
  <2> QED BY <1>3, <2>1, <2>3, <2>4 DEF TimelineComplete
<1>4. CASE query = "list"
  <2> DEFINE entry == Selected(Proxy!ScoredList,
                          Inserted(Proxy!ThreatColumns, tables["threats"]))
  <2>1. AnsweredRow(query) = entry
    BY <1>4, ProxyQueries DEF AnsweredRow, ColumnsOf, Proxy!Tables
  <2>2. ProxyTableRow("threats", tables["threats"])
    BY <1>4, ProxyQueries DEF TablesRight, TableRow
  <2>3. TypeOf(query, entry) = Proxy!ScoredRequestType
    BY <1>4, ProxyQueries, ProxyTypes DEF TypeOf
  <2>4. AllRight(query, Proxy!ScoredRequestType, entry)
    BY <1>4, <2>2, ProxyList DEF AllRight, ProxyTableRow
  <2> HIDE DEF entry
  <2> QED BY <1>4, <2>1, <2>3, <2>4 DEF TimelineComplete
<1>5. CASE query = "comments"
  <2> DEFINE entry == Selected(Proxy!StoryboardList,
                          Inserted(Proxy!StoryboardColumns, tables["storyboard"]))
  <2>1. AnsweredRow(query) = entry
    BY <1>5, ProxyQueries DEF AnsweredRow, ColumnsOf, Proxy!Tables
  <2>2. ProxyTableRow("storyboard", tables["storyboard"])
    BY <1>5, ProxyQueries DEF TablesRight, TableRow
  <2>3. TypeOf(query, entry) = Proxy!CommentType
    BY <1>5, ProxyQueries, ProxyTypes DEF TypeOf
  <2>4. AllRight(query, Proxy!CommentType, entry)
    BY <1>5, <2>2, ProxyComments DEF AllRight, ProxyTableRow
  <2> HIDE DEF entry
  <2> QED BY <1>5, <2>1, <2>3, <2>4 DEF TimelineComplete
<1>6. CASE query = "details"
  <2> DEFINE entry == Selected(Proxy!ExpandedList,
                          Inserted(Proxy!RawColumns, tables["raw"]))
  <2>1. AnsweredRow(query) = entry
    BY <1>6, ProxyQueries DEF AnsweredRow, ColumnsOf, Proxy!Tables
  <2>2. ProxyTableRow("raw", tables["raw"])
    BY <1>6, ProxyQueries DEF TablesRight, TableRow
  <2>3. TypeOf(query, entry) = Proxy!ThreatDetailsType
    BY <1>6, ProxyQueries, ProxyTypes DEF TypeOf
  <2>4. AllRight(query, Proxy!ThreatDetailsType, entry)
    BY <1>6, <2>2, ProxyDetails DEF AllRight, ProxyTableRow
  <2> HIDE DEF entry
  <2> QED BY <1>6, <2>1, <2>3, <2>4 DEF TimelineComplete
<1>7. CASE query = "timeline"
  <2> DEFINE entry == Selected(Proxy!TimelineList,
                          Inserted(Proxy!TimelineColumns, tables["timeline"]))
  <2>1. AnsweredRow(query) = entry
    BY <1>7, ProxyQueries DEF AnsweredRow, ColumnsOf, Proxy!Tables
  <2>2. ProxyTableRow("timeline", tables["timeline"])
    BY <1>7, ProxyQueries DEF TablesRight, TableRow
  <2>3. TypeOf(query, entry) = Proxy!TimelineType
    BY <1>7, ProxyQueries, ProxyTypes DEF TypeOf
  <2>4. AllRight(query, Proxy!TimelineType, entry)
    BY <1>7, <2>2, ProxyTimeline DEF AllRight, ProxyTableRow
  <2> HIDE DEF entry
  <2> QED BY <1>7, <2>1, <2>3, <2>4, ProxyTimelineComplete DEF TimelineComplete
<1> QED BY <1>1, <1>2, <1>3, <1>4, <1>5, <1>6, <1>7, ProxyQueries

\* The same of the three kinds of data
LEMMA QueryAnswered ==
  ASSUME kind \in Kinds, TablesRight, NEW query \in DOMAIN Queries[kind],
         Queries[kind][query].table \in DOMAIN tables
  PROVE  LET entry  == AnsweredRow(query)
             type == TypeOf(query, entry)
         IN  AllRight(query, type, entry) /\ TimelineComplete(query, type)
BY FlowAnswered, DNSAnswered, ProxyAnswered DEF Kinds

\* Of a row that is answered every field shows what it is due, whichever are asked for.
LEMMA RowShows ==
  ASSUME kind \in Kinds, TablesRight, NEW query \in DOMAIN Queries[kind],
         Queries[kind][query].table \in DOMAIN tables,
         NEW of, NEW fields, NEW cells,
         cells = {c \in RowAnswered(query, of) : c[1] \in fields},
         NEW field \in Fields(cells)
  PROVE  Shows(query, of, cells, field)
<1> DEFINE entry  == AnsweredRow(query)
           type == TypeOf(query, entry)
<1>1. AllRight(query, type, entry) /\ TimelineComplete(query, type)
  BY QueryAnswered
<1>2. RowAnswered(query, of) \in {{}, Serialized(query, of, Resolved(type, OrZero, entry))}
  BY DEF RowAnswered, AnsweredRow
<1>3. RowAnswered(query, of) # {}
  BY DEF Fields
<1> HIDE DEF entry, type
<1> QED BY <1>1, <1>2, <1>3, AnsweredShows

\* The details that the notebook holds are the values of the raw data.
LEMMA DetailsHeld ==
  ASSUME kind \in {"dns", "proxy"}, TablesRight, NEW of, NEW f \in Searched[kind],
         NEW v, v \notin MissingWithout, f # "datetime",
         f \in DOMAIN General[kind], General[kind][f] = v,
         f \in Fields(Queries[kind]["details"].type)
  PROVE  DetailsOf(of)[f] = v
<1> DEFINE entry  == AnsweredRow("details")
           type == Queries[kind]["details"].type
           cells == RowAnswered("details", of)
<1>1. /\ "details" \in DOMAIN Queries[kind] /\ Queries[kind]["details"].table = "raw"
      /\ TypeOf("details", entry) = type
  BY DNSQueries, ProxyQueries, DNSTypes, ProxyTypes DEF TypeOf
<1>2. AllRight("details", type, entry)
  BY <1>1, QueryAnswered DEF TablesRight, Kinds
<1>3. cells = Serialized("details", of, Resolved(type, OrZero, entry))
  BY <1>1 DEF RowAnswered, AnsweredRow
<1>4. \A c : c \in Serialized("details", of, Resolved(type, OrZero, entry))
             <=> \E d \in Resolved(type, OrZero, entry) : c = <<d[1], d[2]>>
  BY DEF Serialized, Truncated
<1>5. \A d : d \in Resolved(type, OrZero, entry) <=> \E p \in type : d = <<p[1], Read(entry, p)>>
  BY DEF Resolved, Read, Null
<1> HIDE DEF entry, type, cells
<1>6. Meaning("details", f) = {v}
  <2>1. f \notin DOMAIN Particular("details")
    BY DEF Particular, General, DNSMeaning, ProxyMeaning
  <2> QED BY <2>1, MeaningOf DEF Kinds
<1>7. Written("details", f, v) = v
  BY MissingCells DEF Written, NeverAnswered, AlwaysZero
<1>8. \A p \in type : p[1] = f => Read(entry, p) = v
  BY <1>2, <1>6, <1>7 DEF AllRight, Right
<1>9. \A c \in cells : c[1] = f => c = <<f, v>>
  <2> SUFFICES ASSUME NEW c \in cells, c[1] = f
               PROVE  c = <<f, v>>
    OBVIOUS
  <2>1. PICK d \in Resolved(type, OrZero, entry) : c = <<d[1], d[2]>>
    BY <1>3, <1>4
  <2>2. PICK p \in type : d = <<p[1], Read(entry, p)>>
    BY <1>5
  <2> QED BY <1>8, <2>1, <2>2
<1>10. <<f, v>> \in cells
  <2>1. PICK p \in type : p[1] = f
    BY DEF type, Fields
  <2>2. <<f, v>> \in Resolved(type, OrZero, entry)
    BY <1>5, <1>8, <2>1
  <2>3. <<f, v>> = << <<f, v>>[1], <<f, v>>[2] >>
    OBVIOUS
  <2> QED BY <1>3, <1>4, <2>2, <2>3
<1>11. (CHOOSE c \in cells : c[1] = f) = <<f, v>>
  <2>1. <<f, v>>[1] = f
    OBVIOUS
  <2> QED BY <1>9, <1>10, <2>1
<1> QED BY <1>11 DEF DetailsOf, cells

\* What a story inserts is right, whatever threat the notebook took the details of.
LEMMA StoryRowsRight ==
  ASSUME kind \in Kinds, TablesRight, NEW of, NEW byClient
  PROVE  LET rows == CASE kind = "flow"  -> Flow!StoryRows(DetailsOf(of), byClient)
                       [] kind = "dns"   -> DNS!StoryRows(DetailsOf(of), byClient)
                       [] kind = "proxy" -> Proxy!StoryRows(DetailsOf(of), byClient)
         IN  \A table \in DOMAIN rows : TableRow(table, rows[table])
<1>1. CASE kind = "flow"
  BY <1>1 DEF Flow!StoryRows, TableRow, FlowTableRow
<1>2. CASE kind = "dns"
  <2> DEFINE r == DetailsOf(of)
  <2>0. /\ "total" \in Fields(DNS!ThreatDetailsType)
        /\ "dnsQuery" \in Fields(DNS!ThreatDetailsType)
        /\ "clientIp" \in Fields(DNS!ThreatDetailsType)
    <3>1. /\ <<"total", "total">> \in DNS!ThreatDetailsType
          /\ <<"dnsQuery", "dns_qry_name">> \in DNS!ThreatDetailsType
          /\ <<"clientIp", "ip_dst">> \in DNS!ThreatDetailsType
      BY DEF DNS!ThreatDetailsType, DNS!QueryName, DNS!Client
    <3>2. /\ <<"total", "total">>[1] = "total"
          /\ <<"dnsQuery", "dns_qry_name">>[1] = "dnsQuery"
          /\ <<"clientIp", "ip_dst">>[1] = "clientIp"
      OBVIOUS
    <3> QED BY <3>1, <3>2 DEF Fields
  <2>1. /\ "total" \in Searched[kind] /\ "dnsQuery" \in Searched[kind]
        /\ "clientIp" \in Searched[kind]
    BY <1>2 DEF Searched, DNS!SearchFields
  <2>2. /\ General[kind]["total"] = "count" /\ General[kind]["dnsQuery"] = "dns_qry_name"
        /\ General[kind]["clientIp"] = "ip_dst"
        /\ {"total", "dnsQuery", "clientIp"} \subseteq DOMAIN General[kind]
    BY <1>2 DEF General, DNSMeaning
  <2>3. Queries[kind]["details"].type = DNS!ThreatDetailsType
    BY <1>2, DNSQueries
  <2>4. r["total"] = "count"
    <3>1. "count" \notin MissingWithout
      BY DEF MissingWithout
    <3> QED BY <1>2, <2>0, <2>1, <2>2, <2>3, <3>1, DetailsHeld
  <2>5. r["dnsQuery"] = "dns_qry_name"
    <3>1. "dns_qry_name" \notin MissingWithout
      BY DEF MissingWithout
    <3> QED BY <1>2, <2>0, <2>1, <2>2, <2>3, <3>1, DetailsHeld
  <2>6. r["clientIp"] = "ip_dst"
    <3>1. "ip_dst" \notin MissingWithout
      BY DEF MissingWithout
    <3> QED BY <1>2, <2>0, <2>1, <2>2, <2>3, <3>1, DetailsHeld
  <2> HIDE DEF r
  <2>7. \A table \in DOMAIN DNS!StoryRows(r, byClient) :
          TableRow(table, DNS!StoryRows(r, byClient)[table])
    BY <1>2, <2>4, <2>5, <2>6 DEF DNS!StoryRows, TableRow, DNSTableRow, DNS!Blank, Blank
  <2> QED BY <1>2, <2>7 DEF r
<1>3. CASE kind = "proxy"
  <2> DEFINE r == DetailsOf(of)
             read == {"uri", "clientIp", "referer", "requestMethod", "responseContentType"}
  <2>0. ASSUME NEW f \in read
        PROVE  f \in Fields(Proxy!ThreatDetailsType)
    <3>1. /\ <<"uri", "fulluri">> \in Proxy!ThreatDetailsType
          /\ <<"clientIp", "clientip">> \in Proxy!ThreatDetailsType
          /\ <<"referer", "referer">> \in Proxy!ThreatDetailsType
          /\ <<"requestMethod", "reqmethod">> \in Proxy!ThreatDetailsType
          /\ <<"responseContentType", "resconttype">> \in Proxy!ThreatDetailsType
      BY DEF Proxy!ThreatDetailsType, Proxy!Uri, Proxy!Headers
    <3>2. \E v : <<f, v>> \in Proxy!ThreatDetailsType
      BY <3>1
    <3>3. \A v : <<f, v>>[1] = f
      OBVIOUS
    <3> QED BY <3>2, <3>3 DEF Fields
  <2>1. ASSUME NEW f \in read
        PROVE  /\ f \in Searched[kind] /\ f # "datetime" /\ f \in DOMAIN General[kind]
               /\ General[kind][f] \notin MissingWithout
    BY <1>3 DEF Searched, Proxy!SearchFields, General, ProxyMeaning, MissingWithout
  <2>2. Queries[kind]["details"].type = Proxy!ThreatDetailsType
    BY <1>3, ProxyQueries
  <2>3. \A f \in read : r[f] = General[kind][f]
    BY <1>3, <2>0, <2>1, <2>2, DetailsHeld
  <2>4. /\ r["uri"] = "fulluri" /\ r["clientIp"] = "clientip" /\ r["referer"] = "referer"
        /\ r["requestMethod"] = "reqmethod" /\ r["responseContentType"] = "resconttype"
    BY <1>3, <2>3 DEF General, ProxyMeaning
  <2> HIDE DEF r
  <2>5. \A table \in DOMAIN Proxy!StoryRows(r, byClient) :
          TableRow(table, Proxy!StoryRows(r, byClient)[table])
    BY <1>3, <2>4 DEF Proxy!StoryRows, TableRow, ProxyTableRow
  <2> QED BY <1>3, <2>5 DEF r
<1> QED BY <1>1, <1>2, <1>3 DEF Kinds

\* A row of one value
LEMMA One ==
  ASSUME NEW s, NEW v, s = << v >>
  PROVE  IsRow(s, 1) /\ s[1] = v
<1>1. s \in Seq({v}) /\ Len(s) = 1
  OBVIOUS
<1> QED BY <1>1 DEF IsRow

\* A row of the dns job, with every step made
LEMMA DNSRow ==
  ASSUME kind = "dns", NEW cells,
         cells = Join(Join(Join(Join(Join(DNS!ResultsFields, DNS!AddTld),
                                     DNS!AddReputation(conf)), DNS!AddHh),
                           DNS!AddIana(conf)), DNS!AddNetworkContext(conf))
  PROVE  DNSScoresCells(cells)
<1> DEFINE results == DNS!ResultsFields
           rep     == DNS!AddReputation(conf)
           iana    == DNS!AddIana(conf)
           context == DNS!AddNetworkContext(conf)
           row1    == Join(results, DNS!AddTld)
           row2    == Join(row1, rep)
           row3    == Join(row2, DNS!AddHh)
           row4    == Join(row3, iana)
<1>1. /\ results[1] = "frame_time" /\ results[2] = "unix_tstamp" /\ results[3] = "frame_len"
      /\ results[4] = "ip_dst" /\ results[5] = "dns_qry_name" /\ results[6] = "dns_qry_class"
      /\ results[7] = "dns_qry_type" /\ results[8] = "dns_qry_rcode" /\ results[9] = "score"
  BY DEF DNS!ResultsFields
<1>2. IsRow(results, 9)
  <2>1. results \in Seq({results[i] : i \in 1 .. 9}) /\ Len(results) = 9
    BY DEF DNS!ResultsFields
  <2> QED BY <2>1 DEF IsRow
<1>3. IsRow(DNS!AddTld, 1) /\ DNS!AddTld[1] = "tld" /\ IsRow(DNS!AddHh, 1)
  BY Small DEF DNS!AddTld, DNS!AddHh
<1>4. /\ IsRow(rep, 1)
      /\ rep[1] = (IF conf.reputation \in {"none", "silent"} THEN Blank ELSE Null)
  <2> DEFINE value == IF conf.reputation \in {"none", "silent"} THEN Blank ELSE Null
  <2>1. rep = << value >>
    BY DEF DNS!AddReputation, DNS!Blank, Blank, DNS!Null, Null
  <2> HIDE DEF value
  <2>2. IsRow(rep, 1) /\ rep[1] = value
    BY <2>1, One
  <2> QED BY <2>2 DEF value
<1>5. /\ IsRow(iana, 3)
      /\ iana[1] = (IF "iana" \in conf.files THEN "class-name" ELSE Blank)
      /\ iana[2] = (IF "iana" \in conf.files THEN "type-name" ELSE Blank)
      /\ iana[3] = (IF "iana" \in conf.files THEN "rcode-name" ELSE Blank)
  <2>1. CASE "iana" \in conf.files
    BY <2>1, Small DEF DNS!AddIana, DNS!IanaNames
  <2>2. CASE "iana" \notin conf.files
    BY <2>2, Small DEF DNS!AddIana, DNS!Blank, Blank
  <2> QED BY <2>1, <2>2
<1>6. /\ IsRow(context, 1)
      /\ context[1] = (IF "nc" \in conf.files THEN "network-context" ELSE Blank)
  <2> DEFINE value == IF "nc" \in conf.files THEN "network-context" ELSE Blank
  <2>1. context = << value >>
    BY DEF DNS!AddNetworkContext, DNS!Blank, Blank
  <2> HIDE DEF value
  <2>2. IsRow(context, 1) /\ context[1] = value
    BY <2>1, One
  <2> QED BY <2>2 DEF value
<1>7. cells = Join(row4, context)
  OBVIOUS
<1> HIDE DEF results, rep, iana, context, row1, row2, row3, row4
<1>8. /\ IsRow(row1, 9 + 1) /\ \A i \in 1 .. 9 : row1[i] = results[i]
      /\ \A i \in 10 .. 10 : row1[i] = DNS!AddTld[i - 9]
  BY <1>2, <1>3, Joined DEF row1
<1>9. /\ IsRow(row2, 10 + 1) /\ \A i \in 1 .. 10 : row2[i] = row1[i]
      /\ \A i \in 11 .. 11 : row2[i] = rep[i - 10]
  BY <1>4, <1>8, Joined DEF row2
<1>10. IsRow(row3, 11 + 1) /\ \A i \in 1 .. 11 : row3[i] = row2[i]
  BY <1>3, <1>9, Joined DEF row3
<1>11. /\ IsRow(row4, 12 + 3) /\ \A i \in 1 .. 12 : row4[i] = row3[i]
       /\ \A i \in 13 .. 15 : row4[i] = iana[i - 12]
  BY <1>5, <1>10, Joined DEF row4
<1>12. /\ \A i \in 1 .. 15 : cells[i] = row4[i]
       /\ \A i \in 16 .. 16 : cells[i] = context[i - 15]
  BY <1>6, <1>7, <1>11, Joined
<1>13. \A i \in 1 .. 9 : cells[i] = results[i]
  <2>1. \A i \in 1 .. 9 : i \in 1 .. 10 /\ i \in 1 .. 11 /\ i \in 1 .. 12 /\ i \in 1 .. 15
    OBVIOUS
  <2> QED BY <2>1, <1>8, <1>9, <1>10, <1>11, <1>12
<1>14. cells[10] = DNS!AddTld[1] /\ cells[11] = rep[1]
  <2>1. cells[10] = row3[10] /\ cells[11] = row3[11]
    BY <1>11, <1>12
  <2>2. row3[10] = row1[10] /\ row3[11] = row2[11]
    BY <1>9, <1>10
  <2>3. row1[10] = DNS!AddTld[1] /\ row2[11] = rep[1]
    BY <1>8, <1>9
  <2> QED BY <2>1, <2>2, <2>3
<1>15. cells[13] = iana[1] /\ cells[14] = iana[2] /\ cells[15] = iana[3]
       /\ cells[16] = context[1]
  <2>1. cells[13] = row4[13] /\ cells[14] = row4[14] /\ cells[15] = row4[15]
        /\ cells[16] = context[1]
    BY <1>12
  <2> QED BY <2>1, <1>11
<1>16. /\ cells[1] = "frame_time" /\ cells[2] = "unix_tstamp" /\ cells[3] = "frame_len"
       /\ cells[4] = "ip_dst" /\ cells[5] = "dns_qry_name" /\ cells[6] = "dns_qry_class"
       /\ cells[7] = "dns_qry_type" /\ cells[8] = "dns_qry_rcode" /\ cells[9] = "score"
  BY <1>1, <1>13
<1>17. /\ cells[10] = "tld"
       /\ cells[11] = (IF conf.reputation \in {"none", "silent"} THEN Blank ELSE Null)
       /\ cells[16] = (IF "nc" \in conf.files THEN "network-context" ELSE Blank)
  BY <1>3, <1>4, <1>6, <1>14, <1>15
<1>18. /\ cells[13] = (IF "iana" \in conf.files THEN "class-name" ELSE Blank)
       /\ cells[14] = (IF "iana" \in conf.files THEN "type-name" ELSE Blank)
       /\ cells[15] = (IF "iana" \in conf.files THEN "rcode-name" ELSE Blank)
  BY <1>5, <1>15
<1> QED BY <1>16, <1>17, <1>18 DEF DNSScoresCells

\* The details of dns are inserted only with the iana file.
LEMMA DNSEdgeRow ==
  ASSUME DNS!EdgeCells(conf) # Raises
  PROVE  DNSEdgeCells(DNS!EdgeCells(conf))
<1> DEFINE taken   == << "unix_tstamp", "frame_len", "ip_dst", "ip_src", "dns_qry_name",
                         "dns_qry_class", "dns_qry_type", "dns_qry_rcode", "dns_a", "h" >>
           context == DNS!AddNetworkContext(conf)
           cells   == DNS!EdgeCells(conf)
<1>1. "iana" \in conf.files
  BY DEF DNS!EdgeCells, DNS!Raises, Raises
<1>2. cells = Join(Join(taken, DNS!IanaNames), context)
  BY <1>1 DEF DNS!EdgeCells, Join
<1>3. IsRow(taken, 10)
  <2>1. taken \in Seq({taken[i] : i \in 1 .. 10}) /\ Len(taken) = 10
    OBVIOUS
  <2> QED BY <2>1 DEF IsRow
<1>4. /\ taken[1] = "unix_tstamp" /\ taken[2] = "frame_len" /\ taken[3] = "ip_dst"
      /\ taken[4] = "ip_src" /\ taken[5] = "dns_qry_name" /\ taken[6] = "dns_qry_class"
      /\ taken[7] = "dns_qry_type" /\ taken[8] = "dns_qry_rcode" /\ taken[9] = "dns_a"
  OBVIOUS
<1>5. /\ IsRow(DNS!IanaNames, 3) /\ DNS!IanaNames[1] = "class-name"
      /\ DNS!IanaNames[2] = "type-name" /\ DNS!IanaNames[3] = "rcode-name"
  BY Small DEF DNS!IanaNames
<1>6. IsRow(context, 1)
  BY Small DEF DNS!AddNetworkContext
<1> HIDE DEF taken, context, cells
<1>7. /\ IsRow(Join(taken, DNS!IanaNames), 10 + 3)
      /\ \A i \in 1 .. 10 : Join(taken, DNS!IanaNames)[i] = taken[i]
      /\ \A i \in 11 .. 13 : Join(taken, DNS!IanaNames)[i] = DNS!IanaNames[i - 10]
  BY <1>3, <1>5, Joined
<1>8. \A i \in 1 .. 13 : cells[i] = Join(taken, DNS!IanaNames)[i]
  BY <1>2, <1>6, <1>7, Joined
<1>9. /\ \A i \in 1 .. 10 : cells[i] = taken[i]
      /\ \A i \in 11 .. 13 : cells[i] = DNS!IanaNames[i - 10]
  <2>1. /\ \A i \in 1 .. 10 : i \in 1 .. 13
        /\ \A i \in 11 .. 13 : i \in 1 .. 13
    OBVIOUS
  <2> QED BY <2>1, <1>7, <1>8
<1>10. cells[11] = "class-name" /\ cells[12] = "type-name" /\ cells[13] = "rcode-name"
  BY <1>5, <1>9
<1> QED BY <1>1, <1>4, <1>9, <1>10 DEF DNSEdgeCells, cells

\* The score mutation of dns inserts three of the columns that it selects.
LEMMA DNSThreats ==
  ASSUME NEW cells, DNSScoresCells(cells)
  PROVE  DNS!ScoredCells(Inserted(DNS!ScoresColumns, cells))
           = << "unix_tstamp", "ip_dst", "dns_qry_name", "client-severity", "query-severity" >>
<1> DEFINE entry == Inserted(DNS!ScoresColumns, cells)
<1>1. /\ entry["unix_tstamp"] = "unix_tstamp" /\ entry["ip_dst"] = "ip_dst"
      /\ entry["dns_qry_name"] = "dns_qry_name"
  BY InsertedCell, DNSDistinct DEF DNS!ScoresColumns, DNSScoresCells, Holds
<1> HIDE DEF entry
<1>2. DNS!ScoredCells(entry)
        = << "unix_tstamp", "ip_dst", "dns_qry_name", "client-severity", "query-severity" >>
  BY <1>1 DEF DNS!ScoredCells, DNS!ScoreSelect
<1> QED BY <1>2 DEF entry

\* A row of the proxy job, with every step made
LEMMA ProxyRow ==
  ASSUME kind = "proxy", NEW cells,
         cells = Join(Join(Join(Proxy!ResultsFields, Proxy!AddReputation(conf)),
                           Proxy!AddIana(conf)), Proxy!AddNetworkContext(conf)),
         Proxy!AddReputation(conf) # Raises
  PROVE  ProxyScoresCells(cells)
<1> DEFINE results == Proxy!ResultsFields
           rep     == Proxy!AddReputation(conf)
           iana    == Proxy!AddIana(conf)
           context == Proxy!AddNetworkContext(conf)
           row1    == Join(results, rep)
           row2    == Join(row1, iana)
<1>1. IsRow(results, 21)
  <2>1. results \in Seq({results[i] : i \in 1 .. 21}) /\ Len(results) = 21
    BY DEF Proxy!ResultsFields
  <2> QED BY <2>1 DEF IsRow
<1>2. ProxyResultCells(results)
  BY DEF Proxy!ResultsFields, ProxyResultCells
<1>3. IsRow(rep, 1)
      /\ rep[1] = (IF conf.reputation \in {"none", "silent"} THEN Blank ELSE "uri-rep")
  <2> DEFINE value == IF conf.reputation \in {"none", "silent"} THEN Blank ELSE "uri-rep"
  <2>1. rep = << value >>
    <3>1. CASE conf.reputation \in {"none", "silent"}
      BY <3>1 DEF Proxy!AddReputation, Proxy!Blank, Blank, Proxy!Raises, Raises
    <3>2. CASE conf.reputation = "complete"
      BY <3>2 DEF Proxy!AddReputation, Proxy!Blank, Blank, Proxy!Raises, Raises
    <3>3. CASE conf.reputation \notin {"none", "silent", "complete"}
      BY <3>3 DEF Proxy!AddReputation, Proxy!Blank, Blank, Proxy!Raises, Raises
    <3> QED BY <3>1, <3>2, <3>3
  <2> HIDE DEF value
  <2>2. IsRow(rep, 1) /\ rep[1] = value
    BY <2>1, One
  <2> QED BY <2>2 DEF value
<1>4. IsRow(iana, 1) /\ iana[1] = (IF "iana" \in conf.files THEN "respcode-name" ELSE Blank)
  <2> DEFINE value == IF "iana" \in conf.files THEN "respcode-name" ELSE Blank
  <2>1. iana = << value >>
    BY DEF Proxy!AddIana, Proxy!Blank, Blank
  <2> HIDE DEF value
  <2>2. IsRow(iana, 1) /\ iana[1] = value
    BY <2>1, One
  <2> QED BY <2>2 DEF value
<1>5. /\ IsRow(context, 1)
      /\ context[1] = (IF "nc" \in conf.files THEN "network-context" ELSE Blank)
  <2> DEFINE value == IF "nc" \in conf.files THEN "network-context" ELSE Blank
  <2>1. context = << value >>
    BY DEF Proxy!AddNetworkContext, Proxy!Blank, Blank
  <2> HIDE DEF value
  <2>2. IsRow(context, 1) /\ context[1] = value
    BY <2>1, One
  <2> QED BY <2>2 DEF value
<1>6. cells = Join(row2, context)
  OBVIOUS
<1> HIDE DEF results, rep, iana, context, row1, row2
<1>7. /\ IsRow(row1, 21 + 1) /\ \A i \in 1 .. 21 : row1[i] = results[i]
      /\ \A i \in 22 .. 22 : row1[i] = rep[i - 21]
  BY <1>1, <1>3, Joined DEF row1
<1>8. /\ IsRow(row2, 22 + 1) /\ \A i \in 1 .. 22 : row2[i] = row1[i]
      /\ \A i \in 23 .. 23 : row2[i] = iana[i - 22]
  BY <1>4, <1>7, Joined DEF row2
<1>9. /\ \A i \in 1 .. 23 : cells[i] = row2[i]
      /\ \A i \in 24 .. 24 : cells[i] = context[i - 23]
  BY <1>5, <1>6, <1>8, Joined
<1>10. \A i \in 1 .. 21 : cells[i] = results[i]
  <2>1. \A i \in 1 .. 21 : i \in 1 .. 22 /\ i \in 1 .. 23
    OBVIOUS
  <2> QED BY <2>1, <1>7, <1>8, <1>9
<1>11. cells[22] = rep[1] /\ cells[23] = iana[1] /\ cells[24] = context[1]
  <2>1. cells[22] = row2[22] /\ cells[23] = row2[23] /\ cells[24] = context[1]
    BY <1>9
  <2>2. row2[22] = row1[22] /\ row2[23] = iana[1]
    BY <1>8
  <2>3. row1[22] = rep[1]
    BY <1>7
  <2> QED BY <2>1, <2>2, <2>3
<1>12. ProxyResultCells(cells)
  BY <1>2, <1>10 DEF ProxyResultCells
<1>13. /\ cells[22] = (IF conf.reputation \in {"none", "silent"} THEN Blank ELSE "uri-rep")
       /\ cells[23] = (IF "iana" \in conf.files THEN "respcode-name" ELSE Blank)
       /\ cells[24] = (IF "nc" \in conf.files THEN "network-context" ELSE Blank)
  BY <1>3, <1>4, <1>5, <1>11
<1> QED BY <1>12, <1>13 DEF ProxyScoresCells

\* The score mutation of proxy inserts two of the columns that it selects.
LEMMA ProxyThreats ==
  ASSUME NEW cells, ProxyScoresCells(cells)
  PROVE  Proxy!ScoredCells(Inserted(Proxy!ScoresColumns, cells))
           = << "p_date", "fulluri", "severity" >>
<1> DEFINE entry == Inserted(Proxy!ScoresColumns, cells)
<1>1. entry["tdate"] = "p_date" /\ entry["fulluri"] = "fulluri"
  BY InsertedCell, ProxyDistinct DEF Proxy!ScoresColumns, ProxyScoresCells,
                                      ProxyResultCells, Holds
<1> HIDE DEF entry
<1>2. Proxy!ScoredCells(entry) = << "p_date", "fulluri", "severity" >>
  BY <1>1 DEF Proxy!ScoredCells, Proxy!ScoreSelect
<1> QED BY <1>2 DEF entry

-----------------------------------------------------------------------------
(* The steps of the job and of the API *)

\* The row in memory, after so many steps
Row1 == Join(Results[kind], Added[1])
Row2 == Join(Row1, Added[2])
Row3 == Join(Row2, Added[3])
Row4 == Join(Row3, Added[4])
Row5 == Join(Row4, Added[5])

RowWith(steps) ==
  CASE steps = 0 -> Results[kind]
    [] steps = 1 -> Row1
    [] steps = 2 -> Row2
    [] steps = 3 -> Row3
    [] steps = 4 -> Row4
    [] steps = 5 -> Row5

JobRight ==
  /\ job = "results" => added = 0
  /\ job = "columns" => /\ added \in 0 .. Len(Added)
                        /\ row = RowWith(added)
                        /\ \A i \in 1 .. added : Added[i] # Raises

ColumnsInv == kind \in Kinds /\ JobRight /\ TablesRight /\ FieldsShowTheirColumn

\* The number of steps of a job
LEMMA Steps ==
  ASSUME kind \in Kinds
  PROVE  Len(Added) = IF kind = "dns" THEN 5 ELSE 3
<1>1. CASE kind = "flow"
  BY <1>1 DEF Added, Flow!Added
<1>2. CASE kind = "dns"
  BY <1>2 DEF Added, DNS!Added
<1>3. CASE kind = "proxy"
  BY <1>3 DEF Added, Proxy!Added
<1> QED BY <1>1, <1>2, <1>3 DEF Kinds

\* The row that a job inserts into the scores, with every step made
LEMMA ScoresRow ==
  ASSUME kind \in Kinds, JobRight, job = "columns", added = Len(Added)
  PROVE  TableRow("scores", row)
<1>1. CASE kind = "flow"
  <2>1. Added = << Flow!AddNetworkContext(conf), Flow!AddGeoLocalization(conf),
                   Flow!AddReputation(conf) >>
    BY <1>1 DEF Added, Flow!Added
  <2>2. /\ Added[1] = Flow!AddNetworkContext(conf) /\ Added[2] = Flow!AddGeoLocalization(conf)
        /\ Added[3] = Flow!AddReputation(conf)
    BY <2>1
  <2>3. added = 3
    BY <1>1, Steps
  <2>4. row = Row3
    BY <2>3 DEF JobRight, RowWith
  <2>5. Flow!AddReputation(conf) # Raises
    BY <2>2, <2>3 DEF JobRight
  <2>6. row = FlowScores
    BY <1>1, <2>2, <2>4 DEF Row3, Row2, Row1, FlowScores, Results
  <2>7. FlowResultCells(row) /\ FlowAddedCells(row)
    BY <1>1, <2>5, <2>6, FlowRow
  <2> QED BY <1>1, <2>7 DEF TableRow, FlowTableRow
<1>2. CASE kind = "dns"
  <2>1. Added = << DNS!AddTld, DNS!AddReputation(conf), DNS!AddHh, DNS!AddIana(conf),
                   DNS!AddNetworkContext(conf) >>
    BY <1>2 DEF Added, DNS!Added
  <2>2. /\ Added[1] = DNS!AddTld /\ Added[2] = DNS!AddReputation(conf)
        /\ Added[3] = DNS!AddHh /\ Added[4] = DNS!AddIana(conf)
        /\ Added[5] = DNS!AddNetworkContext(conf)
    BY <2>1
  <2>3. added = 5
    BY <1>2, Steps
  <2>4. row = Row5
    BY <2>3 DEF JobRight, RowWith
  <2>5. row = Join(Join(Join(Join(Join(DNS!ResultsFields, DNS!AddTld),
                                  DNS!AddReputation(conf)), DNS!AddHh),
                        DNS!AddIana(conf)), DNS!AddNetworkContext(conf))
    BY <1>2, <2>2, <2>4 DEF Row5, Row4, Row3, Row2, Row1, Results
  <2>6. DNSScoresCells(row)
    BY <1>2, <2>5, DNSRow
  <2> QED BY <1>2, <2>6 DEF TableRow, DNSTableRow
<1>3. CASE kind = "proxy"
  <2>1. Added = << Proxy!AddReputation(conf), Proxy!AddIana(conf),
                   Proxy!AddNetworkContext(conf) >>
    BY <1>3 DEF Added, Proxy!Added
  <2>2. /\ Added[1] = Proxy!AddReputation(conf) /\ Added[2] = Proxy!AddIana(conf)
        /\ Added[3] = Proxy!AddNetworkContext(conf)
    BY <2>1
  <2>3. added = 3
    BY <1>3, Steps
  <2>4. row = Row3
    BY <2>3 DEF JobRight, RowWith
  <2>5. Proxy!AddReputation(conf) # Raises
    BY <2>2, <2>3 DEF JobRight
  <2>6. row = Join(Join(Join(Proxy!ResultsFields, Proxy!AddReputation(conf)),
                        Proxy!AddIana(conf)), Proxy!AddNetworkContext(conf))
    BY <1>3, <2>2, <2>4 DEF Row3, Row2, Row1, Results
  <2>7. ProxyScoresCells(row)
    BY <1>3, <2>5, <2>6, ProxyRow
  <2> QED BY <1>3, <2>7 DEF TableRow, ProxyTableRow
<1> QED BY <1>1, <1>2, <1>3 DEF Kinds

\* What the child processes insert, where they do not raise
LEMMA DetailsRow ==
  ASSUME kind \in Kinds, NEW table \in DOMAIN Details, Details[table] # Raises
  PROVE  TableRow(table, Details[table])
<1>1. CASE kind = "flow"
  BY <1>1 DEF Details, Flow!Details, TableRow, FlowTableRow
<1>2. CASE kind = "dns"
  <2>1. DNS!EdgeCells(conf) # Raises => DNSEdgeCells(DNS!EdgeCells(conf))
    BY DNSEdgeRow
  <2> QED BY <1>2, <2>1 DEF Details, DNS!Details, TableRow, DNSTableRow
<1>3. CASE kind = "proxy"
  <2>1. Proxy!EdgeCells(conf) # Raises => "iana" \in conf.files
    BY DEF Proxy!EdgeCells, Proxy!Raises, Raises
  <2> QED BY <1>3, <2>1 DEF Details, Proxy!Details, TableRow, ProxyTableRow
<1> QED BY <1>1, <1>2, <1>3 DEF Kinds

\* What the score mutation inserts, of what it selects
LEMMA ScoredRow ==
  ASSUME kind \in Kinds, TablesRight, "scores" \in DOMAIN tables
  PROVE  TableRow("threats", Scored(Inserted(ColumnsOf[kind].scores, tables.scores)))
<1>1. TableRow("scores", tables.scores)
  BY DEF TablesRight
<1>2. CASE kind = "flow"
  <2>1. FlowScoredCells(Flow!ScoredCells(Inserted(Flow!ScoresColumns, tables.scores)))
    BY <1>1, <1>2, FlowThreats DEF TableRow, FlowTableRow
  <2> QED BY <1>2, <2>1 DEF Scored, ColumnsOf, Flow!Tables, TableRow, FlowTableRow
<1>3. CASE kind = "dns"
  <2>1. DNS!ScoredCells(Inserted(DNS!ScoresColumns, tables.scores))
          = << "unix_tstamp", "ip_dst", "dns_qry_name", "client-severity", "query-severity" >>
    BY <1>1, <1>3, DNSThreats DEF TableRow, DNSTableRow
  <2> QED BY <1>3, <2>1 DEF Scored, ColumnsOf, DNS!Tables, TableRow, DNSTableRow
<1>4. CASE kind = "proxy"
  <2>1. Proxy!ScoredCells(Inserted(Proxy!ScoresColumns, tables.scores))
          = << "p_date", "fulluri", "severity" >>
    BY <1>1, <1>4, ProxyThreats DEF TableRow, ProxyTableRow
  <2> QED BY <1>4, <2>1 DEF Scored, ColumnsOf, Proxy!Tables, TableRow, ProxyTableRow
<1> QED BY <1>2, <1>3, <1>4 DEF Kinds

\* Rows written over a table that are right leave every table right.
LEMMA TablesWritten ==
  ASSUME TablesRight, UNCHANGED <<kind, conf>>,
         NEW rows, tables' = Over(rows, tables),
         \A table \in DOMAIN rows : TableRow(table, rows[table])
  PROVE  TablesRight'
<1>1. "raw" \in DOMAIN tables'
  BY DEF TablesRight, Over
<1>2. ASSUME NEW table \in DOMAIN tables'
      PROVE  TableRow(table, tables'[table])
  BY DEF TablesRight, Over
<1>3. \A table, cells : TableRow(table, cells)' <=> TableRow(table, cells)
  BY DEF TableRow, FlowTableRow, DNSTableRow, ProxyTableRow, FlowAddedCells, DNSScoresCells,
         DNSEdgeCells, ProxyScoresCells
<1> QED BY <1>1, <1>2, <1>3 DEF TablesRight

\* The same of one table
LEMMA TableInserted ==
  ASSUME TablesRight, UNCHANGED <<kind, conf>>,
         NEW table, NEW cells, InsertRow(table, cells), TableRow(table, cells)
  PROVE  TablesRight'
<1> DEFINE rows == [t \in {table} |-> cells]
<1>1. tables' = Over(rows, tables)
  BY DEF InsertRow
<1>2. \A t \in DOMAIN rows : TableRow(t, rows[t])
  OBVIOUS
<1> HIDE DEF rows
<1> QED BY <1>1, <1>2, TablesWritten

\* The tables stay right while nothing is written.
LEMMA TablesKept ==
  ASSUME TablesRight, UNCHANGED <<kind, conf, tables>>
  PROVE  TablesRight'
BY DEF TablesRight, TableRow, FlowTableRow, DNSTableRow, ProxyTableRow, FlowAddedCells,
       DNSScoresCells, DNSEdgeCells, ProxyScoresCells

\* The row in memory stays right while the job does nothing.
LEMMA JobKept ==
  ASSUME JobRight, UNCHANGED <<kind, conf, jobVars>>
  PROVE  JobRight'
<1>1. Added' = Added /\ Results[kind]' = Results[kind]
  BY DEF Added
<1>2. \A steps : RowWith(steps)' = RowWith(steps)
  BY <1>1 DEF RowWith, Row1, Row2, Row3, Row4, Row5
<1> QED BY <1>1, <1>2 DEF JobRight, jobVars

\* What a field is due depends on the kind of data and on what is installed only.
LEMMA ShowsKept ==
  ASSUME UNCHANGED <<kind, conf>>
  PROVE  \A query, of, cells, field :
           Shows(query, of, cells, field)' <=> Shows(query, of, cells, field)
<1>1. \A query, field : Meaning(query, field)' = Meaning(query, field)
  <2>1. \A query : Particular(query)' = Particular(query)
    BY DEF Particular
  <2> QED BY <2>1 DEF Meaning
<1>2. Missing' = Missing /\ External' = External
  BY DEF Missing, External
<1> QED BY <1>1, <1>2 DEF Shows

\* An answer with every field right
LEMMA ShownIsRight ==
  ASSUME NEW a, answer' = a,
         \A field \in Fields(a.cells) : Shows(a.query, a.of, a.cells, field)'
  PROVE  FieldsShowTheirColumn'
BY DEF FieldsShowTheirColumn, Shows, Shown

\* An answer stays right while it is shown.
LEMMA AnswerKept ==
  ASSUME FieldsShowTheirColumn, UNCHANGED <<kind, conf, answer>>
  PROVE  FieldsShowTheirColumn'
<1>1. PICK a : a = answer
  OBVIOUS
<1>2. \A field \in Fields(a.cells) : Shows(a.query, a.of, a.cells, field)
  BY <1>1 DEF FieldsShowTheirColumn, Shows, Shown
<1>3. answer' = a
  BY <1>1
<1> QED BY <1>2, <1>3, ShowsKept, ShownIsRight

\* The browser is shown what was answered, or nothing.
LEMMA NothingAnswered ==
  ASSUME answer' = NoAnswer
  PROVE  FieldsShowTheirColumn'
BY DEF FieldsShowTheirColumn, NoAnswer, Fields

\* Whatever fields of whatever query are asked for, the answer is right.
LEMMA FieldsAsked ==
  ASSUME ColumnsInv, NEW query \in DOMAIN Queries[kind], NEW fields, NEW of,
         AskFields(query, fields, of)
  PROVE  ColumnsInv'
<1> DEFINE cells == {c \in RowAnswered(query, of) : c[1] \in fields}
<1>1. /\ answer' = [query |-> query, of |-> of, cells |-> cells]
      /\ UNCHANGED <<kind, conf, jobVars, tables>>
      /\ Queries[kind][query].table \in DOMAIN tables
  BY DEF AskFields
<1>2. \A field \in Fields(cells) : Shows(query, of, cells, field)
  BY <1>1, RowShows DEF ColumnsInv
<1> HIDE DEF cells
<1>3. PICK a : a = [query |-> query, of |-> of, cells |-> cells]
  OBVIOUS
<1>4. FieldsShowTheirColumn'
  <2>1. a.query = query /\ a.of = of /\ a.cells = cells /\ answer' = a
    BY <1>1, <1>3
  <2>2. \A field \in Fields(a.cells) : Shows(a.query, a.of, a.cells, field)
    BY <1>2, <2>1
  <2> QED BY <1>1, <2>1, <2>2, ShowsKept, ShownIsRight
<1> QED BY <1>1, <1>4, TablesKept, JobKept DEF ColumnsInv

\* Every other step leaves the job, the tables and the answer alone.
LEMMA ColumnsKept ==
  ASSUME ColumnsInv, UNCHANGED <<kind, conf, jobVars, tables, answer>>
  PROVE  ColumnsInv'
BY TablesKept, JobKept, AnswerKept DEF ColumnsInv

\* The steps of the job: each appends its columns where the table has them.
LEMMA ColumnsJobStep ==
  ASSUME ColumnsInv, JobStep
  PROVE  ColumnsInv'
<1> USE DEF ColumnsInv
<1>1. CASE GetResults
  <2>1. JobRight'
    <3>1. /\ added' = 0 /\ job' = "columns" /\ row' = Results[kind]
          /\ UNCHANGED <<kind, conf, tables, answer>>
      BY <1>1 DEF GetResults, JobRight
    <3>2. Len(Added)' = Len(Added) /\ 0 \in 0 .. Len(Added)
      BY <3>1, Steps DEF Added
    <3>3. RowWith(0)' = Results[kind]
      BY <3>1 DEF RowWith
    <3> QED BY <3>1, <3>2, <3>3 DEF JobRight
  <2> QED BY <1>1, <2>1, TablesKept, AnswerKept DEF GetResults
<1>2. CASE AddColumns
  <2>1. /\ job = "columns" /\ added < Len(Added) /\ Added[added + 1] # Raises
        /\ row' = Join(row, Added[added + 1]) /\ added' = added + 1
        /\ UNCHANGED <<kind, conf, job, tables, answer>>
    BY <1>2 DEF AddColumns, Join
  <2>2. /\ added \in 0 .. Len(Added) /\ row = RowWith(added)
        /\ \A i \in 1 .. added : Added[i] # Raises
    BY <2>1 DEF JobRight
  <2>3. Len(Added) \in {3, 5}
    BY Steps
  <2>4. RowWith(added + 1) = Join(RowWith(added), Added[added + 1])
    <3>1. added \in {0, 1, 2, 3, 4}
      BY <2>1, <2>2, <2>3
    <3> QED BY <3>1 DEF RowWith, Row1, Row2, Row3, Row4, Row5
  <2>5. Added' = Added
    BY <2>1 DEF Added
  <2>6. \A steps : RowWith(steps)' = RowWith(steps)
    BY <2>1, <2>5 DEF RowWith, Row1, Row2, Row3, Row4, Row5
  <2>7. JobRight'
    <3>1. added + 1 \in 0 .. Len(Added) /\ job' = "columns"
      BY <2>1, <2>2, <2>3
    <3>2. \A i \in 1 .. added + 1 : Added[i] # Raises
      BY <2>1, <2>2, <2>3
    <3>3. PICK n : n = added + 1
      OBVIOUS
    <3>4. added' = n /\ row' = RowWith(n)
      BY <2>1, <2>2, <2>4, <3>3
    <3>5. RowWith(added)' = RowWith(n)
      BY <2>6, <3>4
    <3> QED BY <2>5, <3>1, <3>2, <3>3, <3>4, <3>5 DEF JobRight
  <2> QED BY <2>1, <2>7, TablesKept, AnswerKept
<1>3. CASE CreateScores
  <2>1. /\ job = "columns" /\ added = Len(Added) /\ InsertRow("scores", row)
        /\ job' = "details" /\ UNCHANGED <<kind, conf, answer>>
    BY <1>3 DEF CreateScores
  <2>2. TablesRight'
    BY <2>1, ScoresRow, TableInserted
  <2> QED BY <2>1, <2>2, AnswerKept DEF JobRight
<1>4. CASE InsertDetails
  <2>1. PICK table \in DOMAIN Details :
          Details[table] # Raises /\ InsertRow(table, Details[table])
    BY <1>4 DEF InsertDetails
  <2>2. UNCHANGED <<kind, conf, jobVars, answer>>
    BY <1>4 DEF InsertDetails
  <2>3. TablesRight'
    <3>1. PICK cells : cells = Details[table]
      OBVIOUS
    <3>2. TableRow(table, cells) /\ InsertRow(table, cells)
      BY <2>1, <3>1, DetailsRow
    <3> QED BY <2>2, <3>2, TableInserted
  <2> QED BY <2>2, <2>3, JobKept, AnswerKept
<1>5. CASE IngestSummary
  <2>1. /\ InsertRow("summary", << "minute", "count" >>) /\ job' = "ended"
        /\ UNCHANGED <<kind, conf, answer>>
    BY <1>5 DEF IngestSummary
  <2>2. TableRow("summary", << "minute", "count" >>)
    BY DEF TableRow, FlowTableRow, DNSTableRow, ProxyTableRow
  <2>3. TablesRight'
    BY <2>1, <2>2, TableInserted
  <2> QED BY <2>1, <2>3, AnswerKept DEF JobRight
<1> QED BY <1>1, <1>2, <1>3, <1>4, <1>5 DEF JobStep

\* A story, about any threat
LEMMA StoryboardStep ==
  ASSUME ColumnsInv, CreateStoryboard
  PROVE  ColumnsInv'
<1> USE DEF ColumnsInv
<1>1. PICK of : of = Head(saving).details
  OBVIOUS
<1>2. PICK byClient : byClient = (Head(saving).text \in ClientThreats)
  BY Zenon
<1>3. PICK rows : rows = CASE kind = "flow"  -> Flow!StoryRows(DetailsOf(of), byClient)
                           [] kind = "dns"   -> DNS!StoryRows(DetailsOf(of), byClient)
                           [] kind = "proxy" -> Proxy!StoryRows(DetailsOf(of), byClient)
  OBVIOUS
<1>4. tables' = Over(rows, tables) /\ UNCHANGED <<kind, conf, jobVars, answer>>
  BY <1>1, <1>2, <1>3 DEF CreateStoryboard
<1>5. \A table \in DOMAIN rows : TableRow(table, rows[table])
  BY <1>3, StoryRowsRight
<1>6. TablesRight'
  BY <1>4, <1>5, TablesWritten
<1> QED BY <1>4, <1>6, JobKept, AnswerKept

\* The invariant of the columns: the row in memory is made of the steps so far, every
\* row of a table is right, and so is the answer.
LEMMA ColumnsStep ==
  ASSUME ColumnsInv, [Next]_vars
  PROVE  ColumnsInv'
<1>1. CASE JobStep
  BY <1>1, ColumnsJobStep
<1>2. CASE Panel
  <2>1. CASE \E query \in DOMAIN Queries[kind], of \in Threats : Ask(query, of)
    <3>1. PICK query \in DOMAIN Queries[kind], of \in Threats : Ask(query, of)
      BY <2>1
    <3>2. PICK fields : AskFields(query, fields, of)
      BY <3>1 DEF Ask
    <3> QED BY <3>2, FieldsAsked
  <2>2. CASE \E start, end \in Calendar : AskSummary(start, end)
    BY <2>2, ColumnsKept DEF AskSummary
  <2>3. CASE \E of \in Threats : Score(of)
    <3>1. /\ "scores" \in DOMAIN tables
          /\ InsertRow("threats", Scored(Inserted(ColumnsOf[kind].scores, tables.scores)))
          /\ UNCHANGED <<kind, conf, jobVars, answer>>
      BY <2>3 DEF Score
    <3>2. PICK cells : cells = Scored(Inserted(ColumnsOf[kind].scores, tables.scores))
      OBVIOUS
    <3>3. TablesRight'
      <4>1. TableRow("threats", cells) /\ InsertRow("threats", cells)
        BY <3>1, <3>2, ScoredRow DEF ColumnsInv
      <4> QED BY <3>1, <4>1, TableInserted DEF ColumnsInv
    <3> QED BY <3>1, <3>3, JobKept, AnswerKept DEF ColumnsInv
  <2> QED BY <1>2, <2>1, <2>2, <2>3 DEF Panel
<1>3. CASE AdvancedMode
  <2>1. "suspicious" \in DOMAIN Queries[kind]
    BY FlowQueries, DNSQueries, ProxyQueries DEF ColumnsInv, Kinds
  <2>2. PICK of \in Threats : AskFields("suspicious", Advanced[kind], of)
    BY <1>3 DEF AdvancedMode
  <2> QED BY <2>1, <2>2, FieldsAsked
<1>4. CASE Show
  <2>1. answer' = NoAnswer /\ UNCHANGED <<kind, conf, jobVars, tables>>
    BY <1>4 DEF Show
  <2> QED BY <2>1, TablesKept, JobKept, NothingAnswered DEF ColumnsInv
<1>5. CASE ClickSearch \/ ClickSave
  BY <1>5, ColumnsKept DEF ClickSearch, ClickSave, Clicks, dayVars
<1>6. CASE StartInvestigation
  BY <1>6, ColumnsKept DEF StartInvestigation, dayVars
<1>7. CASE SearchIp \/ SearchAgain \/ SearchAnswered \/ SearchErrors \/ SearchRaises
  BY <1>7, ColumnsKept DEF SearchIp, SearchAgain, Search, SearchAnswered, SearchErrors,
                           SearchRaises, Searches, dayVars
<1>8. CASE SaveThreatSummary
  BY <1>8, ColumnsKept DEF SaveThreatSummary, dayVars
<1>9. CASE SaveAnswered \/ SaveErrors \/ SaveRaises
  <2>1. CASE CreateStoryboard
    BY <2>1, StoryboardStep
  <2>2. CASE NotSaved
    BY <2>2, ColumnsKept DEF NotSaved, dayVars
  <2> QED BY <1>9, <2>1, <2>2 DEF SaveAnswered, SaveErrors, SaveRaises
<1>10. CASE UNCHANGED vars
  BY <1>10, ColumnsKept DEF vars, dayVars
<1> QED BY <1>1, <1>2, <1>3, <1>4, <1>5, <1>6, <1>7, <1>8, <1>9, <1>10 DEF Next

\* For every calendar and every set of threats, whatever is installed and however
\* the steps of the job, the pages and the notebook follow one another, every field
\* of an answer shows the value it is named for, or is blank, 0 or null where it is due.
THEOREM FieldsShow == Spec => []FieldsShowTheirColumn
<1>1. Init => ColumnsInv
  <2> SUFFICES ASSUME Init
               PROVE  ColumnsInv
    OBVIOUS
  <2>1. /\ kind \in Kinds /\ job = "results" /\ added = 0 /\ answer = NoAnswer
        /\ tables = [raw |-> ColumnsOf[kind].raw]
    BY DEF Init, DayInit
  <2>2. FieldsShowTheirColumn
    BY <2>1 DEF FieldsShowTheirColumn, NoAnswer, Fields
  <2>3. TableRow("raw", ColumnsOf[kind].raw)
    BY <2>1 DEF Kinds, TableRow, FlowTableRow, DNSTableRow, ProxyTableRow, ColumnsOf,
                Flow!Tables, DNS!Tables, Proxy!Tables
  <2>4. TablesRight
    BY <2>1, <2>3 DEF TablesRight
  <2> QED BY <2>1, <2>2, <2>4 DEF ColumnsInv, JobRight
<1>2. ColumnsInv /\ [Next]_vars => ColumnsInv'
  BY ColumnsStep
<1>3. ColumnsInv => FieldsShowTheirColumn
  BY DEF ColumnsInv
<1> QED BY <1>1, <1>2, <1>3, PTL DEF Spec

=============================================================================
