----------------------------- MODULE DayProofs ------------------------------
(***************************************************************************)
(* What the proofs about a day of flow, dns and proxy data share: lemmas   *)
(* about the operators of DayStore, and what the steps of Request and of   *)
(* OAJob do to the comments of the story board and to the details of the   *)
(* connections shown, whichever type of data they are about.               *)
(***************************************************************************)
EXTENDS MLJob, OAJob, Request, WellFoundedInduction, TLAPS

-----------------------------------------------------------------------------
(* Induction, of sets *)

\* A set of numbers that is not empty has a least element.
LEMMA LeastNumber ==
  ASSUME NEW T \in SUBSET Nat, T # {}
  PROVE  \E n \in T : \A m \in T : n <= m
<1>1. PICK n \in T : \A m \in T : <<m, n>> \notin OpToRel(<, Nat)
  BY NatLessThanWellFounded, WFMin
<1>2. \A m \in T : ~(m < n)
  BY <1>1 DEF OpToRel
<1> QED BY <1>2

\* A set that holds 0 and with every number up to N the next one holds them all.
LEMMA UpTo ==
  ASSUME NEW N \in Nat, NEW T, 0 \in T, \A n \in 1 .. N : n - 1 \in T => n \in T
  PROVE  0 .. N \subseteq T
<1> SUFFICES ASSUME (0 .. N) \ T # {} PROVE FALSE
  OBVIOUS
<1>1. PICK n \in (0 .. N) \ T : \A m \in (0 .. N) \ T : n <= m
  <2>1. (0 .. N) \ T \in SUBSET Nat
    OBVIOUS
  <2> QED BY <2>1, LeastNumber
<1>2. n # 0 /\ n - 1 \in 0 .. N
  BY <1>1
<1> QED BY <1>1, <1>2

-----------------------------------------------------------------------------
(* Where *)

\* f is the function by which Where is defined, up to the n-th row.
Selecting(f, rows, chosen, n) ==
  f = [i \in 0 .. n |->
        IF i = 0 THEN << >>
        ELSE IF rows[i] \in chosen THEN Append(f[i - 1], rows[i]) ELSE f[i - 1]]

\* There is such a function.
LEMMA SelectingExists ==
  ASSUME NEW rows, NEW chosen, NEW N \in Nat
  PROVE  \E f : Selecting(f, rows, chosen, N)
<1> DEFINE T == {n \in Nat : \E f : Selecting(f, rows, chosen, n)}
<1>1. 0 \in T
  <2>1. Selecting([i \in 0 .. 0 |-> << >>], rows, chosen, 0)
    BY DEF Selecting
  <2> QED BY <2>1
<1>2. ASSUME NEW n \in 1 .. N, n - 1 \in T PROVE n \in T
  <2>1. PICK f : Selecting(f, rows, chosen, n - 1)
    BY <1>2
  <2> DEFINE e == IF rows[n] \in chosen THEN Append(f[n - 1], rows[n]) ELSE f[n - 1]
             g == [i \in 0 .. n |-> IF i = n THEN e ELSE f[i]]
  <2>2. ASSUME NEW i \in 0 .. n
        PROVE  g[i] = IF i = 0 THEN << >>
                      ELSE IF rows[i] \in chosen THEN Append(g[i - 1], rows[i]) ELSE g[i - 1]
    <3>1. CASE i = n
      <4>1. g[n] = e /\ g[n - 1] = f[n - 1] /\ n # 0
        OBVIOUS
      <4> HIDE DEF g
      <4> QED BY <3>1, <4>1
    <3>2. CASE i # n
      <4>1. i \in 0 .. n - 1 /\ g[i] = f[i] /\ (i # 0 => g[i - 1] = f[i - 1])
        BY <3>2
      <4>2. f[i] = IF i = 0 THEN << >>
                   ELSE IF rows[i] \in chosen THEN Append(f[i - 1], rows[i]) ELSE f[i - 1]
        BY <2>1, <4>1 DEF Selecting
      <4> HIDE DEF g
      <4> QED BY <4>1, <4>2
    <3> QED BY <3>1, <3>2
  <2>3. g = [i \in 0 .. n |-> g[i]]
    OBVIOUS
  <2>4. Selecting(g, rows, chosen, n)
    <3> HIDE DEF g
    <3> QED BY <2>2, <2>3 DEF Selecting
  <2> QED BY <2>4
<1>3. 0 .. N \subseteq T
  <2> HIDE DEF T
  <2> QED BY <1>1, <1>2, UpTo
<1> QED BY <1>3

\* What it does with each row.
LEMMA SelectingMeans ==
  ASSUME NEW f, NEW rows, NEW chosen, NEW N \in Nat, Selecting(f, rows, chosen, N)
  PROVE  /\ f[0] = << >>
         /\ \A i \in 1 .. N :
              f[i] = IF rows[i] \in chosen THEN Append(f[i - 1], rows[i]) ELSE f[i - 1]
<1>1. \A i \in 0 .. N :
        f[i] = IF i = 0 THEN << >>
               ELSE IF rows[i] \in chosen THEN Append(f[i - 1], rows[i]) ELSE f[i - 1]
  BY DEF Selecting
<1> QED BY <1>1

\* What Where computes.
LEMMA WhereUnfolds ==
  ASSUME NEW R, NEW rows \in Seq(R), NEW chosen
  PROVE  \E f : /\ Where(rows, chosen) = f[Len(rows)]
                /\ f[0] = << >>
                /\ \A i \in 1 .. Len(rows) :
                     f[i] = IF rows[i] \in chosen THEN Append(f[i - 1], rows[i])
                                                  ELSE f[i - 1]
<1> DEFINE g == CHOOSE f : Selecting(f, rows, chosen, Len(rows))
<1>0. Len(rows) \in Nat
  OBVIOUS
<1>1. Selecting(g, rows, chosen, Len(rows))
  BY <1>0, SelectingExists
<1>2. Where(rows, chosen) = g[Len(rows)]
  BY DEF Where, Selecting
<1>3. /\ g[0] = << >>
      /\ \A i \in 1 .. Len(rows) :
           g[i] = IF rows[i] \in chosen THEN Append(g[i - 1], rows[i]) ELSE g[i - 1]
  BY <1>0, <1>1, SelectingMeans
<1> HIDE DEF g
<1> QED BY <1>2, <1>3

\* An element is put at the end of a sequence.
LEMMA AppendIs ==
  ASSUME NEW R, NEW s \in Seq(R), NEW x \in R
  PROVE  /\ Append(s, x) \in Seq(R) /\ Len(Append(s, x)) = Len(s) + 1
         /\ \A i \in 1 .. Len(s) : Append(s, x)[i] = s[i]
         /\ Append(s, x)[Len(s) + 1] = x
         /\ Range(Append(s, x)) = Range(s) \cup {x}
         /\ IsInjective(s) /\ x \notin Range(s) => IsInjective(Append(s, x))
<1> DEFINE t == Append(s, x)
<1>1. /\ t \in Seq(R) /\ Len(t) = Len(s) + 1 /\ Len(s) \in Nat
      /\ \A i \in 1 .. Len(s) : t[i] = s[i]
      /\ t[Len(s) + 1] = x
      /\ DOMAIN t = 1 .. Len(s) + 1 /\ DOMAIN s = 1 .. Len(s)
  OBVIOUS
<1> HIDE DEF t
<1>2. Range(t) = Range(s) \cup {x}
  BY <1>1 DEF Range
<1>3. IsInjective(s) /\ x \notin Range(s) => IsInjective(t)
  BY <1>1 DEF Range, IsInjective
<1> QED BY <1>1, <1>2, <1>3 DEF t

\* It holds the chosen rows and no others, and none twice that was there once.
LEMMA WhereSelects ==
  ASSUME NEW R, NEW rows \in Seq(R), NEW chosen
  PROVE  /\ Where(rows, chosen) \in Seq(R)
         /\ Range(Where(rows, chosen)) = Range(rows) \cap chosen
         /\ IsInjective(rows) => IsInjective(Where(rows, chosen))
<1>1. PICK f : /\ Where(rows, chosen) = f[Len(rows)]
               /\ f[0] = << >>
               /\ \A i \in 1 .. Len(rows) :
                    f[i] = IF rows[i] \in chosen THEN Append(f[i - 1], rows[i])
                                                 ELSE f[i - 1]
  BY WhereUnfolds
<1>2. Len(rows) \in Nat /\ DOMAIN rows = 1 .. Len(rows)
  OBVIOUS
<1> DEFINE Upto(n) == {rows[i] : i \in 1 .. n}
           Good(n) == /\ f[n] \in Seq(R)
                      /\ Range(f[n]) = Upto(n) \cap chosen
                      /\ IsInjective(rows) => IsInjective(f[n])
           T == {n \in 0 .. Len(rows) : Good(n)}
<1>3. 0 \in T
  <2>1. Range(f[0]) = {} /\ IsInjective(f[0]) /\ f[0] \in Seq(R)
    BY <1>1 DEF Range, IsInjective
  <2> QED BY <1>2, <2>1
<1>4. ASSUME NEW n \in 1 .. Len(rows), n - 1 \in T PROVE n \in T
  <2>1. rows[n] \in R /\ Good(n - 1)
    BY <1>4
  <2>2. f[n] = IF rows[n] \in chosen THEN Append(f[n - 1], rows[n]) ELSE f[n - 1]
    BY <1>1
  <2>3. Upto(n) = Upto(n - 1) \cup {rows[n]}
    BY <1>2
  <2>4. CASE rows[n] \in chosen
    <3>1. IsInjective(rows) => rows[n] \notin Upto(n - 1)
      <4> SUFFICES ASSUME IsInjective(rows), rows[n] \in Upto(n - 1) PROVE FALSE
        OBVIOUS
      <4>1. PICK i \in 1 .. n - 1 : rows[i] = rows[n]
        OBVIOUS
      <4> QED BY <1>2, <4>1 DEF IsInjective
    <3> HIDE DEF Upto
    <3>2. f[n] = Append(f[n - 1], rows[n])
      BY <2>2, <2>4
    <3>3. Good(n)
      BY <2>1, <2>3, <2>4, <3>1, <3>2, AppendIs
    <3> QED BY <3>3
  <2>5. CASE rows[n] \notin chosen
    <3>1. f[n] = f[n - 1]
      BY <2>2, <2>5
    <3> HIDE DEF Upto
    <3> QED BY <2>1, <2>3, <2>5, <3>1
  <2> QED BY <2>4, <2>5
<1>5. Good(Len(rows))
  <2>1. 0 .. Len(rows) \subseteq T
    <3> HIDE DEF T
    <3> QED BY <1>2, <1>3, <1>4, UpTo
  <2>2. Len(rows) \in 0 .. Len(rows)
    BY <1>2
  <2> QED BY <2>1, <2>2
<1>6. Upto(Len(rows)) = Range(rows)
  BY <1>2 DEF Range
<1> QED BY <1>1, <1>5, <1>6

\* Rows are put at the end of others.
LEMMA ConcatIs ==
  ASSUME NEW R, NEW s \in Seq(R), NEW r \in Seq(R)
  PROVE  /\ s \o r \in Seq(R) /\ Len(s \o r) = Len(s) + Len(r)
         /\ \A i \in 1 .. Len(s) : (s \o r)[i] = s[i]
         /\ \A i \in 1 .. Len(r) : (s \o r)[Len(s) + i] = r[i]
         /\ \A i \in 1 .. Len(s \o r) :
              i \in 1 .. Len(s) \/ (i - Len(s) \in 1 .. Len(r) /\ (s \o r)[i] = r[i - Len(s)])
         /\ Range(s \o r) = Range(s) \cup Range(r)
<1> DEFINE t == s \o r
<1>1. /\ t \in Seq(R) /\ Len(t) = Len(s) + Len(r) /\ Len(s) \in Nat /\ Len(r) \in Nat
      /\ \A i \in 1 .. Len(s) : t[i] = s[i]
      /\ \A i \in 1 .. Len(t) : i \in 1 .. Len(s) \/ t[i] = r[i - Len(s)]
      /\ DOMAIN t = 1 .. Len(t) /\ DOMAIN s = 1 .. Len(s) /\ DOMAIN r = 1 .. Len(r)
  OBVIOUS
<1> HIDE DEF t
<1>2. /\ \A i \in 1 .. Len(r) : t[Len(s) + i] = r[i]
      /\ \A i \in 1 .. Len(t) :
           i \in 1 .. Len(s) \/ (i - Len(s) \in 1 .. Len(r) /\ t[i] = r[i - Len(s)])
  <2>1. ASSUME NEW i \in 1 .. Len(r) PROVE t[Len(s) + i] = r[i]
    <3>1. Len(s) + i \in 1 .. Len(t) /\ Len(s) + i \notin 1 .. Len(s) /\ (Len(s) + i) - Len(s) = i
      BY <1>1
    <3> QED BY <1>1, <3>1
  <2>2. ASSUME NEW i \in 1 .. Len(t), i \notin 1 .. Len(s)
        PROVE  i - Len(s) \in 1 .. Len(r) /\ t[i] = r[i - Len(s)]
    <3>1. i - Len(s) \in 1 .. Len(r)
      BY <1>1, <2>2
    <3> QED BY <1>1, <2>2, <3>1
  <2> QED BY <2>1, <2>2
<1>3. Range(t) = Range(s) \cup Range(r)
  <2>1. Range(t) \subseteq Range(s) \cup Range(r)
    BY <1>1, <1>2 DEF Range
  <2>2. Range(s) \subseteq Range(t)
    BY <1>1 DEF Range
  <2>3. ASSUME NEW i \in 1 .. Len(r) PROVE r[i] \in Range(t)
    <3>1. Len(s) + i \in 1 .. Len(t) /\ t[Len(s) + i] = r[i]
      BY <1>1, <1>2
    <3> QED BY <1>1, <3>1 DEF Range
  <2> QED BY <1>1, <2>1, <2>2, <2>3 DEF Range
<1> QED BY <1>1, <1>2, <1>3 DEF t

\* The first element of a sequence, and the others.
LEMMA HeadAndTail ==
  ASSUME NEW R, NEW s \in Seq(R), s # << >>
  PROVE  /\ Head(s) \in R /\ Tail(s) \in Seq(R) /\ Len(s) \in Nat \ {0}
         /\ Len(Tail(s)) = Len(s) - 1 /\ Head(s) = s[1]
         /\ \A i \in 1 .. Len(s) - 1 : Tail(s)[i] = s[i + 1]
         /\ Range(s) = {Head(s)} \cup Range(Tail(s))
         /\ << Head(s) >> \in Seq(R)
         /\ s = << Head(s) >> \o Tail(s)
<1> DEFINE t == Tail(s)
<1>1. /\ Head(s) \in R /\ t \in Seq(R) /\ Len(s) \in Nat \ {0}
      /\ Len(t) = Len(s) - 1 /\ Head(s) = s[1]
      /\ \A i \in 1 .. Len(s) - 1 : t[i] = s[i + 1]
      /\ DOMAIN t = 1 .. Len(s) - 1 /\ DOMAIN s = 1 .. Len(s)
      /\ << Head(s) >> \in Seq(R)
  OBVIOUS
<1>2. s = << Head(s) >> \o t
  OBVIOUS
<1> HIDE DEF t
<1>3. Range(s) = {Head(s)} \cup Range(t)
  <2>1. ASSUME NEW i \in 1 .. Len(s), i # 1 PROVE s[i] \in Range(t)
    <3>1. i - 1 \in 1 .. Len(s) - 1 /\ (i - 1) + 1 = i
      BY <1>1, <2>1
    <3>2. t[i - 1] = s[i]
      BY <1>1, <3>1
    <3> QED BY <1>1, <3>1, <3>2 DEF Range
  <2>2. \A i \in 1 .. Len(s) - 1 : t[i] \in Range(s)
    BY <1>1 DEF Range
  <2>3. Range(s) \subseteq {Head(s)} \cup Range(t)
    BY <1>1, <2>1 DEF Range
  <2>4. Range(t) \subseteq Range(s) /\ Head(s) \in Range(s)
    BY <1>1, <2>2 DEF Range
  <2> QED BY <2>3, <2>4
<1> QED BY <1>1, <1>2, <1>3 DEF t

-----------------------------------------------------------------------------
(* What the operations of the store do *)

Counted == starts \in Nat /\ faults \in Nat /\ undeleted \in Nat

\* No count goes down.
CountedOn == Counted' /\ starts <= starts' /\ faults <= faults' /\ undeleted <= undeleted'

\* What a step counts.
LEMMA OneIsCounted ==
  ASSUME Counted, Starts \/ Fault \/ Undeleted \/ UNCHANGED bounds
  PROVE  /\ CountedOn
         /\ Fault => faults' # 0
         /\ Undeleted => undeleted' # 0
BY DEF Starts, Fault, Undeleted, bounds, Counted, CountedOn

\* INSERT puts the rows at the end of one table.
LEMMA InsertAppends ==
  ASSUME DOMAIN tables = Tables, NEW t \in Tables, NEW rows, Insert(t, rows)
  PROVE  /\ DOMAIN tables' = Tables
         /\ tables'[t] = tables[t] \o rows
         /\ \A u \in Tables : u # t => tables'[u] = tables[u]
BY DEF Insert

\* A deletion empties its table or, when it fails, leaves it.
LEMMA DeleteEmpties ==
  ASSUME DOMAIN tables = Tables, Counted, NEW t \in Tables \cup {Nowhere}, Delete(t)
  PROVE  /\ DOMAIN tables' = Tables
         /\ CountedOn /\ faults' = faults /\ starts' = starts
         /\ \A u \in Tables : tables'[u] = tables[u] \/ (u = t /\ tables'[u] = << >>)
         /\ undeleted' = 0 => \A u \in Tables : u = t => tables'[u] = << >>
<1>1. CASE t \in Tables /\ tables' = [tables EXCEPT ![t] = << >>] /\ UNCHANGED bounds
  BY <1>1 DEF bounds, Counted, CountedOn
<1>2. CASE t = Nowhere /\ UNCHANGED <<tables, bounds>>
  BY <1>2, DayAssumption DEF bounds, Counted, CountedOn
<1>3. CASE Undeleted /\ UNCHANGED tables
  BY <1>3 DEF Undeleted, Counted, CountedOn
<1> QED BY <1>1, <1>2, <1>3 DEF Delete

\* Clear, of a table that is or is not the story board's.
LEMMA ClearEmpties ==
  ASSUME DOMAIN tables = Tables, Counted, NEW t \in Tables \cup {Nowhere}, Clear(t)
  PROVE  /\ DOMAIN tables' = Tables
         /\ CountedOn /\ faults' = faults /\ starts' = starts
         /\ \A u \in Tables : tables'[u] = tables[u] \/ (u = t /\ tables'[u] = << >>)
         /\ undeleted' = 0 => \A u \in Tables : u = t => tables'[u] = << >>
         /\ IF t = "storyboard" THEN acked' = {} /\ cleared' = TRUE
                                ELSE UNCHANGED <<acked, cleared>>
<1>1. Delete(t)
  BY DEF Clear
<1>2. IF t = "storyboard" THEN acked' = {} /\ cleared' = TRUE
                          ELSE UNCHANGED <<acked, cleared>>
  BY DEF Clear
<1> QED BY <1>1, <1>2, DeleteEmpties

-----------------------------------------------------------------------------
(* The comments of the story board *)

CommentRecords(A) == [anchor : A \cup {None}, text : Texts \cup {None}]

\* No two comments are of one anchor.
OnePerAnchor(comments) ==
  \A i, j \in DOMAIN comments : comments[i].anchor = comments[j].anchor => i = j

\* What a request knows of the comments has the form of comments.
CommentsTyped(A) ==
  /\ DOMAIN req = DOMAIN NoRequest
  /\ tables["storyboard"] \in Seq(CommentRecords(A))
  /\ req.sb_data \in Seq(CommentRecords(A))
  /\ Comment(req.anchor, req.text) \in CommentRecords(A)
  /\ api \in {"delete comments", "insert comments"} => req.sb_data # << >>

\* The comments a request is to insert are one for each anchor, and none of them
\* is in the table yet.
CommentsOnce ==
  undeleted = 0 =>
    /\ OnePerAnchor(tables["storyboard"])
    /\ api \in {"delete comments", "insert comments"} => OnePerAnchor(req.sb_data)
    /\ api = "insert comments" =>
         \A c \in RowsOf("storyboard"), d \in Range(req.sb_data) : c.anchor # d.anchor

\* What was acknowledged is kept; a request that has read the comments inserts
\* again all but what it replaces, and its own comment, unless the board was
\* cleared since, when nothing is acknowledged any more.
AckedAreKept ==
  faults = 0 /\ undeleted = 0 =>
    /\ \A c \in acked : CommentKept(c)
    /\ api = "delete comments" =>
         /\ \A c \in acked : c.anchor = req.anchor \/ c \in Range(req.sb_data)
         /\ Comment(req.anchor, req.text) \in Range(req.sb_data)
    /\ api = "insert comments" /\ ~cleared =>
         Comment(req.anchor, req.text) \in RowsOf("storyboard") \cup Range(req.sb_data)
    /\ api \in {"delete comments", "insert comments"} /\ cleared => acked = {}

CommentsInv(A) == CommentsTyped(A) /\ CommentsOnce /\ AckedAreKept

\* A step that is none of save_comment's, and leaves the board alone.
LEMMA CommentsStay ==
  ASSUME NEW A, CommentsInv(A), Counted, CountedOn,
         tables'["storyboard"] = tables["storyboard"], UNCHANGED <<acked, cleared>>,
         DOMAIN req' = DOMAIN NoRequest,
         \/ UNCHANGED <<api, req.sb_data, req.anchor, req.text>>
         \/ /\ {api, api'} \cap {"delete comments", "insert comments"} = {}
            /\ req'.sb_data \in Seq(CommentRecords(A))
            /\ Comment(req'.anchor, req'.text) \in CommentRecords(A)
  PROVE  CommentsInv(A)'
<1>1. /\ undeleted' = 0 => undeleted = 0
      /\ faults' = 0 => faults = 0
      /\ RowsOf("storyboard")' = RowsOf("storyboard")
  BY DEF CountedOn, Counted, RowsOf
<1>2. CASE UNCHANGED <<api, req.sb_data, req.anchor, req.text>>
  <2>1. CommentsTyped(A)'
    BY <1>2 DEF CommentsInv, CommentsTyped, Comment, CommentRecords
  <2>2. CommentsOnce'
    BY <1>1, <1>2 DEF CommentsInv, CommentsOnce
  <2>3. AckedAreKept'
    BY <1>1, <1>2 DEF CommentsInv, AckedAreKept, CommentKept, Comment
  <2> QED BY <2>1, <2>2, <2>3 DEF CommentsInv
<1>3. CASE /\ {api, api'} \cap {"delete comments", "insert comments"} = {}
           /\ req'.sb_data \in Seq(CommentRecords(A))
           /\ Comment(req'.anchor, req'.text) \in CommentRecords(A)
  <2>0. /\ api \notin {"delete comments", "insert comments"}
        /\ api' \notin {"delete comments", "insert comments"}
    BY <1>3
  <2>1. CommentsTyped(A)'
    BY <1>3, <2>0 DEF CommentsInv, CommentsTyped, Comment, CommentRecords
  <2>2. CommentsOnce'
    BY <1>1, <2>0 DEF CommentsInv, CommentsOnce
  <2>3. AckedAreKept'
    BY <1>1, <2>0 DEF CommentsInv, AckedAreKept, CommentKept
  <2> QED BY <2>1, <2>2, <2>3 DEF CommentsInv
<1> QED BY <1>2, <1>3

\* A directory is removed by a reset or by an OA job, between any two steps of a
\* request.
LEMMA CommentsCleared ==
  ASSUME NEW A, CommentsInv(A), DOMAIN tables = Tables, Counted,
         NEW t \in Tables \cup {Nowhere}, Clear(t), DOMAIN req' = DOMAIN NoRequest,
         \/ UNCHANGED <<api, req.sb_data, req.anchor, req.text>>
         \/ /\ {api, api'} \cap {"delete comments", "insert comments"} = {}
            /\ req'.sb_data \in Seq(CommentRecords(A))
            /\ Comment(req'.anchor, req'.text) \in CommentRecords(A)
  PROVE  CommentsInv(A)'
<1>1. "storyboard" \in Tables
  BY DayAssumption
<1>2. CASE t # "storyboard"
  <2>1. tables'["storyboard"] = tables["storyboard"] /\ UNCHANGED <<acked, cleared>> /\ CountedOn
    BY <1>1, <1>2, ClearEmpties
  <2> QED BY <2>1, CommentsStay
<1>3. CASE t = "storyboard"
  <2>1. /\ acked' = {} /\ cleared' = TRUE /\ CountedOn
        /\ tables'["storyboard"] \in {tables["storyboard"], << >>}
        /\ undeleted' = 0 => tables'["storyboard"] = << >>
    BY <1>1, <1>3, ClearEmpties
  <2>2. /\ undeleted' = 0 => undeleted = 0 /\ tables'["storyboard"] = << >>
        /\ faults' = 0 => faults = 0
    BY <2>1 DEF CountedOn, Counted
  <2>3. /\ req'.sb_data \in Seq(CommentRecords(A))
        /\ Comment(req'.anchor, req'.text) \in CommentRecords(A)
        /\ api' \in {"delete comments", "insert comments"} =>
             /\ api' = api /\ req'.sb_data = req.sb_data
             /\ req.sb_data # << >>
    BY DEF CommentsInv, CommentsTyped, Comment
  <2>4. tables'["storyboard"] \in Seq(CommentRecords(A))
    <3>1. tables["storyboard"] \in Seq(CommentRecords(A))
      BY DEF CommentsInv, CommentsTyped
    <3>2. << >> \in Seq(CommentRecords(A))
      OBVIOUS
    <3> QED BY <2>1, <3>1, <3>2
  <2>5. CommentsTyped(A)'
    BY <2>3, <2>4 DEF CommentsTyped, Comment, CommentRecords
  <2>6. undeleted' = 0 => DOMAIN tables'["storyboard"] = {} /\ Range(tables'["storyboard"]) = {}
    BY <2>2 DEF Range
  <2>7. CommentsOnce'
    BY <2>2, <2>3, <2>6 DEF CommentsInv, CommentsOnce, OnePerAnchor, RowsOf
  <2>8. AckedAreKept'
    BY <2>1, <2>2 DEF CommentsInv, AckedAreKept
  <2> QED BY <2>5, <2>7, <2>8 DEF CommentsInv
<1> QED BY <1>2, <1>3

\* The new comment takes the place of the one of its anchor, or the last one.
LEMMA MergedIs ==
  ASSUME NEW A, NEW comments \in Seq(CommentRecords(A)), NEW new \in CommentRecords(A)
  PROVE  /\ Merged(comments, new) \in Seq(CommentRecords(A))
         /\ Merged(comments, new) # << >>
         /\ new \in Range(Merged(comments, new))
         /\ \A c \in Range(comments) : c.anchor # new.anchor => c \in Range(Merged(comments, new))
         /\ OnePerAnchor(comments) => OnePerAnchor(Merged(comments, new))
<1>1. CASE \E c \in Range(comments) : c.anchor = new.anchor
  <2> DEFINE m == [i \in DOMAIN comments |->
                     IF comments[i].anchor = new.anchor THEN new ELSE comments[i]]
  <2>1. Merged(comments, new) = m
    BY <1>1 DEF Merged
  <2>2. PICK k \in DOMAIN comments : comments[k].anchor = new.anchor
    BY <1>1 DEF Range
  <2>3. /\ m \in Seq(CommentRecords(A)) /\ DOMAIN m = DOMAIN comments
        /\ \A i \in DOMAIN comments :
             m[i] = IF comments[i].anchor = new.anchor THEN new ELSE comments[i]
    <3>1. DOMAIN comments = 1 .. Len(comments) /\ Len(comments) \in Nat
      OBVIOUS
    <3>2. \A i \in 1 .. Len(comments) : m[i] \in CommentRecords(A)
      BY <3>1
    <3> QED BY <3>1, <3>2
  <2> HIDE DEF m
  <2>4. m # << >> /\ new \in Range(m)
    BY <2>2, <2>3 DEF Range
  <2>5. \A c \in Range(comments) : c.anchor # new.anchor => c \in Range(m)
    BY <2>3 DEF Range
  <2>6. OnePerAnchor(comments) => OnePerAnchor(m)
    <3>1. \A i \in DOMAIN comments : m[i].anchor = comments[i].anchor
      BY <2>3
    <3> QED BY <2>3, <3>1 DEF OnePerAnchor
  <2> QED BY <2>1, <2>3, <2>4, <2>5, <2>6
<1>2. CASE ~\E c \in Range(comments) : c.anchor = new.anchor
  <2> DEFINE m == Append(comments, new)
  <2>1. Merged(comments, new) = m
    BY <1>2 DEF Merged
  <2>2. /\ m \in Seq(CommentRecords(A)) /\ Len(m) = Len(comments) + 1
        /\ \A i \in 1 .. Len(comments) : m[i] = comments[i]
        /\ m[Len(comments) + 1] = new
        /\ Range(m) = Range(comments) \cup {new}
    BY AppendIs
  <2> HIDE DEF m
  <2>3. DOMAIN m = 1 .. Len(comments) + 1 /\ DOMAIN comments = 1 .. Len(comments)
        /\ Len(comments) \in Nat /\ m # << >>
    BY <2>2
  <2>4. OnePerAnchor(comments) => OnePerAnchor(m)
    <3>1. \A i \in 1 .. Len(comments) : comments[i].anchor # new.anchor
      BY <1>2, <2>3 DEF Range
    <3>2. SUFFICES ASSUME OnePerAnchor(comments), NEW i \in DOMAIN m, NEW j \in DOMAIN m,
                          m[i].anchor = m[j].anchor
                   PROVE  i = j
      BY DEF OnePerAnchor
    <3>3. CASE i \in 1 .. Len(comments) /\ j \in 1 .. Len(comments)
      BY <2>2, <2>3, <3>2, <3>3 DEF OnePerAnchor
    <3>4. CASE i = Len(comments) + 1 \/ j = Len(comments) + 1
      BY <2>2, <2>3, <3>1, <3>2, <3>4
    <3> QED BY <2>3, <3>3, <3>4
  <2> QED BY <2>1, <2>2, <2>3, <2>4
<1> QED BY <1>1, <1>2

\* save_comment reads the comments.
LEMMA SelectCommentsStep ==
  ASSUME NEW A, CommentsInv(A), Counted, SelectComments
  PROVE  CommentsInv(A)' /\ CountedOn /\ DOMAIN req' = DOMAIN NoRequest
<1> DEFINE old == tables["storyboard"]
           new == Comment(req.anchor, req.text)
<1>1. old \in Seq(CommentRecords(A)) /\ new \in CommentRecords(A) /\ DOMAIN req = DOMAIN NoRequest
  BY DEF CommentsInv, CommentsTyped
<1>2. /\ api = "select comments" /\ api' = "delete comments" /\ cleared' = FALSE
      /\ tables' = tables /\ acked' = acked
      /\ UNCHANGED <<starts, faults, undeleted>>
      /\ req' = [req EXCEPT !.sb_data = Merged(old, new)]
  BY DEF SelectComments, bounds
<1>3. /\ req'.sb_data = Merged(old, new) /\ req'.anchor = req.anchor /\ req'.text = req.text
      /\ DOMAIN req' = DOMAIN NoRequest
  BY <1>1, <1>2 DEF NoRequest
<1>4. Comment(req'.anchor, req'.text) = new
  BY <1>3
<1> HIDE DEF old, new
<1>5. /\ Merged(old, new) \in Seq(CommentRecords(A)) /\ Merged(old, new) # << >>
      /\ new \in Range(Merged(old, new))
      /\ \A c \in Range(old) : c.anchor # new.anchor => c \in Range(Merged(old, new))
      /\ OnePerAnchor(old) => OnePerAnchor(Merged(old, new))
  BY <1>1, MergedIs
<1>6. CommentsTyped(A)'
  BY <1>1, <1>2, <1>3, <1>4, <1>5 DEF CommentsTyped, Comment, CommentRecords, old
<1>7. CommentsOnce'
  BY <1>2, <1>3, <1>5 DEF CommentsInv, CommentsOnce, old
<1>8. AckedAreKept'
  <2>1. SUFFICES ASSUME faults = 0, undeleted = 0 PROVE AckedAreKept'
    BY <1>2 DEF AckedAreKept
  <2>2. \A c \in acked : c \in Range(old)
    BY <1>2, <2>1 DEF CommentsInv, AckedAreKept, CommentKept, RowsOf, old
  <2>3. \A c \in acked' : c.anchor = req'.anchor \/ c \in Range(req'.sb_data)
    BY <1>2, <1>3, <1>5, <2>2 DEF new, Comment
  <2>4. \A c \in acked' : CommentKept(c)'
    BY <1>2, <2>2 DEF CommentKept, RowsOf, old
  <2> QED BY <1>2, <1>3, <1>4, <1>5, <2>3, <2>4 DEF AckedAreKept
<1>9. CountedOn
  <2>1. UNCHANGED <<starts, faults, undeleted>>
    BY <1>2
  <2> QED BY <2>1 DEF Counted, CountedOn
<1> QED BY <1>3, <1>6, <1>7, <1>8, <1>9 DEF CommentsInv

\* ... removes the directory
LEMMA DeleteCommentsStep ==
  ASSUME NEW A, CommentsInv(A), DOMAIN tables = Tables, Counted, DeleteComments
  PROVE  CommentsInv(A)'
<1>1. /\ api = "delete comments" /\ api' = "insert comments" /\ req' = req
      /\ UNCHANGED <<acked, cleared>> /\ Delete("storyboard")
  BY DEF DeleteComments, Then, history
<1>2. "storyboard" \in Tables
  BY DayAssumption
<1>3. /\ CountedOn /\ faults' = faults
      /\ tables'["storyboard"] \in {tables["storyboard"], << >>}
      /\ undeleted' = 0 => tables'["storyboard"] = << >>
  BY <1>1, <1>2, DeleteEmpties
<1>4. undeleted' = 0 => undeleted = 0 /\ DOMAIN tables'["storyboard"] = {} /\ RowsOf("storyboard")' = {}
  BY <1>3 DEF Counted, CountedOn, RowsOf, Range
<1>5. CommentsTyped(A)'
  <2>1. tables["storyboard"] \in Seq(CommentRecords(A))
    BY DEF CommentsInv, CommentsTyped
  <2>2. << >> \in Seq(CommentRecords(A))
    OBVIOUS
  <2>3. tables'["storyboard"] \in Seq(CommentRecords(A))
    BY <1>3, <2>1, <2>2
  <2> QED BY <1>1, <2>3 DEF CommentsInv, CommentsTyped, Comment, CommentRecords
<1>6. CommentsOnce'
  BY <1>1, <1>4 DEF CommentsInv, CommentsOnce, OnePerAnchor
<1>7. AckedAreKept'
  BY <1>1, <1>3, <1>4 DEF CommentsInv, AckedAreKept, CommentKept, Comment
<1> QED BY <1>5, <1>6, <1>7 DEF CommentsInv

\* ... and inserts the comments again, one after the other.
LEMMA InsertCommentStep ==
  ASSUME NEW A, CommentsInv(A), DOMAIN tables = Tables, Counted, InsertComment
  PROVE  CommentsInv(A)' /\ DOMAIN req' = DOMAIN NoRequest
<1> DEFINE old == tables["storyboard"]
           head == Head(req.sb_data)
           tail == Tail(req.sb_data)
           new == Comment(req.anchor, req.text)
<1>1. /\ api = "insert comments" /\ Insert("storyboard", << head >>) /\ cleared' = cleared
      /\ UNCHANGED <<starts, faults, undeleted>>
  BY DEF InsertComment, bounds
<1>2. /\ old \in Seq(CommentRecords(A)) /\ new \in CommentRecords(A)
      /\ req.sb_data \in Seq(CommentRecords(A)) /\ req.sb_data # << >>
      /\ DOMAIN req = DOMAIN NoRequest
  BY <1>1 DEF CommentsInv, CommentsTyped
<1>3. /\ head \in CommentRecords(A) /\ tail \in Seq(CommentRecords(A))
      /\ Len(req.sb_data) \in Nat \ {0} /\ Len(tail) = Len(req.sb_data) - 1
      /\ head = req.sb_data[1]
      /\ \A i \in 1 .. Len(req.sb_data) - 1 : tail[i] = req.sb_data[i + 1]
      /\ Range(req.sb_data) = {head} \cup Range(tail)
  BY <1>2, HeadAndTail
<1>4. /\ tables'["storyboard"] = Append(old, head)
      /\ Append(old, head) \in Seq(CommentRecords(A))
      /\ Range(Append(old, head)) = Range(old) \cup {head}
  <2>1. tables'["storyboard"] = old \o << head >>
    BY <1>1, DayAssumption, InsertAppends
  <2>2. old \o << head >> = Append(old, head)
    BY <1>2, <1>3
  <2> QED BY <1>2, <1>3, <2>1, <2>2, AppendIs
<1>5. /\ old = tables["storyboard"] /\ new = Comment(req.anchor, req.text)
      /\ new.anchor = req.anchor
  BY DEF Comment
<1> HIDE DEF old, new, head, tail
<1>6. undeleted = 0 => OnePerAnchor(Append(old, head))
  <2>1. SUFFICES ASSUME undeleted = 0 PROVE OnePerAnchor(Append(old, head))
    OBVIOUS
  <2>2. OnePerAnchor(old) /\ \A c \in Range(old) : c.anchor # head.anchor
    BY <1>1, <1>3, <1>5, <2>1 DEF CommentsInv, CommentsOnce, RowsOf
  <2>3. /\ DOMAIN Append(old, head) = 1 .. Len(old) + 1 /\ DOMAIN old = 1 .. Len(old)
        /\ Len(old) \in Nat
        /\ \A i \in 1 .. Len(old) : Append(old, head)[i] = old[i]
        /\ Append(old, head)[Len(old) + 1] = head
    BY <1>2, <1>3, AppendIs
  <2>4. \A i \in 1 .. Len(old) : old[i].anchor # head.anchor
    BY <2>2, <2>3 DEF Range
  <2>5. SUFFICES ASSUME NEW i \in 1 .. Len(old) + 1, NEW j \in 1 .. Len(old) + 1,
                        Append(old, head)[i].anchor = Append(old, head)[j].anchor
                 PROVE  i = j
    BY <2>3 DEF OnePerAnchor
  <2>6. CASE i \in 1 .. Len(old) /\ j \in 1 .. Len(old)
    BY <2>2, <2>3, <2>5, <2>6 DEF OnePerAnchor
  <2>7. CASE i = Len(old) + 1 \/ j = Len(old) + 1
    BY <2>3, <2>4, <2>5, <2>7
  <2> QED BY <2>3, <2>6, <2>7
<1>7. CASE Len(req.sb_data) > 1
  <2>1. api' = api /\ req' = [req EXCEPT !.sb_data = tail] /\ acked' = acked
    BY <1>7 DEF InsertComment, tail
  <2>2. /\ req'.sb_data = tail /\ req'.anchor = req.anchor /\ req'.text = req.text
        /\ DOMAIN req' = DOMAIN NoRequest
    BY <1>2, <2>1 DEF NoRequest
  <2>3. tail # << >>
    BY <1>3, <1>7
  <2>4. CommentsTyped(A)'
    BY <1>1, <1>2, <1>3, <1>4, <1>5, <2>1, <2>2, <2>3 DEF CommentsTyped, Comment, CommentRecords
  <2>5. CommentsOnce'
    <3>1. SUFFICES ASSUME undeleted = 0 PROVE CommentsOnce'
      BY <1>1 DEF CommentsOnce
    <3>2. /\ OnePerAnchor(req.sb_data)
          /\ \A c \in Range(old), d \in Range(req.sb_data) : c.anchor # d.anchor
      BY <1>1, <1>5, <3>1 DEF CommentsInv, CommentsOnce, RowsOf
    <3>3. /\ DOMAIN tail = 1 .. Len(req.sb_data) - 1
          /\ DOMAIN req.sb_data = 1 .. Len(req.sb_data)
          /\ \A i \in 1 .. Len(req.sb_data) - 1 : i + 1 \in 1 .. Len(req.sb_data) /\ i + 1 # 1
          /\ \A i, j \in 1 .. Len(req.sb_data) - 1 : i + 1 = j + 1 => i = j
          /\ 1 \in 1 .. Len(req.sb_data)
      BY <1>2, <1>3
    <3>4. OnePerAnchor(tail)
      <4>1. SUFFICES ASSUME NEW i \in 1 .. Len(req.sb_data) - 1,
                            NEW j \in 1 .. Len(req.sb_data) - 1,
                            tail[i].anchor = tail[j].anchor
                     PROVE  i = j
        BY <3>3 DEF OnePerAnchor
      <4>2. req.sb_data[i + 1].anchor = req.sb_data[j + 1].anchor
        BY <1>3, <4>1
      <4>3. i + 1 = j + 1
        BY <3>2, <3>3, <4>2 DEF OnePerAnchor
      <4> QED BY <3>3, <4>3
    <3>5. \A d \in Range(tail) : d.anchor # head.anchor
      <4>1. SUFFICES ASSUME NEW i \in 1 .. Len(req.sb_data) - 1
                     PROVE  tail[i].anchor # head.anchor
        BY <3>3 DEF Range
      <4>2. tail[i] = req.sb_data[i + 1] /\ head = req.sb_data[1]
        BY <1>3, <4>1
      <4>3. req.sb_data[i + 1].anchor # req.sb_data[1].anchor
        BY <3>2, <3>3, <4>1 DEF OnePerAnchor
      <4> QED BY <4>2, <4>3
    <3>6. \A c \in Range(old) \cup {head}, d \in Range(tail) : c.anchor # d.anchor
      BY <1>3, <3>2, <3>5
    <3> QED BY <1>1, <1>4, <1>6, <2>1, <2>2, <3>1, <3>4, <3>6 DEF CommentsOnce, RowsOf
  <2>6. AckedAreKept'
    <3>1. RowsOf("storyboard")' = Range(old) \cup {head}
      BY <1>4 DEF RowsOf
    <3> QED BY <1>1, <1>3, <1>5, <2>1, <2>2, <3>1 DEF CommentsInv, AckedAreKept, CommentKept, RowsOf
  <2> QED BY <2>2, <2>4, <2>5, <2>6 DEF CommentsInv
<1>8. CASE ~(Len(req.sb_data) > 1)
  <2>1. /\ api' = "idle" /\ req' = NoRequest
        /\ acked' = IF cleared THEN acked
                    ELSE {c \in acked : c.anchor # req.anchor} \cup {new}
    BY <1>5, <1>8 DEF InsertComment, Return
  <2>2. /\ req'.sb_data = << >> /\ Comment(req'.anchor, req'.text) \in CommentRecords(A)
        /\ DOMAIN req' = DOMAIN NoRequest
    BY <2>1 DEF NoRequest, Comment, CommentRecords
  <2>3. CommentsTyped(A)'
    <3>1. << >> \in Seq(CommentRecords(A))
      OBVIOUS
    <3> QED BY <1>4, <2>1, <2>2, <3>1 DEF CommentsTyped, Comment, CommentRecords
  <2>4. CommentsOnce'
    BY <1>1, <1>4, <1>6, <2>1 DEF CommentsOnce
  <2>5. AckedAreKept'
    <3>1. SUFFICES ASSUME faults = 0, undeleted = 0
                   PROVE  \A c \in acked' : c \in RowsOf("storyboard")'
      BY <1>1, <2>1 DEF AckedAreKept, CommentKept
    <3>2. RowsOf("storyboard")' = Range(old) \cup {head}
      BY <1>4 DEF RowsOf
    <3>3. Range(req.sb_data) = {head}
      <4>1. Range(tail) = {}
        BY <1>3, <1>8 DEF Range
      <4> QED BY <1>3, <4>1
    <3>4. CASE cleared
      BY <1>1, <2>1, <3>1, <3>4 DEF CommentsInv, AckedAreKept
    <3>5. CASE ~cleared
      <4>1. new \in Range(old) \cup {head}
        BY <1>1, <1>5, <3>1, <3>3, <3>5 DEF CommentsInv, AckedAreKept, RowsOf
      <4>2. \A c \in acked : c.anchor # req.anchor => c \in Range(old) \cup {head}
        BY <1>1, <1>5, <3>1, <3>3 DEF CommentsInv, AckedAreKept, CommentKept, RowsOf
      <4> QED BY <2>1, <3>2, <3>5, <4>1, <4>2
    <3> QED BY <3>4, <3>5
  <2> QED BY <2>2, <2>3, <2>4, <2>5 DEF CommentsInv
<1> QED BY <1>7, <1>8

\* A request that ends in between leaves what it inserted.
LEMMA RequestFailsStep ==
  ASSUME NEW A, CommentsInv(A), Counted, RequestFails
  PROVE  CommentsInv(A)' /\ CountedOn /\ DOMAIN req' = DOMAIN NoRequest
<1>1. /\ api' = "idle" /\ req' = NoRequest /\ UNCHANGED <<tables, acked, cleared>>
      /\ faults' = faults + 1 /\ UNCHANGED <<starts, undeleted>>
  BY DEF RequestFails, Return, Fault, history
<1>2. CountedOn /\ faults' # 0
  BY <1>1 DEF Counted, CountedOn
<1>3. << >> \in Seq(CommentRecords(A)) /\ req'.sb_data = << >> /\ DOMAIN req' = DOMAIN NoRequest
  BY <1>1 DEF NoRequest
<1>4. Comment(req'.anchor, req'.text) \in CommentRecords(A)
  BY <1>1 DEF NoRequest, Comment, CommentRecords
<1>5. CommentsTyped(A)'
  BY <1>1, <1>3, <1>4 DEF CommentsInv, CommentsTyped, Comment, CommentRecords
<1>6. CommentsOnce'
  BY <1>1 DEF CommentsInv, CommentsOnce
<1>7. AckedAreKept'
  BY <1>2 DEF AckedAreKept
<1> QED BY <1>2, <1>3, <1>5, <1>6, <1>7 DEF CommentsInv

-----------------------------------------------------------------------------
(* The connections shown and their details *)

\* A file of results has each connection once.
Copies == {r \in [csv : {"absent", "parts", "partial", "complete"}, run : Nat, rows : Seq(Conns)] :
             IsInjective(r.rows)}

ShownRows == [conn : Conns, run : Nat]

ShownConns == [i \in DOMAIN tables["suspicious"] |-> tables["suspicious"][i].conn]

\* The job has inserted the scores, and not ended.
Showing == oa \notin {"idle", "done", "clear", "stories", "results", "scores"}

\* The first n directories of its list are cleared, and it has inserted nothing.
ClearedTo(n) == (oa = "clear" /\ clearing >= n) \/ oa \in {"stories", "results", "scores"}

\* Connections whose details are in the table, and the connections they are of.
Inserted == {c \in Conns : \E records \in RowsOf("edge") : records \in Details(c)}
EdgesAreOf(S) == \A records \in RowsOf("edge") : \E c \in S : records \in Details(c)

JobTyped ==
  /\ results \in Copies /\ mlRun \in Nat
  /\ local \in Copies \cup {None}
  /\ tables["suspicious"] \in Seq(ShownRows) /\ tables["edge"] \in Seq(SUBSET Conns)
  /\ clearing \in Nat
  /\ oa \in OAEnded => clearing = 0
  /\ scores \in Seq(Conns) /\ IsInjective(scores)
  /\ edges \in Seq(Conns)
  /\ oa = "scores" => local \in Copies
  /\ edges # << >> => Showing

\* What the children of killed jobs have left to do is of connections noted as left.
StraysTyped ==
  /\ orphans \in Seq(Seq(Conns)) /\ abandoned \subseteq Conns /\ missed \in BOOLEAN
  /\ \A i \in DOMAIN orphans : Range(orphans[i]) \subseteq abandoned

\* What is inserted and what the child has still to insert are the details of what
\* is shown, which is what the job took from one file of results, or of what a
\* killed job left to its child.
DetailsOfOneRun ==
  undeleted = 0 =>
    /\ ClearedTo(1) => tables["suspicious"] = << >>
    /\ ClearedTo(2) => EdgesAreOf(abandoned)
    /\ \A i, j \in DOMAIN tables["suspicious"] :
         tables["suspicious"][i].run = tables["suspicious"][j].run
    /\ IsInjective(ShownConns)
    /\ Showing =>
         /\ ShownConns = scores
         /\ Range(edges) \subseteq Range(scores)
         /\ EdgesAreOf(Range(scores) \cup abandoned)
         /\ ~missed => Range(scores) \subseteq Range(edges) \cup Inserted
    /\ oa = "done" =>
         /\ EdgesAreOf(Range(ShownConns) \cup abandoned)
         /\ ~missed => Range(ShownConns) \subseteq Inserted

JobInv == JobTyped /\ StraysTyped /\ DetailsOfOneRun

\* A record with such rows is one.
LEMMA IsCopy ==
  ASSUME NEW csv \in {"absent", "parts", "partial", "complete"}, NEW run \in Nat,
         NEW rows \in Seq(Conns), IsInjective(rows)
  PROVE  [csv |-> csv, run |-> run, rows |-> rows] \in Copies
BY DEF Copies

\* A step that is none of the job's.
LEMMA JobStays ==
  ASSUME JobInv, Counted, CountedOn, UNCHANGED jobVars,
         tables'["suspicious"] = tables["suspicious"], tables'["edge"] = tables["edge"],
         results' \in Copies, mlRun' \in Nat
  PROVE  JobInv'
<1>1. /\ undeleted' = 0 => undeleted = 0
      /\ UNCHANGED <<oa, clearing, local, scores, edges, orphans, abandoned, missed>>
      /\ ShownConns' = ShownConns /\ Showing' = Showing
  BY DEF CountedOn, Counted, jobVars, childVars, strayVars, ShownConns, Showing
<1>2. JobTyped' /\ StraysTyped'
  BY <1>1 DEF JobInv, JobTyped, StraysTyped, Showing
<1>3. RowsOf("edge")' = RowsOf("edge") /\ Inserted' = Inserted
  BY DEF RowsOf, Inserted
<1>4. DetailsOfOneRun'
  BY <1>1, <1>3 DEF JobInv, DetailsOfOneRun, ClearedTo, EdgesAreOf
<1> QED BY <1>2, <1>4 DEF JobInv

\* The steps of the machine learning job.
LEMMA MLStays ==
  ASSUME JobInv, Counted, MLStep, UNCHANGED jobVars
  PROVE  JobInv' /\ CountedOn /\ UNCHANGED <<tables, stories, feedback, acked, cleared>>
<1>1. UNCHANGED <<tables, stories, feedback, acked, cleared>>
  BY DEF MLStep, MLStart, RemoveScores, Train, Save, MergeBegins, MergeEnds, MLFails,
         storeVars, fileVars, history
<1>2. CountedOn
  <2>1. Starts \/ Fault \/ Undeleted \/ UNCHANGED bounds
    BY DEF MLStep, MLStart, RemoveScores, Train, Save, MergeBegins, MergeEnds, MLFails,
           storeVars
  <2> QED BY <2>1, OneIsCounted
<1>3. NoResults \in Copies /\ [NoResults EXCEPT !.csv = "parts"] \in Copies
  <2>1. << >> \in Seq(Conns) /\ IsInjective(<< >>)
    BY DEF IsInjective
  <2>2. [NoResults EXCEPT !.csv = "parts"] = [csv |-> "parts", run |-> 0, rows |-> << >>]
    BY DEF NoResults
  <2>3. \A csv \in {"absent", "parts"} : [csv |-> csv, run |-> 0, rows |-> << >>] \in Copies
    BY <2>1, IsCopy
  <2> QED BY <2>2, <2>3 DEF NoResults
<1>4. results' \in Copies /\ mlRun' \in Nat
  <2>1. results \in Copies /\ mlRun \in Nat
    BY DEF JobInv, JobTyped
  <2>2. CASE MergeBegins
    <3>1. PICK found \in Results : \E n \in 0 .. Len(found) :
            results' = [csv |-> "partial", run |-> mlRun, rows |-> SubSeq(found, 1, n)]
      BY <2>2 DEF MergeBegins
    <3>2. found \in Seq(Conns) /\ IsInjective(found)
      BY ResultsAssumption
    <3>3. \A n \in 0 .. Len(found) :
            SubSeq(found, 1, n) \in Seq(Conns) /\ IsInjective(SubSeq(found, 1, n))
      BY <3>2 DEF IsInjective
    <3>4. results' \in Copies
      BY <2>1, <3>1, <3>3, IsCopy
    <3> QED BY <2>1, <2>2, <3>4 DEF MergeBegins, mlVars
  <2>3. CASE MergeEnds
    <3>1. PICK found \in Results :
            results' = [results EXCEPT !.csv = "complete", !.rows = found]
      BY <2>3 DEF MergeEnds
    <3>2. found \in Seq(Conns) /\ IsInjective(found)
      BY ResultsAssumption
    <3> QED BY <2>1, <2>3, <3>1, <3>2 DEF MergeEnds, Copies
  <2>4. CASE MLStart
    BY <2>1, <2>4 DEF MLStart, fileVars, Counted
  <2>5. CASE RemoveScores \/ Train \/ Save \/ MLFails
    BY <1>3, <2>1, <2>5 DEF RemoveScores, Train, Save, MLFails, storeVars, fileVars
  <2> QED BY <2>2, <2>3, <2>4, <2>5 DEF MLStep
<1> QED BY <1>1, <1>2, <1>4, JobStays

\* The job starts, and begins to clear.
LEMMA JobStartsStep ==
  ASSUME JobInv, Counted, mlRun' = mlRun, JobStarts
  PROVE  JobInv' /\ CountedOn
<1>1. /\ oa \in OAEnded /\ oa' = "clear"
      /\ UNCHANGED <<clearing, local, scores, edges, orphans, abandoned, tables, results>>
      /\ missed' = FALSE
  BY DEF JobStarts, strayVars, fileVars
<1>2. CountedOn
  BY OneIsCounted DEF JobStarts
<1>3. JobTyped' /\ StraysTyped'
  BY <1>1 DEF JobInv, JobTyped, StraysTyped, OAEnded, Showing
<1>4. clearing' = 0 /\ ~Showing' /\ ShownConns' = ShownConns
  BY <1>1 DEF JobInv, JobTyped, Showing, ShownConns
<1>5. ~ClearedTo(1)' /\ ~ClearedTo(2)'
  BY <1>1, <1>4 DEF ClearedTo
<1>6. undeleted' = 0 => undeleted = 0
  BY <1>2 DEF CountedOn, Counted
<1>7. DetailsOfOneRun'
  BY <1>1, <1>4, <1>5, <1>6 DEF JobInv, DetailsOfOneRun
<1> QED BY <1>2, <1>3, <1>7 DEF JobInv

\* It clears the next directory; the first two are those of the scores and of the
\* details.
LEMMA JobClearsStep ==
  ASSUME JobInv, Counted, mlRun' = mlRun, DOMAIN tables = Tables,
         NEW list \in Seq(Tables \cup {Nowhere}),
         list[1] = "suspicious", list[2] = "edge", JobClears(list)
  PROVE  JobInv'
<1>1. /\ oa = "clear" /\ clearing < Len(list) /\ clearing' = clearing + 1
      /\ Clear(list[clearing + 1])
      /\ UNCHANGED <<oa, local, scores, edges, orphans, abandoned, missed, results>>
  BY DEF JobClears, childVars, strayVars, fileVars
<1>2. clearing \in Nat /\ Len(list) \in Nat
  BY DEF JobInv, JobTyped
<1>3. list[clearing + 1] \in Tables \cup {Nowhere}
  BY <1>1, <1>2
<1>4. {"suspicious", "edge"} \subseteq Tables
  BY DayAssumption
<1>5. /\ CountedOn
      /\ \A t \in {"suspicious", "edge"} :
           /\ tables'[t] \in {tables[t], << >>}
           /\ undeleted' = 0 /\ t = list[clearing + 1] => tables'[t] = << >>
  BY <1>1, <1>3, <1>4, ClearEmpties
<1>6. undeleted' = 0 => undeleted = 0
  BY <1>5 DEF CountedOn, Counted
<1>7. JobTyped' /\ StraysTyped'
  <2>1. << >> \in Seq(ShownRows) /\ << >> \in Seq(SUBSET Conns)
    OBVIOUS
  <2>2. clearing' \in Nat
    BY <1>1, <1>2
  <2>3. tables'["suspicious"] \in Seq(ShownRows) /\ tables'["edge"] \in Seq(SUBSET Conns)
    BY <1>5, <2>1 DEF JobInv, JobTyped
  <2> QED BY <1>1, <2>2, <2>3 DEF JobInv, JobTyped, StraysTyped, OAEnded, Showing
<1>8. DetailsOfOneRun'
  <2>1. SUFFICES ASSUME undeleted' = 0 PROVE DetailsOfOneRun'
    BY DEF DetailsOfOneRun
  <2>2. ~Showing' /\ oa' # "done"
    BY <1>1 DEF Showing
  <2>3. tables'["suspicious"] = << >>
    <3>1. CASE clearing = 0
      BY <1>2, <1>5, <2>1, <3>1
    <3>2. CASE clearing # 0
      <4>1. tables["suspicious"] = << >>
        BY <1>1, <1>2, <1>6, <2>1, <3>2 DEF JobInv, DetailsOfOneRun, ClearedTo
      <4> QED BY <1>5, <4>1
    <3> QED BY <3>1, <3>2
  <2>4. ClearedTo(2)' => EdgesAreOf(abandoned)'
    <3>1. SUFFICES ASSUME clearing >= 1 PROVE EdgesAreOf(abandoned)'
      BY <1>1, <1>2 DEF ClearedTo
    <3>2. CASE tables'["edge"] = << >>
      BY <3>2 DEF EdgesAreOf, RowsOf, Range
    <3>3. CASE tables'["edge"] # << >>
      <4>1. clearing >= 2 /\ tables'["edge"] = tables["edge"]
        BY <1>2, <1>5, <2>1, <3>1, <3>3
      <4>2. EdgesAreOf(abandoned)
        BY <1>1, <1>2, <1>6, <2>1, <4>1 DEF JobInv, DetailsOfOneRun, ClearedTo
      <4> QED BY <1>1, <4>1, <4>2 DEF EdgesAreOf, RowsOf
    <3> QED BY <3>2, <3>3
  <2>5. DOMAIN tables'["suspicious"] = {} /\ DOMAIN ShownConns' = {}
    BY <2>3 DEF ShownConns
  <2> QED BY <2>2, <2>3, <2>4, <2>5 DEF DetailsOfOneRun, IsInjective
<1> QED BY <1>7, <1>8 DEF JobInv

\* It goes on from one step of the preparation to the next, having cleared all.
LEMMA JobPrepares ==
  ASSUME JobInv, Counted, mlRun' = mlRun, CountedOn,
         ClearedTo(2), oa' \in {"stories", "results"},
         UNCHANGED <<clearing, local, scores, childVars, tables, results>>
  PROVE  JobInv'
<1>1. clearing \in Nat /\ ClearedTo(1)
  BY DEF JobInv, JobTyped, ClearedTo
<1>2. ~Showing /\ ~Showing' /\ oa' # "done" /\ ShownConns' = ShownConns
  BY DEF Showing, ClearedTo, ShownConns
<1>3. undeleted' = 0 => undeleted = 0
  BY DEF CountedOn, Counted
<1>4. UNCHANGED <<edges, orphans, abandoned, missed>>
  BY DEF childVars, strayVars
<1>5. JobTyped' /\ StraysTyped'
  BY <1>2, <1>4 DEF JobInv, JobTyped, StraysTyped, OAEnded
<1>6. EdgesAreOf(abandoned) => EdgesAreOf(abandoned)'
  BY <1>4 DEF EdgesAreOf, RowsOf
<1>7. DetailsOfOneRun'
  BY <1>1, <1>2, <1>3, <1>6 DEF JobInv, DetailsOfOneRun
<1> QED BY <1>5, <1>7 DEF JobInv

\* It removes the feedback file and the files of the story board.
LEMMA JobClearsFilesStep ==
  ASSUME JobInv, Counted, mlRun' = mlRun, NEW list \in Seq(Tables \cup {Nowhere}),
         Len(list) >= 2, JobClearsFeedback(list) \/ JobClearsStories
  PROVE  JobInv' /\ CountedOn
<1>1. CountedOn
  <2>1. Undeleted \/ UNCHANGED bounds
    BY DEF JobClearsFeedback, JobClearsStories
  <2> QED BY <2>1, OneIsCounted
<1>2. /\ (oa = "clear" /\ clearing = Len(list)) \/ oa = "stories"
      /\ oa' \in {"stories", "results"}
      /\ UNCHANGED <<clearing, local, scores, childVars, tables, results>>
  BY DEF JobClearsFeedback, JobClearsStories
<1>3. ClearedTo(2)
  BY <1>2 DEF ClearedTo
<1> QED BY <1>1, <1>2, <1>3, JobPrepares

\* It goes on while it shows the scores.
LEMMA JobGoesOn ==
  ASSUME JobInv, Counted, CountedOn, results' \in Copies, mlRun' \in Nat,
         Showing, Showing', UNCHANGED <<clearing, local, scores, childVars>>,
         tables'["suspicious"] = tables["suspicious"], tables'["edge"] = tables["edge"]
  PROVE  JobInv'
<1>1. undeleted' = 0 => undeleted = 0
  BY DEF CountedOn, Counted
<1>2. /\ UNCHANGED <<edges, orphans, abandoned, missed>>
      /\ RowsOf("edge")' = RowsOf("edge") /\ Inserted' = Inserted
  BY DEF childVars, strayVars, RowsOf, Inserted
<1>3. /\ ShownConns' = ShownConns /\ ~ClearedTo(1)' /\ ~ClearedTo(2)'
      /\ oa' \notin OAEnded /\ oa' # "scores"
  BY DEF ShownConns, ClearedTo, Showing, OAEnded
<1>4. JobTyped' /\ StraysTyped'
  BY <1>2, <1>3 DEF JobInv, JobTyped, StraysTyped
<1>5. DetailsOfOneRun'
  BY <1>1, <1>2, <1>3 DEF JobInv, DetailsOfOneRun, EdgesAreOf, OAEnded
<1> QED BY <1>4, <1>5 DEF JobInv

\* It gets the results, and takes the first of them.
LEMMA JobGetsResultsStep ==
  ASSUME JobInv, Counted, mlRun' = mlRun, JobGetsResults
  PROVE  JobInv' /\ CountedOn
<1>1. oa = "results" /\ local' = Fetched /\ UNCHANGED <<tables, results, starts, faults, undeleted>>
      /\ UNCHANGED <<orphans, abandoned, missed>>
  BY DEF JobGetsResults, strayVars, storeVars, fileVars, bounds
<1>2. CountedOn /\ (undeleted' = 0 => undeleted = 0)
  BY <1>1 DEF Counted, CountedOn
<1>3. Fetched \in Copies \cup {None}
  BY DEF JobInv, JobTyped, Fetched
<1>4. ShownConns' = ShownConns
  BY <1>1 DEF ShownConns
<1>5. CASE Fetched = None \/ Fetched.rows = << >>
  <2>1. oa' = "idle" /\ clearing' = 0 /\ scores' = << >> /\ edges' = << >>
    BY <1>5 DEF JobGetsResults, OAExit
  <2>2. << >> \in Seq(Conns) /\ IsInjective(<< >>)
    BY DEF IsInjective
  <2>3. JobTyped' /\ StraysTyped'
    BY <1>1, <1>3, <2>1, <2>2 DEF JobInv, JobTyped, StraysTyped, OAEnded
  <2>4. ~Showing' /\ ~ClearedTo(1)' /\ ~ClearedTo(2)' /\ oa' # "done"
    BY <2>1 DEF Showing, ClearedTo
  <2>5. DetailsOfOneRun'
    BY <1>1, <1>2, <1>4, <2>4 DEF JobInv, DetailsOfOneRun
  <2> QED BY <1>2, <2>3, <2>5 DEF JobInv
<1>6. CASE ~(Fetched = None \/ Fetched.rows = << >>)
  <2>1. /\ oa' = "scores" /\ clearing' = 0
        /\ scores' = FirstRows(Fetched.rows) /\ edges' = edges
    BY <1>6 DEF JobGetsResults
  <2>2. Fetched \in Copies /\ Fetched.rows \in Seq(Conns) /\ IsInjective(Fetched.rows)
    BY <1>3, <1>6 DEF Copies
  <2>3. FirstRows(Fetched.rows) \in Seq(Conns) /\ IsInjective(FirstRows(Fetched.rows))
    <3>1. PICK rows \in Seq(Conns) : rows = Fetched.rows
      BY <2>2
    <3>2. FirstRows(rows) \in Seq(Conns)
      BY LimitAssumption DEF FirstRows
    <3>3. /\ DOMAIN FirstRows(rows) \subseteq DOMAIN rows
          /\ \A i \in DOMAIN FirstRows(rows) : FirstRows(rows)[i] = rows[i]
      BY LimitAssumption DEF FirstRows
    <3> QED BY <2>2, <3>1, <3>2, <3>3 DEF IsInjective
  <2>4. edges = << >>
    BY <1>1 DEF JobInv, JobTyped, Showing
  <2>5. JobTyped' /\ StraysTyped'
    BY <1>1, <2>1, <2>2, <2>3, <2>4 DEF JobInv, JobTyped, StraysTyped, OAEnded
  <2>6. ~Showing' /\ oa' # "done" /\ ClearedTo(1) /\ ClearedTo(2)
    BY <1>1, <2>1 DEF Showing, ClearedTo
  <2>7. EdgesAreOf(abandoned) => EdgesAreOf(abandoned)'
    BY <1>1 DEF EdgesAreOf, RowsOf
  <2>8. DetailsOfOneRun'
    BY <1>1, <1>2, <1>4, <2>6, <2>7 DEF JobInv, DetailsOfOneRun
  <2> QED BY <1>2, <2>5, <2>8 DEF JobInv
<1> QED BY <1>5, <1>6

\* It inserts them, and their details are to be inserted.
LEMMA JobInsertsScoresStep ==
  ASSUME JobInv, Counted, mlRun' = mlRun, DOMAIN tables = Tables,
         NEW next \in {"details", "summary"}, JobInsertsScores(next)
  PROVE  JobInv' /\ CountedOn
<1> DEFINE inserted == [i \in DOMAIN scores |-> [conn |-> scores[i], run |-> local.run]]
<1>1. /\ oa = "scores" /\ Insert("suspicious", inserted) /\ oa' = next /\ edges' = scores
      /\ UNCHANGED <<clearing, local, scores, results, starts, faults, undeleted>>
      /\ UNCHANGED <<orphans, abandoned, missed>>
  BY DEF JobInsertsScores, strayVars, fileVars, bounds
<1>2. CountedOn /\ (undeleted' = 0 => undeleted = 0)
  BY <1>1 DEF Counted, CountedOn
<1>3. scores \in Seq(Conns) /\ IsInjective(scores) /\ local \in Copies /\ local.run \in Nat
  BY <1>1 DEF JobInv, JobTyped, Copies
<1>4. /\ inserted \in Seq(ShownRows) /\ DOMAIN inserted = DOMAIN scores
      /\ \A i \in DOMAIN scores : inserted[i].conn = scores[i] /\ inserted[i].run = local.run
  <2>1. DOMAIN scores = 1 .. Len(scores) /\ Len(scores) \in Nat
    BY <1>3
  <2>2. \A i \in DOMAIN scores : scores[i] \in Conns
    BY <1>3
  <2>3. \A i \in 1 .. Len(scores) : inserted[i] \in ShownRows
    BY <1>3, <2>1, <2>2 DEF ShownRows
  <2>4. DOMAIN inserted = 1 .. Len(scores) /\ inserted = [i \in 1 .. Len(scores) |-> inserted[i]]
    BY <2>1
  <2>5. inserted \in [1 .. Len(scores) -> ShownRows]
    BY <2>3, <2>4
  <2>6. inserted \in Seq(ShownRows)
    <3> HIDE DEF inserted
    <3> QED BY <2>1, <2>5
  <2> QED BY <2>6
<1>5. /\ tables'["suspicious"] = tables["suspicious"] \o inserted
      /\ tables'["edge"] = tables["edge"]
  BY <1>1, InsertAppends, DayAssumption
<1> HIDE DEF inserted
<1>6. JobTyped' /\ StraysTyped'
  <2>1. tables'["suspicious"] \in Seq(ShownRows)
    BY <1>4, <1>5, ConcatIs DEF JobInv, JobTyped
  <2> QED BY <1>1, <1>3, <1>5, <2>1 DEF JobInv, JobTyped, StraysTyped, Showing, OAEnded
<1>7. DetailsOfOneRun'
  <2>1. SUFFICES ASSUME undeleted = 0 PROVE DetailsOfOneRun'
    BY <1>2 DEF DetailsOfOneRun
  <2>2. tables["suspicious"] = << >> /\ EdgesAreOf(abandoned)
    BY <1>1, <2>1 DEF JobInv, DetailsOfOneRun, ClearedTo
  <2>3. tables'["suspicious"] = inserted
    BY <1>4, <1>5, <2>2
  <2>4. ShownConns' = scores
    <3>1. DOMAIN scores = 1 .. Len(scores) /\ scores = [i \in DOMAIN scores |-> scores[i]]
      BY <1>3
    <3> QED BY <1>4, <2>3, <3>1 DEF ShownConns
  <2>5. \A i, j \in DOMAIN tables'["suspicious"] :
          tables'["suspicious"][i].run = tables'["suspicious"][j].run
    BY <1>4, <2>3
  <2>6. EdgesAreOf(Range(scores) \cup abandoned)' /\ Range(edges') = Range(scores')
    BY <1>1, <1>5, <2>2 DEF EdgesAreOf, RowsOf
  <2>7. ~ClearedTo(1)' /\ ~ClearedTo(2)' /\ oa' # "done"
    BY <1>1 DEF ClearedTo
  <2> QED BY <1>1, <1>3, <2>4, <2>5, <2>6, <2>7 DEF DetailsOfOneRun
<1> QED BY <1>2, <1>6, <1>7 DEF JobInv

\* What is inserted of one connection is added to the details.
LEMMA EdgeIsInserted ==
  ASSUME JobInv, DOMAIN tables = Tables, NEW c \in Conns, NEW records \in Details(c),
         Insert("edge", << records >>)
  PROVE  /\ tables'["edge"] \in Seq(SUBSET Conns)
         /\ tables'["suspicious"] = tables["suspicious"]
         /\ RowsOf("edge")' = RowsOf("edge") \cup {records}
         /\ Inserted' \subseteq Conns /\ Inserted \cup {c} \subseteq Inserted'
<1> DEFINE old == tables["edge"]
<1>1. records \in SUBSET Conns
  BY AlikeAssumption DEF Details
<1>2. tables'["edge"] = old \o << records >> /\ tables'["suspicious"] = tables["suspicious"]
  BY InsertAppends, DayAssumption
<1>3. old \in Seq(SUBSET Conns) /\ << records >> \in Seq(SUBSET Conns)
  BY <1>1 DEF JobInv, JobTyped
<1>4. Range(<< records >>) = {records}
  BY DEF Range
<1> HIDE DEF old
<1>5. old \o << records >> \in Seq(SUBSET Conns)
      /\ Range(old \o << records >>) = Range(old) \cup {records}
  <2>1. \A r \in Seq(SUBSET Conns) :
          old \o r \in Seq(SUBSET Conns) /\ Range(old \o r) = Range(old) \cup Range(r)
    BY <1>3, ConcatIs
  <2> QED BY <1>3, <1>4, <2>1
<1>6. RowsOf("edge")' = RowsOf("edge") \cup {records}
  BY <1>2, <1>5 DEF RowsOf, old
<1>7. Inserted' = {d \in Conns : \E x \in RowsOf("edge")' : x \in Details(d)}
  BY DEF Inserted
<1>8. Inserted \cup {c} \subseteq Inserted' /\ Inserted' \subseteq Conns
  BY <1>6, <1>7 DEF Inserted
<1> QED BY <1>2, <1>5, <1>6, <1>8

\* The child inserts the details of the next connection.
LEMMA JobInsertsEdgeStep ==
  ASSUME JobInv, Counted, mlRun' = mlRun, DOMAIN tables = Tables, JobInsertsEdge
  PROVE  JobInv' /\ CountedOn
<1> DEFINE head == Head(edges)
           tail == Tail(edges)
<1>1. /\ edges # << >> /\ edges' = tail
      /\ UNCHANGED <<oa, clearing, local, scores, results, starts, faults, undeleted>>
      /\ UNCHANGED <<orphans, abandoned, missed>>
  BY DEF JobInsertsEdge, NextEdge, strayVars, fileVars, bounds
<1>2. CountedOn /\ (undeleted' = 0 => undeleted = 0)
  BY <1>1 DEF Counted, CountedOn
<1>3. edges \in Seq(Conns) /\ Showing
  BY <1>1 DEF JobInv, JobTyped
<1>4. head \in Conns /\ tail \in Seq(Conns) /\ Range(edges) = {head} \cup Range(tail)
  BY <1>1, <1>3, HeadAndTail
<1>5. PICK records \in Details(head) : Insert("edge", << records >>)
  BY DEF JobInsertsEdge
<1> HIDE DEF head, tail
<1>6. /\ tables'["edge"] \in Seq(SUBSET Conns)
      /\ tables'["suspicious"] = tables["suspicious"]
      /\ RowsOf("edge")' = RowsOf("edge") \cup {records}
      /\ Inserted \cup {head} \subseteq Inserted'
  BY <1>4, <1>5, EdgeIsInserted
<1>7. ShownConns' = ShownConns /\ Showing'
      /\ oa' \notin OAEnded /\ oa' # "scores" /\ ~ClearedTo(1)' /\ ~ClearedTo(2)'
  BY <1>1, <1>3, <1>6 DEF ShownConns, Showing, ClearedTo, OAEnded
<1>8. JobTyped' /\ StraysTyped'
  BY <1>1, <1>4, <1>6, <1>7 DEF JobInv, JobTyped, StraysTyped
<1>9. DetailsOfOneRun'
  <2>1. SUFFICES ASSUME undeleted = 0 PROVE DetailsOfOneRun'
    BY <1>2 DEF DetailsOfOneRun
  <2>2. /\ Range(edges) \subseteq Range(scores)
        /\ EdgesAreOf(Range(scores) \cup abandoned)
        /\ ~missed => Range(scores) \subseteq Range(edges) \cup Inserted
        /\ ShownConns = scores /\ IsInjective(ShownConns)
        /\ \A i, j \in DOMAIN tables["suspicious"] :
             tables["suspicious"][i].run = tables["suspicious"][j].run
    BY <1>3, <2>1 DEF JobInv, DetailsOfOneRun
  <2>3. EdgesAreOf(Range(scores) \cup abandoned)'
    <3>1. head \in Range(scores)
      BY <1>4, <2>2
    <3> QED BY <1>1, <1>5, <1>6, <2>2, <3>1 DEF EdgesAreOf
  <2>4. ~missed' => Range(scores') \subseteq Range(edges') \cup Inserted'
    BY <1>1, <1>4, <1>6, <2>2
  <2>5. Range(edges') \subseteq Range(scores')
    BY <1>1, <1>4, <2>2
  <2> QED BY <1>1, <1>6, <1>7, <2>2, <2>3, <2>4, <2>5 DEF DetailsOfOneRun, OAEnded
<1> QED BY <1>2, <1>8, <1>9 DEF JobInv

\* What the child does not insert: one connection that it skips, or all that are
\* left when it ends.
LEMMA EdgesAreLost ==
  ASSUME JobInv, Counted, mlRun' = mlRun, edges # << >>, Fault,
         edges' \in {Tail(edges), << >>}, missed' = TRUE,
         UNCHANGED <<oa, clearing, local, scores, strayVars, tables, results>>
  PROVE  JobInv' /\ CountedOn
<1>1. CountedOn
  BY OneIsCounted
<1>2. undeleted' = 0 => undeleted = 0
  BY <1>1 DEF Counted, CountedOn
<1>3. edges \in Seq(Conns) /\ Showing
  BY DEF JobInv, JobTyped
<1>4. edges' \in Seq(Conns) /\ Range(edges') \subseteq Range(edges)
  <2>1. << >> \in Seq(Conns) /\ Range(<< >>) = {}
    BY DEF Range
  <2>2. Tail(edges) \in Seq(Conns) /\ Range(Tail(edges)) \subseteq Range(edges)
    BY <1>3, HeadAndTail
  <2> QED BY <2>1, <2>2
<1>5. /\ ShownConns' = ShownConns /\ Showing' /\ ~ClearedTo(1)' /\ ~ClearedTo(2)'
      /\ oa' \notin OAEnded /\ oa' # "scores"
  BY <1>3 DEF ShownConns, Showing, ClearedTo, OAEnded
<1>6. JobTyped' /\ StraysTyped'
  BY <1>4, <1>5 DEF JobInv, JobTyped, StraysTyped, strayVars
<1>7. DetailsOfOneRun'
  <2>1. RowsOf("edge")' = RowsOf("edge") /\ abandoned' = abandoned
    BY DEF RowsOf, strayVars
  <2> QED BY <1>2, <1>3, <1>4, <1>5, <2>1 DEF JobInv, DetailsOfOneRun, EdgesAreOf, OAEnded
<1> QED BY <1>1, <1>6, <1>7 DEF JobInv

\* A child of another kind does not do all of its work.
LEMMA WorkIsMissed ==
  ASSUME JobInv, Counted, mlRun' = mlRun, Fault, missed' = TRUE,
         UNCHANGED <<oa, clearing, local, scores, edges, strayVars, tables, results>>
  PROVE  JobInv' /\ CountedOn
<1>1. CountedOn /\ (undeleted' = 0 => undeleted = 0)
  BY OneIsCounted DEF Counted, CountedOn
<1>2. /\ ShownConns' = ShownConns /\ Showing' = Showing
      /\ ClearedTo(1)' = ClearedTo(1) /\ ClearedTo(2)' = ClearedTo(2)
      /\ RowsOf("edge")' = RowsOf("edge") /\ abandoned' = abandoned
  BY DEF ShownConns, Showing, ClearedTo, RowsOf, strayVars
<1>3. JobTyped' /\ StraysTyped'
  BY <1>2 DEF JobInv, JobTyped, StraysTyped, strayVars
<1>4. DetailsOfOneRun'
  BY <1>1, <1>2 DEF JobInv, DetailsOfOneRun, EdgesAreOf
<1> QED BY <1>1, <1>3, <1>4 DEF JobInv

\* It ends well when its children have.
LEMMA JobEnds ==
  ASSUME JobInv, Counted, CountedOn, mlRun' = mlRun, Showing, edges = << >>,
         NEW outcome \in OAEnded, OAExit(outcome),
         UNCHANGED <<local, strayVars, missed, results>>,
         tables'["suspicious"] = tables["suspicious"], tables'["edge"] = tables["edge"]
  PROVE  JobInv'
<1>1. undeleted' = 0 => undeleted = 0
  BY DEF CountedOn, Counted
<1>2. /\ UNCHANGED <<orphans, abandoned, missed>>
      /\ RowsOf("edge")' = RowsOf("edge") /\ Inserted' = Inserted
  BY DEF strayVars, RowsOf, Inserted
<1>3. oa' = outcome /\ clearing' = 0 /\ scores' = << >> /\ edges' = << >>
  BY DEF OAExit
<1>4. << >> \in Seq(Conns) /\ IsInjective(<< >>)
  BY DEF IsInjective
<1>5. ShownConns' = ShownConns /\ ~Showing' /\ ~ClearedTo(1)' /\ ~ClearedTo(2)' /\ oa' # "scores"
  BY <1>3 DEF ShownConns, Showing, ClearedTo, OAEnded
<1>6. JobTyped' /\ StraysTyped'
  BY <1>2, <1>3, <1>4, <1>5 DEF JobInv, JobTyped, StraysTyped
<1>7. Range(edges) = {}
  BY DEF Range
<1>8. DetailsOfOneRun'
  BY <1>1, <1>2, <1>5, <1>7 DEF JobInv, DetailsOfOneRun, EdgesAreOf
<1> QED BY <1>6, <1>8 DEF JobInv

\* It fails or is interrupted with its child, or is killed and leaves it.
LEMMA JobIsGone ==
  ASSUME JobInv, Counted, mlRun' = mlRun, Fault, OAExit("idle"), StraysTyped',
         UNCHANGED <<local, tables, results>>
  PROVE  JobInv' /\ CountedOn
<1>1. CountedOn
  BY OneIsCounted
<1>2. undeleted' = 0 => undeleted = 0
  BY <1>1 DEF CountedOn, Counted
<1>3. oa' = "idle" /\ clearing' = 0 /\ scores' = << >> /\ edges' = << >>
  BY DEF OAExit
<1>4. << >> \in Seq(Conns) /\ IsInjective(<< >>)
  BY DEF IsInjective
<1>5. ShownConns' = ShownConns /\ ~Showing' /\ ~ClearedTo(1)' /\ ~ClearedTo(2)' /\ oa' # "done"
  BY <1>3 DEF ShownConns, Showing, ClearedTo
<1>6. JobTyped'
  BY <1>3, <1>4, <1>5 DEF JobInv, JobTyped
<1>7. DetailsOfOneRun'
  BY <1>2, <1>3, <1>5 DEF JobInv, DetailsOfOneRun
<1> QED BY <1>1, <1>6, <1>7 DEF JobInv

LEMMA JobFailsStep ==
  ASSUME JobInv, Counted, mlRun' = mlRun, JobFails
  PROVE  JobInv' /\ CountedOn
<1>1. StraysTyped'
  BY DEF JobInv, StraysTyped, JobFails, strayVars
<1> QED BY <1>1, JobIsGone DEF JobFails, fileVars

LEMMA JobKilledStep ==
  ASSUME JobInv, Counted, mlRun' = mlRun, JobKilled
  PROVE  JobInv' /\ CountedOn
<1>1. /\ orphans' \in {orphans, Append(orphans, edges)}
      /\ abandoned' = abandoned \cup Range(edges) /\ missed' = missed
  BY DEF JobKilled, LeftTo
<1>2. /\ edges \in Seq(Conns) /\ orphans \in Seq(Seq(Conns)) /\ missed \in BOOLEAN
      /\ abandoned \subseteq Conns /\ \A i \in DOMAIN orphans : Range(orphans[i]) \subseteq abandoned
  BY DEF JobInv, JobTyped, StraysTyped
<1>3. abandoned' \subseteq Conns
  BY <1>1, <1>2 DEF Range
<1>4. Append(orphans, edges) \in Seq(Seq(Conns))
  BY <1>2
<1>5. \A i \in DOMAIN orphans' : orphans'[i] = edges \/ (i \in DOMAIN orphans /\ orphans'[i] = orphans[i])
  <2>1. PICK os \in Seq(Seq(Conns)) : os = orphans
    BY <1>2
  <2>2. PICK es \in Seq(Conns) : es = edges
    BY <1>2
  <2>3. \A i \in DOMAIN Append(os, es) :
          Append(os, es)[i] = es \/ (i \in DOMAIN os /\ Append(os, es)[i] = os[i])
    OBVIOUS
  <2> QED BY <1>1, <2>1, <2>2, <2>3
<1>6. StraysTyped'
  BY <1>1, <1>2, <1>3, <1>4, <1>5 DEF StraysTyped
<1> QED BY <1>6, JobIsGone DEF JobKilled, fileVars

\* A child whose job was killed inserts on, whatever day it finds.
LEMMA OrphanInsertsEdgeStep ==
  ASSUME JobInv, Counted, mlRun' = mlRun, DOMAIN tables = Tables, OrphanInsertsEdge
  PROVE  JobInv' /\ CountedOn
<1>1. /\ UNCHANGED <<oa, clearing, local, scores, edges, results, starts, faults, undeleted>>
      /\ UNCHANGED <<abandoned, missed>>
  BY DEF OrphanInsertsEdge, fileVars, bounds
<1>2. CountedOn /\ (undeleted' = 0 => undeleted = 0)
  BY <1>1 DEF Counted, CountedOn
<1>3. PICK i \in DOMAIN orphans :
        /\ orphans[i] # << >>
        /\ \E records \in Details(Head(orphans[i])) : Insert("edge", << records >>)
        /\ orphans' = [orphans EXCEPT ![i] = Tail(@)]
  BY DEF OrphanInsertsEdge
<1>4. PICK work \in Seq(Conns) : work = orphans[i] /\ work # << >>
  BY <1>3 DEF JobInv, StraysTyped
<1>5. /\ Head(work) \in Conns /\ Tail(work) \in Seq(Conns)
      /\ Range(work) = {Head(work)} \cup Range(Tail(work))
  BY <1>4, HeadAndTail
<1>6. PICK c \in Conns : c = Head(work)
  BY <1>5
<1>7. PICK records \in Details(c) : Insert("edge", << records >>)
  BY <1>3, <1>4, <1>6
<1>8. /\ tables'["edge"] \in Seq(SUBSET Conns)
      /\ tables'["suspicious"] = tables["suspicious"]
      /\ RowsOf("edge")' = RowsOf("edge") \cup {records}
      /\ Inserted \subseteq Inserted'
  BY <1>7, EdgeIsInserted
<1>9. c \in abandoned
  BY <1>4, <1>5, <1>6 DEF JobInv, StraysTyped
<1>10. ShownConns' = ShownConns /\ Showing' = Showing
       /\ ClearedTo(1)' = ClearedTo(1) /\ ClearedTo(2)' = ClearedTo(2)
  BY <1>1, <1>8 DEF ShownConns, Showing, ClearedTo
<1>11. JobTyped'
  BY <1>1, <1>8, <1>10 DEF JobInv, JobTyped
<1>12. StraysTyped'
  <2>1. \A j \in DOMAIN orphans : orphans'[j] = IF j = i THEN Tail(work) ELSE orphans[j]
    BY <1>3, <1>4
  <2>2. DOMAIN orphans' = DOMAIN orphans
    BY <1>3
  <2>3. orphans' \in Seq(Seq(Conns))
    BY <1>3, <1>4, <1>5 DEF JobInv, StraysTyped
  <2>4. \A j \in DOMAIN orphans' : Range(orphans'[j]) \subseteq abandoned
    BY <1>4, <1>5, <2>1, <2>2 DEF JobInv, StraysTyped
  <2> QED BY <1>1, <2>3, <2>4 DEF JobInv, StraysTyped
<1>13. \A S : EdgesAreOf(S) /\ abandoned \subseteq S => \A x \in RowsOf("edge")' : \E d \in S : x \in Details(d)
  BY <1>7, <1>8, <1>9 DEF EdgesAreOf
<1>14. DetailsOfOneRun'
  <2>1. SUFFICES ASSUME undeleted = 0 PROVE DetailsOfOneRun'
    BY <1>2 DEF DetailsOfOneRun
  <2>2. ClearedTo(2) => EdgesAreOf(abandoned)'
    <3>1. ClearedTo(2) => EdgesAreOf(abandoned)
      BY <2>1 DEF JobInv, DetailsOfOneRun
    <3> QED BY <1>1, <1>13, <3>1 DEF EdgesAreOf
  <2>3. Showing => EdgesAreOf(Range(scores) \cup abandoned)'
    <3>1. Showing => EdgesAreOf(Range(scores) \cup abandoned)
      BY <2>1 DEF JobInv, DetailsOfOneRun
    <3>2. EdgesAreOf(Range(scores) \cup abandoned)' <=>
            \A x \in RowsOf("edge")' : \E d \in Range(scores) \cup abandoned : x \in Details(d)
      BY <1>1 DEF EdgesAreOf
    <3> QED BY <1>13, <3>1, <3>2
  <2>4. oa = "done" => EdgesAreOf(Range(ShownConns) \cup abandoned)'
    <3>1. oa = "done" => EdgesAreOf(Range(ShownConns) \cup abandoned)
      BY <2>1 DEF JobInv, DetailsOfOneRun
    <3>2. EdgesAreOf(Range(ShownConns) \cup abandoned)' <=>
            \A x \in RowsOf("edge")' : \E d \in Range(ShownConns) \cup abandoned : x \in Details(d)
      BY <1>1, <1>10 DEF EdgesAreOf
    <3> QED BY <1>13, <3>1, <3>2
  <2> QED BY <1>1, <1>8, <1>10, <2>1, <2>2, <2>3, <2>4 DEF JobInv, DetailsOfOneRun
<1> QED BY <1>2, <1>11, <1>12, <1>14 DEF JobInv

LEMMA OrphanDiesStep ==
  ASSUME JobInv, Counted, mlRun' = mlRun, OrphanDies
  PROVE  JobInv' /\ CountedOn
<1>1. /\ UNCHANGED <<oa, clearing, local, scores, edges, tables, results, starts, faults, undeleted>>
      /\ UNCHANGED <<abandoned, missed>>
  BY DEF OrphanDies, storeVars, fileVars, bounds
<1>2. CountedOn /\ (undeleted' = 0 => undeleted = 0)
  BY <1>1 DEF Counted, CountedOn
<1>3. PICK i \in DOMAIN orphans : orphans' = [orphans EXCEPT ![i] = << >>]
  BY DEF OrphanDies
<1>4. StraysTyped'
  <2>1. << >> \in Seq(Conns) /\ Range(<< >>) = {}
    BY DEF Range
  <2>2. DOMAIN orphans' = DOMAIN orphans /\ \A j \in DOMAIN orphans : orphans'[j] \in {<< >>, orphans[j]}
    BY <1>3
  <2>3. orphans' \in Seq(Seq(Conns))
    BY <1>3, <2>1 DEF JobInv, StraysTyped
  <2> QED BY <1>1, <2>1, <2>2, <2>3 DEF JobInv, StraysTyped
<1>5. JobTyped'
  BY <1>1 DEF JobInv, JobTyped, Showing
<1>6. /\ ShownConns' = ShownConns /\ Showing' = Showing
      /\ ClearedTo(1)' = ClearedTo(1) /\ ClearedTo(2)' = ClearedTo(2)
      /\ RowsOf("edge")' = RowsOf("edge") /\ Inserted' = Inserted
  BY <1>1 DEF ShownConns, Showing, ClearedTo, RowsOf, Inserted
<1>7. DetailsOfOneRun'
  BY <1>1, <1>2, <1>6 DEF JobInv, DetailsOfOneRun, EdgesAreOf
<1> QED BY <1>2, <1>4, <1>5, <1>7 DEF JobInv

\* At first.
LEMMA JobInvInit ==
  ASSUME StoreInit, MLInit, JobInit
  PROVE  JobInv /\ Counted /\ DOMAIN tables = Tables
<1>1. /\ << >> \in Seq(Conns) /\ << >> \in Seq(ShownRows) /\ << >> \in Seq(SUBSET Conns)
      /\ << >> \in Seq(Seq(Conns)) /\ IsInjective(<< >>)
  BY DEF IsInjective
<1>2. tables["suspicious"] = << >> /\ tables["edge"] = << >>
  BY DayAssumption DEF StoreInit
<1>3. results \in Copies
  BY <1>1, IsCopy DEF StoreInit, NoResults
<1>4. JobTyped
  BY <1>1, <1>2, <1>3 DEF JobTyped, MLInit, JobInit, OAEnded
<1>5. StraysTyped
  <2>1. orphans \in Seq(Seq(Conns)) /\ abandoned \subseteq Conns /\ DOMAIN orphans = {}
    BY <1>1 DEF JobInit
  <2>2. missed \in BOOLEAN
    BY DEF JobInit
  <2> QED BY <2>1, <2>2 DEF StraysTyped
<1>6. DOMAIN ShownConns = {}
  BY <1>2 DEF ShownConns
<1>7. DetailsOfOneRun
  BY <1>2, <1>6 DEF DetailsOfOneRun, JobInit, ClearedTo, Showing, IsInjective
<1> QED BY <1>4, <1>5, <1>7 DEF JobInv, StoreInit, Counted

\* What a job leaves whose children have done all of their work, and what it holds
\* once it cleared the day.
LEMMA DetailsAreShown ==
  ASSUME JobInv, undeleted = 0
  PROVE  /\ oa = "done" /\ ~missed => Range(ShownConns) \subseteq Inserted
         /\ oa \notin {"idle", "clear"} => EdgesAreOf(Range(ShownConns) \cup abandoned)
         /\ \A i, j \in DOMAIN tables["suspicious"] :
              /\ tables["suspicious"][i].run = tables["suspicious"][j].run
              /\ i # j => tables["suspicious"][i].conn # tables["suspicious"][j].conn
<1>1. oa = "done" /\ ~missed => Range(ShownConns) \subseteq Inserted
  BY DEF JobInv, DetailsOfOneRun
<1>2. \A i, j \in DOMAIN tables["suspicious"] :
        /\ tables["suspicious"][i].run = tables["suspicious"][j].run
        /\ i # j => tables["suspicious"][i].conn # tables["suspicious"][j].conn
  BY DEF JobInv, DetailsOfOneRun, ShownConns, IsInjective
<1>3. oa \notin {"idle", "clear"} => EdgesAreOf(Range(ShownConns) \cup abandoned)
  <2>1. CASE oa \in {"stories", "results", "scores"}
    <3>1. EdgesAreOf(abandoned)
      BY <2>1 DEF JobInv, DetailsOfOneRun, ClearedTo
    <3> QED BY <3>1 DEF EdgesAreOf
  <2>2. CASE Showing
    BY <2>2 DEF JobInv, DetailsOfOneRun
  <2>3. CASE oa = "done"
    BY <2>3 DEF JobInv, DetailsOfOneRun
  <2> QED BY <2>1, <2>2, <2>3 DEF Showing
<1> QED BY <1>1, <1>2, <1>3

-----------------------------------------------------------------------------
(* The feedback file *)

\* Scoring leaves the file, or adds the first of its lines to what is there, and
\* all of them unless the write fails.
LEMMA PutsFeedbackStep ==
  ASSUME NEW L, feedback \in Seq(L) \cup {None}, NEW lines \in Seq(L),
         Counted, PutsFeedback(lines)
  PROVE  /\ CountedOn /\ api' = "idle" /\ req' = NoRequest
         /\ UNCHANGED <<tables, stories, results, acked, cleared>>
         /\ feedback' \in Seq(L) \cup {None}
         /\ feedback # None /\ feedback' # None => IsPrefix(feedback, feedback')
         /\ \/ feedback' = feedback /\ (Opened => faults' # 0)
            \/ /\ Opened
               /\ \E n \in 0 .. Len(lines) :
                    /\ feedback' = Before \o SubSeq(lines, 1, n)
                    /\ n # Len(lines) => faults' # 0
<1>1. /\ api' = "idle" /\ req' = NoRequest
      /\ UNCHANGED <<tables, stories, results, acked, cleared>>
  BY DEF PutsFeedback, Return, history
<1>2. CountedOn /\ (Fault => faults' # 0)
  <2>1. Fault \/ UNCHANGED bounds
    BY DEF PutsFeedback
  <2> QED BY <2>1, OneIsCounted
<1>3. /\ Len(lines) \in Nat /\ SubSeq(lines, 1, Len(lines)) = lines
      /\ \A n \in 0 .. Len(lines) : SubSeq(lines, 1, n) \in Seq(L)
  OBVIOUS
<1>4. Before \in Seq(L)
  <2>1. << >> \in Seq(L)
    OBVIOUS
  <2> QED BY <2>1 DEF Before
<1>5. \/ feedback' = feedback /\ (Opened => faults' # 0)
      \/ /\ Opened
         /\ \E n \in 0 .. Len(lines) :
              /\ feedback' = Before \o SubSeq(lines, 1, n)
              /\ n # Len(lines) => faults' # 0
  <2>1. CASE Opened /\ feedback' = Before \o lines /\ UNCHANGED bounds
    <3>1. feedback' = Before \o SubSeq(lines, 1, Len(lines)) /\ Len(lines) \in 0 .. Len(lines)
      BY <1>3, <2>1
    <3> QED BY <2>1, <3>1
  <2>2. CASE ~Opened /\ UNCHANGED <<feedback, bounds>>
    BY <2>2
  <2>3. CASE /\ Opened
             /\ Fault
             /\ \/ UNCHANGED feedback
                \/ \E n \in 0 .. Len(lines) - 1 : feedback' = Before \o SubSeq(lines, 1, n)
    <3>1. \A n \in 0 .. Len(lines) - 1 : n \in 0 .. Len(lines)
      BY <1>3
    <3>2. faults' # 0
      BY <1>2, <2>3
    <3> QED BY <2>3, <3>1, <3>2
  <2> QED BY <2>1, <2>2, <2>3 DEF PutsFeedback
<1>6. CASE feedback' = feedback
  <2>1. feedback # None => IsPrefix(feedback, feedback)
    BY DEF IsPrefix
  <2> QED BY <1>1, <1>2, <1>5, <1>6, <2>1
<1>7. CASE \E n \in 0 .. Len(lines) : feedback' = Before \o SubSeq(lines, 1, n)
  <2>1. PICK n \in 0 .. Len(lines) : feedback' = Before \o SubSeq(lines, 1, n)
    BY <1>7
  <2> DEFINE added == SubSeq(lines, 1, n)
  <2>2. added \in Seq(L)
    BY <1>3
  <2> HIDE DEF added
  <2>3. Before \o added \in Seq(L) /\ IsPrefix(Before, Before \o added)
    BY <1>4, <2>2 DEF IsPrefix
  <2>4. /\ feedback' \in Seq(L) \cup {None}
        /\ feedback # None /\ feedback' # None => IsPrefix(feedback, feedback')
    BY <2>1, <2>3 DEF Before, added
  <2> QED BY <1>1, <1>2, <1>5, <2>4
<1> QED BY <1>5, <1>6, <1>7

\* Of lines of which only a header is none of a connection, the file has a header
\* at most first.
LEMMA HeaderStaysFirst ==
  ASSUME NEW L, Header \in L, NEW rows \in Seq(L),
         \A i \in DOMAIN rows : rows[i] # Header,
         feedback \in Seq(L) \cup {None}, Counted,
         PutsFeedback((IF req.append_file THEN << >> ELSE << Header >>) \o rows),
         feedback # None =>
           /\ faults = 0 => feedback # << >> /\ feedback[1] = Header
           /\ \A i \in 2 .. Len(feedback) : feedback[i] # Header
  PROVE  feedback' # None =>
           /\ faults' = 0 => feedback' # << >> /\ feedback'[1] = Header
           /\ \A i \in 2 .. Len(feedback') : feedback'[i] # Header
<1> DEFINE lead == IF req.append_file THEN << >> ELSE << Header >>
<1>1. lead \in Seq(L)
  <2>1. << >> \in Seq(L) /\ << Header >> \in Seq(L)
    OBVIOUS
  <2> QED BY <2>1
<1>2. lead = IF req.append_file THEN << >> ELSE << Header >>
  OBVIOUS
<1> HIDE DEF lead
<1>3. /\ lead \o rows \in Seq(L) /\ Len(lead \o rows) = Len(lead) + Len(rows)
      /\ \A i \in 1 .. Len(lead) : (lead \o rows)[i] = lead[i]
      /\ \A i \in 1 .. Len(lead \o rows) : i \in 1 .. Len(lead) \/
           (i - Len(lead) \in 1 .. Len(rows) /\ (lead \o rows)[i] = rows[i - Len(lead)])
      /\ Len(rows) \in Nat /\ Len(lead) \in Nat /\ DOMAIN rows = 1 .. Len(rows)
  BY <1>1, ConcatIs
<1>4. \A i \in 1 .. Len(lead \o rows) : i \notin 1 .. Len(lead) => (lead \o rows)[i] # Header
  <2> TAKE i \in 1 .. Len(lead \o rows)
  <2> HAVE i \notin 1 .. Len(lead)
  <2>1. i - Len(lead) \in DOMAIN rows /\ (lead \o rows)[i] = rows[i - Len(lead)]
    BY <1>3
  <2> QED BY <2>1
<1>5. /\ faults' = 0 => faults = 0
      /\ \/ feedback' = feedback /\ (Opened => faults' # 0)
         \/ /\ Opened
            /\ \E n \in 0 .. Len(lead \o rows) :
                 /\ feedback' = Before \o SubSeq(lead \o rows, 1, n)
                 /\ n # Len(lead \o rows) => faults' # 0
  <2>1. PutsFeedback(lead \o rows)
    BY <1>2
  <2>2. CountedOn => (faults' = 0 => faults = 0)
    BY DEF CountedOn, Counted
  <2> QED BY <1>3, <2>1, <2>2, PutsFeedbackStep
<1>6. CASE feedback' = feedback
  BY <1>5, <1>6
<1>7. ASSUME Opened,
             NEW n \in 0 .. Len(lead \o rows),
             feedback' = Before \o SubSeq(lead \o rows, 1, n),
             n # Len(lead \o rows) => faults' # 0
      PROVE  /\ faults' = 0 => feedback' # << >> /\ feedback'[1] = Header
             /\ \A i \in 2 .. Len(feedback') : feedback'[i] # Header
  <2> DEFINE added == SubSeq(lead \o rows, 1, n)
  <2>1. /\ added \in Seq(L) /\ Len(added) = n /\ n \in Nat
        /\ \A i \in 1 .. n : added[i] = (lead \o rows)[i]
    BY <1>3
  <2>2. feedback' = Before \o added
    BY <1>7
  <2> HIDE DEF added
  <2>3. CASE req.append_file
    <3>1. feedback # None /\ Before = feedback /\ lead = << >> /\ Len(lead) = 0 /\ feedback \in Seq(L)
      BY <1>2, <1>7, <2>3 DEF Opened, Before
    <3>2. \A i \in 1 .. n : added[i] # Header
      <4>1. \A i \in 1 .. n : i \in 1 .. Len(lead \o rows) /\ i \notin 1 .. Len(lead)
        BY <1>3, <3>1
      <4> QED BY <1>4, <2>1, <4>1
    <3>3. /\ Len(feedback') = Len(feedback) + n /\ Len(feedback) \in Nat
          /\ \A i \in 1 .. Len(feedback) : feedback'[i] = feedback[i]
          /\ \A i \in 1 .. Len(feedback') : i \in 1 .. Len(feedback) \/
               (i - Len(feedback) \in 1 .. n /\ feedback'[i] = added[i - Len(feedback)])
      <4>1. feedback' = feedback \o added
        BY <2>2, <3>1
      <4>2. /\ Len(feedback \o added) = Len(feedback) + Len(added)
            /\ \A i \in 1 .. Len(feedback) : (feedback \o added)[i] = feedback[i]
            /\ \A i \in 1 .. Len(feedback \o added) : i \in 1 .. Len(feedback) \/
                 (i - Len(feedback) \in 1 .. Len(added)
                   /\ (feedback \o added)[i] = added[i - Len(feedback)])
        <5>1. feedback \in Seq(L) /\ added \in Seq(L)
          BY <2>1, <3>1
        <5> QED BY <5>1, ConcatIs
      <4> QED BY <2>1, <3>1, <4>1, <4>2
    <3>4. ASSUME NEW i \in 2 .. Len(feedback') PROVE feedback'[i] # Header
      <4>1. CASE i \in 1 .. Len(feedback)
        <5>1. i \in 2 .. Len(feedback)
          BY <4>1
        <5> QED BY <3>1, <3>3, <4>1, <5>1
      <4>2. CASE i \notin 1 .. Len(feedback)
        <5>1. i \in 1 .. Len(feedback')
          BY <3>3
        <5> QED BY <3>2, <3>3, <4>2, <5>1
      <4> QED BY <4>1, <4>2
    <3>5. feedback # << >> => feedback' # << >> /\ feedback'[1] = feedback[1]
      <4>1. feedback # << >> => Len(feedback) # 0
        BY <3>1
      <4>2. Len(feedback') # 0 => feedback' # << >>
        OBVIOUS
      <4> QED BY <2>1, <3>3, <4>1, <4>2
    <3> QED BY <1>5, <3>1, <3>4, <3>5
  <2>4. CASE ~req.append_file
    <3>1. Before = << >> /\ lead = << Header >> /\ Len(lead) = 1 /\ lead[1] = Header
      BY <1>2, <1>7, <2>4 DEF Opened, Before
    <3>2. feedback' = added
      BY <2>1, <2>2, <3>1
    <3>3. \A i \in 2 .. n : added[i] # Header
      <4>1. \A i \in 2 .. n : i \in 1 .. Len(lead \o rows) /\ i \notin 1 .. Len(lead) /\ i \in 1 .. n
        BY <1>3, <3>1
      <4> QED BY <1>4, <2>1, <4>1
    <3>4. faults' = 0 => added # << >> /\ added[1] = Header
      <4>1. faults' = 0 => n >= 1
        BY <1>3, <1>7, <3>1
      <4>2. 1 \in 1 .. Len(lead)
        BY <3>1
      <4>3. n >= 1 => added # << >> /\ added[1] = (lead \o rows)[1]
        BY <2>1
      <4> QED BY <1>3, <3>1, <4>1, <4>2, <4>3
    <3> QED BY <2>1, <3>2, <3>3, <3>4
  <2> QED BY <2>3, <2>4
<1> QED BY <1>5, <1>6, <1>7

-----------------------------------------------------------------------------
(* The steps of a request *)

\* What a request about anchors A and scores S holds.
RequestTyped(S) ==
  /\ Counted /\ DOMAIN tables = Tables
  /\ req.score \in S \cup {None}
  /\ req.rows \in Seq(ShownRows)
  /\ req.resetting \in 0 .. 2

RequestInv(A, S) == RequestTyped(S) /\ CommentsInv(A)

\* What no request touches.
Untouched ==
  /\ CountedOn /\ results' = results
  /\ tables'["suspicious"] = tables["suspicious"] /\ tables'["edge"] = tables["edge"]

\* A request starts, or ends, away from the comments.
LEMMA RequestStartsOrEnds ==
  ASSUME NEW A, NEW S, RequestInv(A, S), CountedOn, DOMAIN tables' = Tables,
         tables'["storyboard"] = tables["storyboard"], UNCHANGED <<acked, cleared>>,
         {api, api'} \cap {"delete comments", "insert comments"} = {},
         DOMAIN req' = DOMAIN NoRequest, req'.score \in S \cup {None},
         req'.rows \in Seq(ShownRows), req'.resetting \in 0 .. 2,
         UNCHANGED <<req.sb_data, req.anchor, req.text>> \/
           (req'.sb_data = << >> /\ req'.anchor \in A \cup {None} /\ req'.text \in Texts \cup {None})
  PROVE  RequestInv(A, S)'
<1>1. /\ req'.sb_data \in Seq(CommentRecords(A))
      /\ Comment(req'.anchor, req'.text) \in CommentRecords(A)
  <2>1. << >> \in Seq(CommentRecords(A))
    OBVIOUS
  <2>2. CASE UNCHANGED <<req.sb_data, req.anchor, req.text>>
    BY <2>2 DEF RequestInv, CommentsInv, CommentsTyped, Comment
  <2>3. CASE req'.sb_data = << >> /\ req'.anchor \in A \cup {None} /\ req'.text \in Texts \cup {None}
    BY <2>1, <2>3 DEF Comment, CommentRecords
  <2> QED BY <2>2, <2>3
<1>2. CommentsInv(A)'
  BY <1>1, CommentsStay DEF RequestInv, RequestTyped
<1>3. RequestTyped(S)'
  BY DEF RequestInv, RequestTyped, CountedOn
<1> QED BY <1>2, <1>3 DEF RequestInv

\* A request that has ended holds nothing.
LEMMA NoRequestIs ==
  /\ NoRequest.score = None /\ NoRequest.rows = << >> /\ NoRequest.sb_data = << >>
  /\ NoRequest.anchor = None /\ NoRequest.text = None /\ NoRequest.resetting = 0
  /\ NoRequest.tmp = << >> /\ NoRequest.expanded = << >>
BY DEF NoRequest

\* No rows are rows.
LEMMA NoRows == << >> \in Seq(ShownRows)
OBVIOUS

\* A step with which it ends, or is reset, away from the comments.
LEMMA RequestIsEmpty ==
  ASSUME NEW A, NEW S, RequestInv(A, S), CountedOn, tables' = tables,
         UNCHANGED <<acked, cleared>>, req' = NoRequest,
         {api, api'} \cap {"delete comments", "insert comments"} = {}
  PROVE  RequestInv(A, S)'
<1>1. DOMAIN tables' = Tables /\ tables'["storyboard"] = tables["storyboard"]
  BY DEF RequestInv, RequestTyped
<1>2. << >> \in Seq(ShownRows)
  BY NoRows
<1>3. /\ DOMAIN req' = DOMAIN NoRequest
      /\ req'.score \in S \cup {None} /\ req'.rows \in Seq(ShownRows) /\ req'.resetting \in 0 .. 2
      /\ req'.sb_data = << >> /\ req'.anchor \in A \cup {None} /\ req'.text \in Texts \cup {None}
  BY <1>2, NoRequestIs
<1> QED BY <1>1, <1>3, RequestStartsOrEnds

\* A step that is none of the request's, and leaves the story board alone.
LEMMA RequestStays ==
  ASSUME NEW A, NEW S, RequestInv(A, S), CountedOn, UNCHANGED apiVars,
         DOMAIN tables' = Tables, tables'["storyboard"] = tables["storyboard"],
         UNCHANGED <<acked, cleared>>
  PROVE  RequestInv(A, S)'
<1>1. CommentsInv(A)'
  BY CommentsStay DEF RequestInv, RequestTyped, apiVars, CommentsInv, CommentsTyped
<1>2. RequestTyped(S)'
  BY DEF RequestInv, RequestTyped, CountedOn, apiVars
<1> QED BY <1>1, <1>2 DEF RequestInv

\* The job clears a directory.
LEMMA RequestStaysCleared ==
  ASSUME NEW A, NEW S, RequestInv(A, S), UNCHANGED apiVars,
         NEW t \in Tables \cup {Nowhere}, Clear(t)
  PROVE  RequestInv(A, S)'
<1>1. DOMAIN tables' = Tables /\ CountedOn
  BY ClearEmpties DEF RequestInv, RequestTyped
<1>2. CommentsInv(A)'
  BY CommentsCleared DEF RequestInv, RequestTyped, apiVars, CommentsInv, CommentsTyped
<1>3. RequestTyped(S)'
  BY <1>1 DEF RequestInv, RequestTyped, CountedOn, apiVars
<1> QED BY <1>2, <1>3 DEF RequestInv

\* Scoring selects rows of what is shown.
LEMMA SelectsStep ==
  ASSUME NEW A, NEW S, RequestInv(A, S), JobInv,
         NEW chosen, NEW s \in S, Selects(chosen, s)
  PROVE  /\ RequestInv(A, S)' /\ Untouched /\ tables' = tables
         /\ UNCHANGED <<stories, feedback, acked, cleared>>
         /\ api = "idle" /\ api' = "insert scores"
         /\ req'.score = s /\ req'.tmp = << >> /\ req'.expanded = << >> /\ req'.anchor = None
         /\ Range(req'.rows) = {r \in RowsOf("suspicious") : chosen[r.conn]}
<1> DEFINE picked == {r \in RowsOf("suspicious") : chosen[r.conn]}
           rows == Where(tables["suspicious"], picked)
<1>1. /\ api = "idle" /\ Starts /\ api' = "insert scores"
      /\ req' = [NoRequest EXCEPT !.score = s, !.rows = rows]
      /\ UNCHANGED <<tables, stories, feedback, results, acked, cleared>>
  BY DEF Selects, NewRequest, fileVars, history
<1>2. /\ DOMAIN req' = DOMAIN NoRequest
      /\ req'.score = s /\ req'.rows = rows /\ req'.sb_data = << >>
      /\ req'.anchor = None /\ req'.text = None /\ req'.resetting = 0
      /\ req'.tmp = << >> /\ req'.expanded = << >>
  BY <1>1 DEF NoRequest
<1>3. rows \in Seq(ShownRows) /\ Range(rows) = RowsOf("suspicious") \cap picked
  BY WhereSelects DEF JobInv, JobTyped, RowsOf
<1>4. CountedOn
  BY <1>1, OneIsCounted DEF RequestInv, RequestTyped
<1> HIDE DEF rows, picked
<1>5. RequestInv(A, S)'
  <2>1. DOMAIN tables' = Tables /\ tables'["storyboard"] = tables["storyboard"]
    BY <1>1 DEF RequestInv, RequestTyped
  <2>2. {api, api'} \cap {"delete comments", "insert comments"} = {} /\ UNCHANGED <<acked, cleared>>
    BY <1>1
  <2>3. /\ req'.score \in S \cup {None} /\ req'.rows \in Seq(ShownRows)
        /\ req'.resetting \in 0 .. 2
        /\ req'.sb_data = << >> /\ req'.anchor \in A \cup {None}
        /\ req'.text \in Texts \cup {None}
    BY <1>2, <1>3
  <2> QED BY <1>2, <1>4, <2>1, <2>2, <2>3, RequestStartsOrEnds
<1> QED BY <1>1, <1>2, <1>3, <1>4, <1>5 DEF Untouched, picked

\* It inserts them.
LEMMA InsertsScoredStep ==
  ASSUME NEW A, NEW S, RequestInv(A, S), NEW scored, InsertsScored(scored)
  PROVE  /\ RequestInv(A, S)' /\ Untouched /\ req' = req
         /\ UNCHANGED <<stories, feedback, acked, cleared>>
         /\ api = "insert scores" /\ api' = "list feedback"
         /\ tables'["threat_investigation"] =
              tables["threat_investigation"] \o [i \in DOMAIN req.rows |-> scored[req.rows[i].conn]]
         /\ \A u \in Tables : u # "threat_investigation" => tables'[u] = tables[u]
<1> DEFINE added == [i \in DOMAIN req.rows |-> scored[req.rows[i].conn]]
<1>1. /\ api = "insert scores" /\ api' = "list feedback" /\ req' = req
      /\ Insert("threat_investigation", added)
      /\ UNCHANGED <<stories, feedback, results, acked, cleared, bounds>>
  BY DEF InsertsScored, Then, fileVars, history
<1> HIDE DEF added
<1>2. /\ DOMAIN tables' = Tables
      /\ tables'["threat_investigation"] = tables["threat_investigation"] \o added
      /\ \A u \in Tables : u # "threat_investigation" => tables'[u] = tables[u]
  BY <1>1, InsertAppends, DayAssumption DEF RequestInv, RequestTyped
<1>3. /\ tables'["suspicious"] = tables["suspicious"] /\ tables'["edge"] = tables["edge"]
      /\ tables'["storyboard"] = tables["storyboard"]
  BY <1>2, DayAssumption
<1>4. CountedOn
  BY <1>1, OneIsCounted DEF RequestInv, RequestTyped
<1>5. RequestInv(A, S)'
  BY <1>1, <1>2, <1>3, <1>4, RequestStartsOrEnds
     DEF RequestInv, RequestTyped, CommentsInv, CommentsTyped
<1> QED BY <1>1, <1>2, <1>3, <1>4, <1>5 DEF Untouched, added

\* It looks for the feedback file.
LEMMA ListFeedbackStep ==
  ASSUME NEW A, NEW S, RequestInv(A, S), ListFeedback
  PROVE  /\ RequestInv(A, S)' /\ Untouched /\ tables' = tables
         /\ UNCHANGED <<stories, feedback, acked, cleared>>
         /\ api = "list feedback" /\ api' = "put feedback"
         /\ UNCHANGED <<req.score, req.rows, req.anchor, req.tmp, req.expanded>>
         /\ faults' = 0 => (req'.append_file <=> feedback # None)
<1>1. /\ api = "list feedback" /\ api' = "put feedback"
      /\ UNCHANGED <<tables, stories, feedback, results, acked, cleared>>
      /\ \/ req' = [req EXCEPT !.append_file = feedback # None] /\ UNCHANGED bounds
         \/ req' = [req EXCEPT !.append_file = FALSE] /\ Fault
  BY DEF ListFeedback, fileVars, history
<1>2. DOMAIN req = DOMAIN NoRequest
  BY DEF RequestInv, CommentsInv, CommentsTyped
<1>3. /\ DOMAIN req' = DOMAIN NoRequest
      /\ UNCHANGED <<req.score, req.rows, req.anchor, req.text, req.sb_data, req.resetting,
                     req.tmp, req.expanded>>
      /\ UNCHANGED bounds => (req'.append_file <=> feedback # None)
      /\ UNCHANGED bounds \/ Fault
  <2>1. CASE req' = [req EXCEPT !.append_file = feedback # None] /\ UNCHANGED bounds
    BY <1>2, <2>1 DEF NoRequest
  <2>2. CASE req' = [req EXCEPT !.append_file = FALSE] /\ Fault
    <3>1. ~UNCHANGED bounds
      BY <2>2 DEF Fault, bounds, RequestInv, RequestTyped, Counted
    <3> QED BY <1>2, <2>2, <3>1 DEF NoRequest
  <2> QED BY <1>1, <2>1, <2>2
<1>4. CountedOn /\ (faults' = 0 => UNCHANGED bounds)
  BY <1>3, OneIsCounted DEF RequestInv, RequestTyped
<1>5. RequestInv(A, S)'
  BY <1>1, <1>3, <1>4, RequestStartsOrEnds DEF RequestInv, RequestTyped
<1> QED BY <1>1, <1>3, <1>4, <1>5 DEF Untouched

\* It writes the file, and ends.
LEMMA PutFeedbackStep ==
  ASSUME NEW A, NEW S, RequestInv(A, S), NEW lines, PutsFeedback(lines)
  PROVE  /\ RequestInv(A, S)' /\ Untouched /\ tables' = tables
         /\ UNCHANGED <<stories, acked, cleared>>
         /\ api = "put feedback" /\ api' = "idle" /\ req' = NoRequest
<1>1. /\ api = "put feedback" /\ api' = "idle" /\ req' = NoRequest
      /\ UNCHANGED <<tables, stories, results, acked, cleared>>
      /\ Fault \/ UNCHANGED bounds
  BY DEF PutsFeedback, Return, history
<1>2. CountedOn
  BY <1>1, OneIsCounted DEF RequestInv, RequestTyped
<1>3. RequestInv(A, S)'
  <2>1. {api, api'} \cap {"delete comments", "insert comments"} = {}
    BY <1>1
  <2> QED BY <1>1, <1>2, <2>1, RequestIsEmpty
<1> QED BY <1>1, <1>2, <1>3 DEF Untouched

\* A step of a request that adds rows to a table of none of the others, or to none.
LEMMA RequestInserts ==
  ASSUME NEW A, NEW S, RequestInv(A, S), CountedOn, results' = results,
         \/ tables' = tables
         \/ \E t \in Tables \ {"suspicious", "edge", "storyboard"} : \E rows : Insert(t, rows),
         UNCHANGED <<acked, cleared>>,
         {api, api'} \cap {"delete comments", "insert comments"} = {},
         DOMAIN req' = DOMAIN NoRequest,
         UNCHANGED <<req.score, req.rows, req.resetting, req.sb_data, req.anchor, req.text>>
  PROVE  RequestInv(A, S)' /\ Untouched
<1>1. /\ DOMAIN tables' = Tables
      /\ tables'["suspicious"] = tables["suspicious"] /\ tables'["edge"] = tables["edge"]
      /\ tables'["storyboard"] = tables["storyboard"]
  <2>1. DOMAIN tables = Tables
    BY DEF RequestInv, RequestTyped
  <2>2. CASE \E t \in Tables \ {"suspicious", "edge", "storyboard"} : \E rows : Insert(t, rows)
    BY <2>1, <2>2, DayAssumption DEF Insert
  <2> QED BY <2>1, <2>2
<1>2. RequestInv(A, S)'
  BY <1>1, RequestStartsOrEnds DEF RequestInv, RequestTyped
<1> QED BY <1>1, <1>2 DEF Untouched

\* A story is created, of an anchor and the rows of its expanded search.
StartsStory(first, a, t, rows) ==
  /\ NewRequest(first, [NoRequest EXCEPT !.anchor = a, !.text = t, !.expanded = rows])
  /\ UNCHANGED <<tables, fileVars, history>>

\* Where there is no such search, there are no rows of it.
LEMMA StoryWithoutRows ==
  ASSUME NEW a, NEW t
  PROVE  [NoRequest EXCEPT !.anchor = a, !.text = t]
           = [NoRequest EXCEPT !.anchor = a, !.text = t, !.expanded = << >>]
<1> DEFINE story == [NoRequest EXCEPT !.anchor = a, !.text = t]
<1>1. story.expanded = << >> /\ "expanded" \in DOMAIN story
  BY DEF NoRequest
<1>2. story = [f \in DOMAIN story |-> story[f]]
  BY DEF NoRequest
<1> HIDE DEF story
<1>3. [story EXCEPT !.expanded = << >>] = story
  BY <1>1, <1>2
<1>4. [NoRequest EXCEPT !.anchor = a, !.text = t, !.expanded = << >>]
        = [story EXCEPT !.expanded = << >>]
  BY DEF story
<1> QED BY <1>3, <1>4 DEF story

\* What that changes.
LEMMA StoryStarts ==
  ASSUME NEW A, NEW S, RequestInv(A, S), NEW a \in A, NEW t \in Texts, NEW first, NEW rows,
         {first} \cap {"delete comments", "insert comments"} = {},
         StartsStory(first, a, t, rows)
  PROVE  /\ RequestInv(A, S)' /\ Untouched /\ UNCHANGED <<tables, stories, feedback, acked, cleared>>
         /\ api = "idle" /\ api' = first
         /\ req'.anchor = a /\ req'.text = t /\ req'.expanded = rows
         /\ req'.tmp = << >> /\ req'.rows = << >> /\ req'.score = None
<1>1. /\ api = "idle" /\ Starts /\ api' = first
      /\ req' = [NoRequest EXCEPT !.anchor = a, !.text = t, !.expanded = rows]
      /\ UNCHANGED <<tables, stories, feedback, results, acked, cleared>>
  BY DEF StartsStory, NewRequest, fileVars, history
<1>2. /\ DOMAIN req' = DOMAIN NoRequest
      /\ req'.anchor = a /\ req'.text = t /\ req'.expanded = rows
      /\ req'.tmp = << >> /\ req'.rows = << >> /\ req'.score = None
      /\ req'.sb_data = << >> /\ req'.resetting = 0
  BY <1>1 DEF NoRequest
<1>3. CountedOn
  BY <1>1, OneIsCounted DEF RequestInv, RequestTyped
<1>4. /\ DOMAIN tables' = Tables /\ << >> \in Seq(ShownRows)
      /\ tables'["storyboard"] = tables["storyboard"]
  <2>1. tables' = tables
    BY <1>1
  <2> QED BY <2>1, NoRows DEF RequestInv, RequestTyped
<1>5. {api, api'} \cap {"delete comments", "insert comments"} = {}
  BY <1>1
<1>6. RequestInv(A, S)'
  <2>1. /\ req'.score \in S \cup {None} /\ req'.rows \in Seq(ShownRows)
        /\ req'.resetting \in 0 .. 2
        /\ req'.anchor \in A \cup {None} /\ req'.text \in Texts \cup {None}
    BY <1>2, <1>4
  <2>2. UNCHANGED <<acked, cleared>>
    BY <1>1
  <2> QED BY <1>2, <1>3, <1>4, <1>5, <2>1, <2>2, RequestStartsOrEnds
<1> QED BY <1>1, <1>2, <1>3, <1>6 DEF Untouched

\* What save_comment does to what else is in the tables.
LEMMA SavesComment ==
  ASSUME NEW A, NEW S, RequestInv(A, S), SelectComments \/ DeleteComments \/ InsertComment
  PROVE  /\ RequestInv(A, S)' /\ Untouched /\ faults' = faults
         /\ UNCHANGED <<stories, feedback, results>>
         /\ \A u \in Tables : u # "storyboard" => tables'[u] = tables[u]
         /\ UNCHANGED <<req.anchor, req.rows, req.tmp, req.expanded, req.score>> \/ req' = NoRequest
         /\ api \in {"select comments", "delete comments", "insert comments"}
         /\ api' \in {"delete comments", "insert comments", "idle"}
         /\ api' = "idle" => req' = NoRequest
         /\ SelectComments => api' = "delete comments"
         /\ DeleteComments => api' = "insert comments"
<1>1. Counted /\ DOMAIN tables = Tables /\ CommentsInv(A) /\ DOMAIN req = DOMAIN NoRequest
  BY DEF RequestInv, RequestTyped, CommentsInv, CommentsTyped
<1>2. "storyboard" \in Tables
  BY DayAssumption
<1>3. /\ DOMAIN tables' = Tables /\ faults' = faults
      /\ UNCHANGED <<stories, feedback, results>>
      /\ \A u \in Tables : u # "storyboard" => tables'[u] = tables[u]
  <2>1. CASE SelectComments
    BY <1>1, <2>1 DEF SelectComments, fileVars, bounds
  <2>2. CASE DeleteComments
    BY <1>1, <1>2, <2>2, DeleteEmpties DEF DeleteComments, fileVars
  <2>3. CASE InsertComment
    BY <1>1, <1>2, <2>3, InsertAppends DEF InsertComment, fileVars, bounds
  <2> QED BY <2>1, <2>2, <2>3
<1>4. CommentsInv(A)' /\ CountedOn
  <2>1. CASE SelectComments
    BY <1>1, <2>1, SelectCommentsStep
  <2>2. CASE DeleteComments
    <3>1. CountedOn
      BY <1>1, <1>2, <2>2, DeleteEmpties DEF DeleteComments
    <3> QED BY <1>1, <2>2, <3>1, DeleteCommentsStep
  <2>3. CASE InsertComment
    <3>1. CountedOn
      <4>1. UNCHANGED <<starts, faults, undeleted>>
        BY <2>3 DEF InsertComment, bounds
      <4> QED BY <1>1, <4>1 DEF Counted, CountedOn
    <3> QED BY <1>1, <2>3, <3>1, InsertCommentStep
  <2> QED BY <2>1, <2>2, <2>3
<1>5. /\ \/ UNCHANGED <<req.anchor, req.rows, req.tmp, req.expanded, req.score, req.resetting>>
         \/ req' = NoRequest
      /\ api \in {"select comments", "delete comments", "insert comments"}
      /\ api' \in {"delete comments", "insert comments", "idle"}
      /\ api' = "idle" => req' = NoRequest
      /\ SelectComments => api' = "delete comments"
      /\ DeleteComments => api' = "insert comments"
  <2>1. CASE SelectComments
    <3>1. UNCHANGED <<req.anchor, req.rows, req.tmp, req.expanded, req.score, req.resetting>>
      BY <1>1, <2>1 DEF SelectComments, NoRequest
    <3>2. api = "select comments" /\ api' = "delete comments" /\ ~DeleteComments
      BY <2>1 DEF SelectComments, DeleteComments
    <3> QED BY <3>1, <3>2
  <2>2. CASE DeleteComments
    BY <2>2 DEF SelectComments, DeleteComments, Then
  <2>3. CASE InsertComment
    <3>1. api = "insert comments" /\ ~SelectComments /\ ~DeleteComments
      BY <2>3 DEF SelectComments, DeleteComments, InsertComment
    <3>2. CASE Len(req.sb_data) > 1
      <4>1. api' = api /\ req' = [req EXCEPT !.sb_data = Tail(@)]
        BY <2>3, <3>2 DEF InsertComment
      <4> QED BY <1>1, <3>1, <4>1 DEF NoRequest
    <3>3. CASE ~(Len(req.sb_data) > 1)
      BY <2>3, <3>1, <3>3 DEF InsertComment, Return
    <3> QED BY <3>2, <3>3
  <2> QED BY <2>1, <2>2, <2>3
<1>6. RequestTyped(S)'
  <2>1. << >> \in Seq(ShownRows)
    BY NoRows
  <2>2. req'.score \in S \cup {None} /\ req'.rows \in Seq(ShownRows) /\ req'.resetting \in 0 .. 2
    <3>1. CASE req' = NoRequest
      BY <2>1, <3>1, NoRequestIs
    <3>2. CASE UNCHANGED <<req.anchor, req.rows, req.tmp, req.expanded, req.score, req.resetting>>
      BY <3>2 DEF RequestInv, RequestTyped
    <3> QED BY <1>5, <3>1, <3>2
  <2> QED BY <1>3, <1>4, <2>2 DEF RequestTyped, CountedOn
<1>7. tables'["suspicious"] = tables["suspicious"] /\ tables'["edge"] = tables["edge"]
  BY <1>3, DayAssumption
<1> QED BY <1>3, <1>4, <1>5, <1>6, <1>7 DEF RequestInv, Untouched

\* The day is reset.
LEMMA ResetsStep ==
  ASSUME NEW A, NEW S, RequestInv(A, S), Resets
  PROVE  /\ RequestInv(A, S)' /\ Untouched
         /\ api = "idle" /\ api' = "reset" /\ req' = NoRequest
         /\ UNCHANGED <<tables, stories, feedback, acked, cleared>>
<1>1. /\ api = "idle" /\ api' = "reset" /\ req' = NoRequest /\ Starts
      /\ UNCHANGED <<tables, stories, feedback, results, acked, cleared>>
  BY DEF Resets, NewRequest, fileVars, history
<1>2. CountedOn
  BY <1>1, OneIsCounted DEF RequestInv, RequestTyped
<1>3. RequestInv(A, S)'
  <2>1. {api, api'} \cap {"delete comments", "insert comments"} = {}
    BY <1>1
  <2> QED BY <1>1, <1>2, <2>1, RequestIsEmpty
<1> QED BY <1>1, <1>2, <1>3 DEF Untouched

\* ... one directory after the other, none of which is of what is shown.
LEMMA ResetsNextStep ==
  ASSUME NEW A, NEW S, RequestInv(A, S), NEW list,
         Len(list) = 3, NEW T \in SUBSET (Tables \cup {Nowhere}),
         "suspicious" \notin T, "edge" \notin T,
         \A i \in 1 .. 3 : list[i] \in T,
         ResetsNext(list)
  PROVE  /\ RequestInv(A, S)' /\ Untouched /\ faults' = faults
         /\ api = "reset" /\ api' \in {"reset", "idle"} /\ (api' = "idle" => req' = NoRequest)
         /\ UNCHANGED <<stories, feedback>>
         /\ UNCHANGED <<req.anchor, req.rows, req.tmp, req.expanded, req.score>> \/ req' = NoRequest
         /\ \A u \in Tables : tables'[u] = tables[u] \/ (u \in T /\ tables'[u] = << >>)
         /\ acked' \in {acked, {}}
<1> DEFINE t == list[req.resetting + 1]
<1>1. req.resetting \in 0 .. 2 /\ t \in T /\ t \in Tables \cup {Nowhere}
  BY DEF RequestInv, RequestTyped
<1>2. /\ api = "reset" /\ Clear(t) /\ UNCHANGED <<stories, feedback, results>>
      /\ IF req.resetting + 1 < 3
         THEN api' = api /\ req' = [req EXCEPT !.resetting = @ + 1]
         ELSE Return
  BY DEF ResetsNext, fileVars
<1> HIDE DEF t
<1>3. /\ DOMAIN tables' = Tables /\ CountedOn /\ faults' = faults
      /\ \A u \in Tables : tables'[u] = tables[u] \/ (u = t /\ tables'[u] = << >>)
      /\ acked' \in {acked, {}}
  BY <1>1, <1>2, ClearEmpties DEF RequestInv, RequestTyped
<1>4. /\ DOMAIN req' = DOMAIN NoRequest /\ api' \in {"reset", "idle"}
      /\ req'.resetting \in 0 .. 2
      /\ \/ /\ UNCHANGED <<req.anchor, req.rows, req.tmp, req.expanded, req.score,
                           req.sb_data, req.text>>
            /\ api' = "reset"
         \/ req' = NoRequest
  <2>1. DOMAIN req = DOMAIN NoRequest
    BY DEF RequestInv, CommentsInv, CommentsTyped
  <2>2. CASE req.resetting + 1 < 3
    <3>1. api' = "reset" /\ req' = [req EXCEPT !.resetting = req.resetting + 1]
      BY <1>2, <2>2
    <3>2. req.resetting + 1 \in 0 .. 2
      BY <1>1, <2>2
    <3> QED BY <2>1, <3>1, <3>2 DEF NoRequest
  <2>3. CASE ~(req.resetting + 1 < 3)
    BY <1>2, <2>3, NoRequestIs DEF Return
  <2> QED BY <2>2, <2>3
<1>5. CommentsInv(A)'
  <2>1. /\ req'.sb_data \in Seq(CommentRecords(A))
        /\ Comment(req'.anchor, req'.text) \in CommentRecords(A)
    <3>1. << >> \in Seq(CommentRecords(A)) /\ Comment(None, None) \in CommentRecords(A)
      BY DEF Comment, CommentRecords
    <3> QED BY <1>4, <3>1, NoRequestIs DEF RequestInv, CommentsInv, CommentsTyped, Comment
  <2>2. {api, api'} \cap {"delete comments", "insert comments"} = {}
    BY <1>2, <1>4
  <2> QED BY <1>1, <1>2, <1>4, <2>1, <2>2, CommentsCleared DEF RequestInv, RequestTyped
<1>6. RequestTyped(S)'
  <2>1. << >> \in Seq(ShownRows)
    BY NoRows
  <2> QED BY <1>3, <1>4, <2>1, NoRequestIs DEF RequestInv, RequestTyped, CountedOn
<1>7. tables'["suspicious"] = tables["suspicious"] /\ tables'["edge"] = tables["edge"]
  BY <1>1, <1>3, DayAssumption
<1> QED BY <1>1, <1>2, <1>3, <1>4, <1>5, <1>6, <1>7 DEF RequestInv, Untouched, Return

\* A request fails.
LEMMA RequestFailsKeeps ==
  ASSUME NEW A, NEW S, RequestInv(A, S), RequestFails
  PROVE  /\ RequestInv(A, S)' /\ Untouched /\ faults' # 0
         /\ api' = "idle" /\ req' = NoRequest
         /\ UNCHANGED <<tables, stories, feedback, acked, cleared>>
<1>1. /\ api' = "idle" /\ req' = NoRequest /\ Fault
      /\ UNCHANGED <<tables, stories, feedback, results, acked, cleared>>
  BY DEF RequestFails, Return, fileVars, history
<1>2. CommentsInv(A)' /\ CountedOn
  BY RequestFailsStep DEF RequestInv, RequestTyped
<1>3. faults' # 0
  BY <1>1, OneIsCounted DEF RequestInv, RequestTyped
<1>4. RequestTyped(S)'
  <2>1. << >> \in Seq(ShownRows)
    BY NoRows
  <2> QED BY <1>1, <1>2, <2>1, NoRequestIs DEF RequestInv, RequestTyped, CountedOn
<1> QED BY <1>1, <1>2, <1>3, <1>4 DEF RequestInv, Untouched

\* At first.
LEMMA RequestInvInit ==
  ASSUME NEW A, NEW S, StoreInit, APIInit
  PROVE  RequestInv(A, S)
<1>1. /\ req = NoRequest /\ api = "idle" /\ DOMAIN req = DOMAIN NoRequest /\ acked = {}
      /\ tables = [t \in Tables |-> << >>] /\ tables["storyboard"] = << >> /\ Counted
  BY DayAssumption DEF APIInit, StoreInit, Counted
<1>2. << >> \in Seq(CommentRecords(A)) /\ << >> \in Seq(ShownRows)
  OBVIOUS
<1>3. CommentsTyped(A)
  BY <1>1, <1>2, NoRequestIs DEF CommentsTyped, Comment, CommentRecords
<1>4. CommentsOnce /\ AckedAreKept
  BY <1>1 DEF CommentsOnce, AckedAreKept, OnePerAnchor, CommentKept
<1> QED BY <1>1, <1>2, <1>3, <1>4, NoRequestIs DEF RequestInv, RequestTyped, CommentsInv

=============================================================================
