------------------------------- MODULE Columns -------------------------------
(***************************************************************************)
(* How a value of the raw data reaches a field of an answer: by its        *)
(* position in a row that a job inserts, by the column a SELECT names, by  *)
(* the key a GraphQL type reads.  A cell is the name of the value in it.   *)
(***************************************************************************)
EXTENDS Naturals, Sequences, Functions

Blank == "blank"       \* the empty text, written when there is nothing to write
Zero  == "0"
Null  == "None"        \* Python's None, and null in an answer

\* What a step adds when it raises instead (a KeyError).
Raises == << >>

\* A SELECT list is a set of pairs <<alias, expression>>, a GraphQL type a
\* set of pairs <<field, key of the row its resolver reads>>.
Same(names) == {<<n, n>> : n \in names}

\* INSERT ... VALUES: by position; the counts agree or it is refused.
Fits(columns, cells) == Len(columns) = Len(cells)

Inserted(columns, cells) ==
  [c \in Range(columns) |-> cells[CHOOSE i \in DOMAIN columns : columns[i] = c]]

\* execute_query_as_list: a dictionary by alias.
Selected(list, row) ==
  [alias \in {p[1] : p \in list} |->
     LET expr == CHOOSE e \in {p[2] : p \in list} : <<alias, e>> \in list
     IN  IF expr \in DOMAIN row THEN row[expr] ELSE expr]

\* The resolvers: root.get(key), for some fields root.get(key) or 0.
Resolved(type, orZero, row) ==
  {<<p[1], IF p[2] \in DOMAIN row THEN row[p[2]]
           ELSE IF p[1] \in orZero THEN Zero ELSE Null>> : p \in type}

Fields(type) == {p[1] : p \in type}

\* A function with another written over it (@@ of TLC, in a form the provers expand)
Over(f, g) == [x \in DOMAIN f \cup DOMAIN g |-> IF x \in DOMAIN f THEN f[x] ELSE g[x]]

SummaryList == Same({"tdate", "total"})

IngestSummaryType == {<<"datetime", "tdate">>, <<"total", "total">>}

=============================================================================
