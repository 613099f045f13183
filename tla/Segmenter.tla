----------------------------- MODULE Segmenter -----------------------------
(***************************************************************************)
(* `prepare' of spot-ingest/pipelines/{flow,dns,proxy}/processing.py: a    *)
(* generator that reads a text-converted file line by line and groups its  *)
(* valid lines into segments of one hour and of at most max_req_size       *)
(* bytes.  The collector pulls one segment per iteration, so the generator *)
(* is a state machine: each step reads one line and may yield a segment.   *)
(*                                                                         *)
(* A line is abstracted to what `prepare' tells apart:                     *)
(*   "skip"   blank, or its time column does not match the pattern;        *)
(*   "short"  too few columns: split(',')[2] raises (dns only);            *)
(*   "bad"    matches the pattern and is no date: strptime raises;         *)
(*   "epoch"  its time stamp is 1970-01-01 00:00:00, a zero timedelta;     *)
(*   "ok"     any other line.                                              *)
(* Segments hold the positions of the lines in the file.                   *)
(***************************************************************************)
EXTENDS Naturals, Sequences, FiniteSetsExt

CONSTANTS Files,        \* the files the generator may be given
          MaxReqSize    \* producer.max_request

Line == [kind : {"skip", "short", "bad", "epoch", "ok"},
         hour : Nat \ {0},       \* the partition the line belongs to
         size : Nat \ {0}]       \* sys.getsizeof(value)

ASSUME FilesAssumption == Files \subseteq Seq(Line)
ASSUME SizeAssumption  == MaxReqSize \in Nat

VARIABLES file,         \* the lines of csvfile
          pos,          \* how many lines have been read
          msg_list,     \* the segment being built: positions of lines
          msg_size,
          partition,    \* hour of msg_list; NoHour before the first line
          timestamp,    \* position of the line it was taken from; 0 for None
          segments,     \* what has been yielded: <<timestamp, msg_list>>
          status        \* "reading", "done", or the exception raised

vars == <<file, pos, msg_list, msg_size, partition, timestamp, segments, status>>

NoHour == 0

\* The pattern of the pipeline is found in the line.
Matches(l) == l.kind \in {"bad", "epoch", "ok"}

\* `if timestamp': None is false, and so is timedelta(0).
Truthy(t) == IF t = 0 THEN FALSE ELSE file[t].kind # "epoch"

\* Mutant of Yielded: only the first segment is yielded before the last one.
YieldedOnce == IF Truthy(timestamp) /\ segments = << >>
                 THEN Append(segments, <<timestamp, msg_list>>)
                 ELSE segments

\* What has been yielded once the segment being built is yielded too.
Yielded == IF Truthy(timestamp)
             THEN Append(segments, <<timestamp, msg_list>>)
             ELSE segments

Init ==
  /\ file \in Files
  /\ pos = 0
  /\ msg_list = << >>
  /\ msg_size = 0
  /\ partition = NoHour
  /\ timestamp = 0
  /\ segments = << >>
  /\ status = "reading"

Reading == status = "reading" /\ pos < Len(file)

SkipLine ==
  /\ Reading
  /\ file[pos + 1].kind = "skip"
  /\ pos' = pos + 1
  /\ UNCHANGED <<file, msg_list, msg_size, partition, timestamp, segments, status>>

\* split(',')[2] of a dns line with fewer columns: IndexError leaves the generator.
ShortLine ==
  /\ Reading
  /\ file[pos + 1].kind = "short"
  /\ pos' = pos + 1
  /\ status' = "IndexError"
  /\ UNCHANGED <<file, msg_list, msg_size, partition, timestamp, segments>>

\* Mutants of Fits: no check of the hour; a full request may grow.
FitsAnyHour(l) == partition # NoHour /\ msg_size + l.size < MaxReqSize

FitsOrFills(l) == l.hour = partition /\ msg_size + l.size <= MaxReqSize

\* The line continues the segment being built.
Fits(l) == l.hour = partition /\ msg_size + l.size < MaxReqSize

AppendLine ==
  /\ Reading
  /\ LET l == file[pos + 1] IN
       /\ Matches(l) /\ Fits(l)
       /\ msg_list' = Append(msg_list, pos + 1)
       /\ msg_size' = msg_size + l.size
  /\ pos' = pos + 1
  /\ UNCHANGED <<file, partition, timestamp, segments, status>>

\* Mutant of NewList: the list is not reset when a segment starts.
KeptList == Append(msg_list, pos + 1)

NewList == <<pos + 1>>

\* Yield the segment being built, if any, and start the next one.  strptime is
\* called last: the segment is out before a stamp that is no date raises.
StartSegment ==
  /\ Reading
  /\ LET l == file[pos + 1] IN
       /\ Matches(l) /\ ~Fits(l)
       /\ segments' = Yielded
       /\ msg_list' = NewList
       /\ msg_size' = l.size
       /\ partition' = l.hour
       /\ IF l.kind = "bad"
            THEN status' = "ValueError" /\ UNCHANGED timestamp
            ELSE timestamp' = pos + 1 /\ UNCHANGED status
  /\ pos' = pos + 1
  /\ UNCHANGED file

\* Mutant of EndOfFile: the end of the file is counted as a line.
EndOfFileCounted ==
  /\ status = "reading" /\ pos = Len(file)
  /\ segments' = Yielded
  /\ status' = IF Truthy(timestamp) THEN "done" ELSE "IOError"
  /\ pos' = pos + 1
  /\ UNCHANGED <<file, msg_list, msg_size, partition, timestamp>>

\* The last lines of the file, or IOError when there is no time stamp.
EndOfFile ==
  /\ status = "reading" /\ pos = Len(file)
  /\ segments' = Yielded
  /\ status' = IF Truthy(timestamp) THEN "done" ELSE "IOError"
  /\ UNCHANGED <<file, pos, msg_list, msg_size, partition, timestamp>>

Next == SkipLine \/ ShortLine \/ AppendLine \/ StartSegment \/ EndOfFile

Spec == Init /\ [][Next]_vars

-----------------------------------------------------------------------------
(* Properties *)

Statuses == {"reading", "done", "IOError", "IndexError", "ValueError"}

\* Type correctness: positions lie in the file and only lines already read are
\* held or have been yielded.
TypeOK ==
  /\ file \in Seq(Line)
  /\ pos \in 0 .. Len(file)
  /\ msg_list \in Seq(1 .. pos)
  /\ msg_size \in Nat
  /\ partition \in Nat
  /\ timestamp \in 0 .. pos
  /\ segments \in Seq((1 .. pos) \X Seq(1 .. pos))
  /\ status \in Statuses

Positions(list) == {list[i] : i \in DOMAIN list}

\* The lines that have left the generator, and those held in msg_list.
Sent == UNION {Positions(segments[k][2]) : k \in DOMAIN segments}

Held == Positions(msg_list)

MatchedUpTo(n) == {p \in 1 .. n : Matches(file[p])}

NoEpochLine == \A p \in DOMAIN file : file[p].kind # "epoch"

\* No valid line is lost between two segments, at the end of the file or when
\* a date that cannot be parsed stops the generator: each one read is in a
\* yielded segment or in the one being built (in a file with no line stamped
\* with the epoch).  A line with too few columns loses the segment being built,
\* and nothing else of what has been read.
NothingLost ==
  NoEpochLine =>
    /\ status \in {"reading", "IndexError"} => Sent \cup Held = MatchedUpTo(pos)
    /\ status = "done"       => Sent = MatchedUpTo(Len(file))
    /\ status = "ValueError" => Sent = MatchedUpTo(pos - 1)
    /\ status = "IOError"    => MatchedUpTo(Len(file)) = {}

Increasing(list) == \A i, j \in DOMAIN list : i < j => list[i] < list[j]

\* Lines leave in the order of the file and at most once: segments follow one
\* another, and the list being built follows the last one yielded.
InOrder ==
  /\ Increasing(msg_list)
  /\ \A k \in DOMAIN segments :
       /\ Increasing(segments[k][2])
       /\ \A m \in DOMAIN segments : k < m =>
            \A p \in Positions(segments[k][2]), q \in Positions(segments[m][2]) : p < q
       /\ status = "reading" =>
            \A p \in Positions(segments[k][2]), q \in Held : p < q

\* A segment is the broker's unit of partitioning: all its lines are valid and
\* of the hour of the line its time stamp is taken from.  A line of another hour
\* would be stored under the wrong hour downstream.
SegmentsOfOneHour ==
  \A k \in DOMAIN segments :
    LET stamp == segments[k][1]
        lines == segments[k][2]
    IN /\ lines # << >>
       /\ stamp = lines[1]
       /\ \A p \in Positions(lines) : Matches(file[p]) /\ file[p].hour = file[stamp].hour

\* The strengthening the proofs need: the segment being built starts at the line
\* its stamp is from, and its lines are of the hour it was started with.
BuildingOneHour ==
  status = "reading" =>
    IF timestamp = 0
      THEN msg_list = << >> /\ segments = << >> /\ partition = NoHour
      ELSE /\ msg_list # << >>
           /\ timestamp = msg_list[1]
           /\ \A p \in Held : Matches(file[p]) /\ file[p].hour = partition

SizeOf(list) == MapThenSumSet(LAMBDA i : file[list[i]].size, DOMAIN list)

\* Only a segment of a single line may reach max_req_size, and a segment ends
\* only because the hour changes or the next line does not fit: neither a
\* request the broker refuses nor one segment per line.
SegmentsFillRequests ==
  \A k \in DOMAIN segments :
    LET lines == segments[k][2] IN
      /\ Len(lines) > 1 => SizeOf(lines) < MaxReqSize
      /\ k + 1 \in DOMAIN segments =>
           LET next == file[segments[k + 1][1]] IN
             \/ next.hour # file[lines[1]].hour
             \/ \E p \in MatchedUpTo(segments[k + 1][1] - 1) :
                  p > lines[Len(lines)]     \* an epoch segment came between
             \/ SizeOf(lines) + next.size >= MaxReqSize

=============================================================================
