--------------------------- MODULE SegmenterProofs ---------------------------
(***************************************************************************)
(* Proofs about Segmenter, for every file and every request size: the      *)
(* type invariant, the order of the lines, the hour of the segments, that  *)
(* no valid line is lost, and that segments fill their requests.           *)
(***************************************************************************)
EXTENDS Segmenter, FiniteSetTheorems, WellFoundedInduction, TLAPS

\* What appending a line does to a list of positions: the positions are those
\* of the list and the new one, and an increasing list stays increasing when
\* the new position is beyond all of its own.
LEMMA AppendFacts ==
  ASSUME NEW n \in Nat, NEW list \in Seq(1 .. n)
  PROVE  /\ Append(list, n + 1) \in Seq(1 .. (n + 1))
         /\ list \in Seq(1 .. (n + 1))
         /\ Positions(Append(list, n + 1)) = Positions(list) \cup {n + 1}
         /\ Increasing(list) => Increasing(Append(list, n + 1))
<1>1. /\ Append(list, n + 1) \in Seq(1 .. (n + 1))
      /\ list \in Seq(1 .. (n + 1))
  OBVIOUS
<1> DEFINE new == Append(list, n + 1)
<1>2. /\ DOMAIN new = 1 .. (Len(list) + 1)
      /\ DOMAIN list = 1 .. Len(list)
      /\ \A i \in DOMAIN list : new[i] = list[i] /\ list[i] \in 1 .. n
      /\ new[Len(list) + 1] = n + 1
      /\ Len(list) \in Nat
  OBVIOUS
<1> HIDE DEF new
<1>3. Positions(new) = Positions(list) \cup {n + 1}
  <2>1. \A x \in Positions(new) : x \in Positions(list) \cup {n + 1}
    BY <1>2 DEF Positions
  <2>2. \A x \in Positions(list) : x \in Positions(new)
    BY <1>2 DEF Positions
  <2>3. n + 1 \in Positions(new)
    BY <1>2 DEF Positions
  <2> QED BY <2>1, <2>2, <2>3
<1>4. ASSUME Increasing(list)
      PROVE  Increasing(new)
  <2> SUFFICES ASSUME NEW i \in DOMAIN new, NEW j \in DOMAIN new, i < j
               PROVE  new[i] < new[j]
    BY DEF Increasing
  <2>1. i \in DOMAIN list /\ new[i] = list[i] /\ list[i] \in 1 .. n
    BY <1>2
  <2>2. CASE j \in DOMAIN list
    BY <1>2, <1>4, <2>1, <2>2 DEF Increasing
  <2>3. CASE j = Len(list) + 1
    BY <1>2, <2>1, <2>3
  <2> QED BY <1>2, <2>2, <2>3
<1> QED BY <1>1, <1>3, <1>4 DEF new

-----------------------------------------------------------------------------
(* Type correctness *)

\* What the generator yields keeps its type, and stays within the lines read.
LEMMA YieldedType ==
  ASSUME TypeOK
  PROVE  Yielded \in Seq((1 .. pos) \X Seq(1 .. pos))
<1> USE DEF TypeOK
<1>1. CASE Truthy(timestamp)
  <2>1. timestamp \in 1 .. pos
    BY <1>1 DEF Truthy
  <2>2. <<timestamp, msg_list>> \in (1 .. pos) \X Seq(1 .. pos)
    BY <2>1
  <2> QED BY <1>1, <2>2 DEF Yielded
<1>2. CASE ~Truthy(timestamp)
  BY <1>2 DEF Yielded
<1> QED BY <1>1, <1>2

\* A sequence over a set is one over any larger set.
LEMMA SeqWiden ==
  ASSUME NEW S, NEW T, S \subseteq T, NEW q \in Seq(S)
  PROVE  q \in Seq(T)
OBVIOUS

\* Segments of the lines read stay so when one more line is read.
LEMMA SegmentsWiden ==
  ASSUME NEW n \in Nat, NEW segs \in Seq((1 .. n) \X Seq(1 .. n))
  PROVE  segs \in Seq((1 .. (n + 1)) \X Seq(1 .. (n + 1)))
<1>1. 1 .. n \subseteq 1 .. (n + 1)
  OBVIOUS
<1>2. Seq(1 .. n) \subseteq Seq(1 .. (n + 1))
  BY <1>1, SeqWiden
<1>3. (1 .. n) \X Seq(1 .. n) \subseteq (1 .. (n + 1)) \X Seq(1 .. (n + 1))
  BY <1>1, <1>2
<1> QED BY <1>3, SeqWiden

\* The generator keeps its type invariant whatever the file and the size of a
\* request: the positions it holds and yields are those of lines already read.
THEOREM TypeCorrect == Spec => []TypeOK
<1>1. Init => TypeOK
  BY FilesAssumption DEF Init, TypeOK, NoHour, Statuses
<1>2. TypeOK /\ [Next]_vars => TypeOK'
  <2> SUFFICES ASSUME TypeOK, [Next]_vars
               PROVE  TypeOK'
    OBVIOUS
  <2>0. ASSUME Reading
        PROVE  /\ pos + 1 \in 1 .. Len(file)
               /\ pos \in Nat
               /\ file[pos + 1] \in Line
               /\ segments \in Seq((1 .. (pos + 1)) \X Seq(1 .. (pos + 1)))
               /\ msg_list \in Seq(1 .. (pos + 1))
    <3>1. pos + 1 \in 1 .. Len(file) /\ pos \in Nat /\ file[pos + 1] \in Line
      BY <2>0 DEF Reading, TypeOK
    <3> QED BY <3>1, SegmentsWiden, AppendFacts DEF TypeOK
  <2>1. CASE SkipLine
    BY <2>0, <2>1 DEF SkipLine, TypeOK, Statuses
  <2>2. CASE ShortLine
    BY <2>0, <2>2 DEF ShortLine, TypeOK, Statuses
  <2>3. CASE AppendLine
    <3>1. msg_list' \in Seq(1 .. (pos + 1))
      BY <2>3, <2>0, AppendFacts DEF AppendLine, TypeOK
    <3>2. msg_size' \in Nat
      <4>1. msg_size' = msg_size + file[pos + 1].size
        BY <2>3 DEF AppendLine
      <4>2. msg_size \in Nat /\ file[pos + 1].size \in Nat
        BY <2>3, <2>0 DEF AppendLine, TypeOK, Line
      <4> QED BY <4>1, <4>2
    <3> QED BY <2>3, <2>0, <3>1, <3>2 DEF AppendLine, TypeOK
  <2>4. CASE StartSegment
    <3>1. segments' \in Seq((1 .. (pos + 1)) \X Seq(1 .. (pos + 1)))
      BY <2>4, <2>0, YieldedType, SegmentsWiden DEF StartSegment
    <3>2. /\ msg_list' \in Seq(1 .. (pos + 1))
          /\ msg_size' \in Nat
          /\ partition' \in Nat
      <4>1. /\ msg_list' = <<pos + 1>>
            /\ msg_size' = file[pos + 1].size
            /\ partition' = file[pos + 1].hour
        BY <2>4 DEF StartSegment, NewList
      <4>2. pos + 1 \in 1 .. (pos + 1)
        BY <2>4, <2>0 DEF StartSegment
      <4>3. file[pos + 1].size \in Nat /\ file[pos + 1].hour \in Nat
        BY <2>4, <2>0 DEF StartSegment, Line
      <4> QED BY <4>1, <4>2, <4>3
    <3>3. timestamp' \in 0 .. (pos + 1) /\ status' \in Statuses
      BY <2>4, <2>0 DEF StartSegment, TypeOK, Statuses
    <3> QED BY <2>4, <2>0, <3>1, <3>2, <3>3 DEF StartSegment, TypeOK
  <2>5. CASE EndOfFile
    BY <2>5, YieldedType DEF EndOfFile, TypeOK, Statuses
  <2>6. CASE UNCHANGED vars
    BY <2>6 DEF vars, TypeOK
  <2> QED BY <2>1, <2>2, <2>3, <2>4, <2>5, <2>6 DEF Next
<1> QED BY <1>1, <1>2, PTL DEF Spec

-----------------------------------------------------------------------------
(* Hours, order and loss: TypeOK and BuildingOneHour strengthen them *)

\* The inductive invariant: what holds of the segments needs what holds of the one
\* being built.
SegmenterInv == TypeOK /\ BuildingOneHour /\ SegmentsOfOneHour /\ InOrder /\ NothingLost

\* What Yielded is: with a time stamp that is true, the segments yielded before and
\* one more made of msg_list; without, those yielded before.
LEMMA YieldedFacts ==
  ASSUME TypeOK
  PROVE  /\ Truthy(timestamp) =>
              /\ timestamp # 0
              /\ DOMAIN Yielded = 1 .. (Len(segments) + 1)
              /\ \A k \in DOMAIN segments : Yielded[k] = segments[k]
              /\ Yielded[Len(segments) + 1][1] = timestamp
              /\ Yielded[Len(segments) + 1][2] = msg_list
         /\ ~Truthy(timestamp) => Yielded = segments
         /\ DOMAIN segments = 1 .. Len(segments)
         /\ Len(segments) \in Nat
         /\ \A k \in DOMAIN segments :
              segments[k][1] \in 1 .. pos /\ segments[k][2] \in Seq(1 .. pos)
<1>1. segments \in Seq((1 .. pos) \X Seq(1 .. pos))
  BY DEF TypeOK
<1>2. /\ DOMAIN segments = 1 .. Len(segments)
      /\ Len(segments) \in Nat
      /\ \A k \in DOMAIN segments :
           segments[k][1] \in 1 .. pos /\ segments[k][2] \in Seq(1 .. pos)
  BY <1>1
<1>3. ASSUME Truthy(timestamp)
      PROVE  /\ timestamp # 0
             /\ DOMAIN Yielded = 1 .. (Len(segments) + 1)
             /\ \A k \in DOMAIN segments : Yielded[k] = segments[k]
             /\ Yielded[Len(segments) + 1] = <<timestamp, msg_list>>
  BY <1>1, <1>3 DEF Truthy, Yielded
<1>4. ~Truthy(timestamp) => Yielded = segments
  BY DEF Yielded
<1> QED BY <1>2, <1>3, <1>4

\* What has been yielded once msg_list is yielded too.
LEMMA YieldedSent ==
  ASSUME TypeOK
  PROVE  UNION {Positions(Yielded[k][2]) : k \in DOMAIN Yielded} =
           IF Truthy(timestamp) THEN Sent \cup Held ELSE Sent
<1>1. CASE Truthy(timestamp)
  <2> DEFINE new == Yielded
             last == Len(segments) + 1
  <2>1. /\ DOMAIN new = DOMAIN segments \cup {last}
        /\ \A k \in DOMAIN segments : new[k] = segments[k]
        /\ new[last][2] = msg_list
    BY <1>1, YieldedFacts
  <2> HIDE DEF new, last
  <2>2. UNION {Positions(new[k][2]) : k \in DOMAIN new} = Sent \cup Held
    BY <2>1 DEF Sent, Held
  <2> QED BY <1>1, <2>2 DEF new
<1>2. CASE ~Truthy(timestamp)
  BY <1>2, YieldedFacts DEF Sent
<1> QED BY <1>1, <1>2

\* Every segment is of one hour after the one being built is yielded.
LEMMA YieldedHour ==
  ASSUME TypeOK, BuildingOneHour, SegmentsOfOneHour, status = "reading"
  PROVE  \A k \in DOMAIN Yielded :
           /\ Yielded[k][2] # << >>
           /\ Yielded[k][1] = Yielded[k][2][1]
           /\ \A p \in Positions(Yielded[k][2]) :
                Matches(file[p]) /\ file[p].hour = file[Yielded[k][1]].hour
<1>1. CASE Truthy(timestamp)
  <2> DEFINE new == Yielded
             last == Len(segments) + 1
  <2>1. /\ DOMAIN new = DOMAIN segments \cup {last}
        /\ \A k \in DOMAIN segments : new[k] = segments[k]
        /\ new[last][2] = msg_list
        /\ new[last][1] = timestamp
        /\ timestamp # 0
    BY <1>1, YieldedFacts
  <2> HIDE DEF new, last
  <2>2. /\ msg_list # << >>
        /\ timestamp = msg_list[1]
        /\ \A p \in Held : Matches(file[p]) /\ file[p].hour = partition
    BY <2>1 DEF BuildingOneHour
  <2>3. timestamp \in Held
    BY <2>2 DEF Held, Positions, TypeOK
  <2>4. \A p \in Held : Matches(file[p]) /\ file[p].hour = file[timestamp].hour
    BY <2>2, <2>3
  <2>5. \A k \in DOMAIN new :
           /\ new[k][2] # << >>
           /\ new[k][1] = new[k][2][1]
           /\ \A p \in Positions(new[k][2]) :
                Matches(file[p]) /\ file[p].hour = file[new[k][1]].hour
    BY <2>1, <2>2, <2>4 DEF SegmentsOfOneHour, Held
  <2> QED BY <2>5 DEF new
<1>2. CASE ~Truthy(timestamp)
  BY <1>2, YieldedFacts DEF SegmentsOfOneHour
<1> QED BY <1>1, <1>2

\* The segments stay in order after the one being built is yielded.
LEMMA YieldedOrder ==
  ASSUME TypeOK, InOrder, status = "reading"
  PROVE  \A k \in DOMAIN Yielded :
           /\ Increasing(Yielded[k][2])
           /\ \A m \in DOMAIN Yielded : k < m =>
                \A p \in Positions(Yielded[k][2]), q \in Positions(Yielded[m][2]) : p < q
<1>1. CASE Truthy(timestamp)
  <2> DEFINE new == Yielded
             last == Len(segments) + 1
  <2>1. /\ DOMAIN new = DOMAIN segments \cup {last}
        /\ \A k \in DOMAIN segments : new[k] = segments[k] /\ k \in Nat /\ k < last
        /\ new[last][2] = msg_list
        /\ last \in Nat
    BY <1>1, YieldedFacts
  <2> HIDE DEF new, last
  <2>2. \A k \in DOMAIN new : Increasing(new[k][2])
    BY <2>1 DEF InOrder
  <2>3. ASSUME NEW k \in DOMAIN new, NEW m \in DOMAIN new, k < m,
               NEW p \in Positions(new[k][2]), NEW q \in Positions(new[m][2])
        PROVE  p < q
    <3>1. k \in DOMAIN segments
      BY <2>1, <2>3
    <3>2. CASE m \in DOMAIN segments
      BY <2>1, <2>3, <3>1, <3>2 DEF InOrder
    <3>3. CASE m = last
      BY <2>1, <2>3, <3>1, <3>3 DEF InOrder, Held
    <3> QED BY <2>1, <3>2, <3>3
  <2>4. \A k \in DOMAIN new :
           /\ Increasing(new[k][2])
           /\ \A m \in DOMAIN new : k < m =>
                \A p \in Positions(new[k][2]), q \in Positions(new[m][2]) : p < q
    BY <2>2, <2>3
  <2> QED BY <2>4 DEF new
<1>2. CASE ~Truthy(timestamp)
  BY <1>2, YieldedFacts DEF InOrder
<1> QED BY <1>1, <1>2

\* The inductive step: what each step of the generator does to the segment
\* being built and to those yielded.
LEMMA SegmenterStep ==
  ASSUME SegmenterInv, TypeOK', Next
  PROVE  SegmenterInv'
<1> USE DEF SegmenterInv
<1>0. ASSUME Reading
      PROVE  /\ pos + 1 \in 1 .. Len(file)
             /\ pos \in Nat
             /\ file[pos + 1] \in Line
             /\ MatchedUpTo(pos + 1) =
                  IF Matches(file[pos + 1]) THEN MatchedUpTo(pos) \cup {pos + 1}
                                            ELSE MatchedUpTo(pos)
  <2>1. pos + 1 \in 1 .. Len(file) /\ pos \in Nat /\ file[pos + 1] \in Line
    BY <1>0 DEF Reading, TypeOK
  <2>2. 1 .. (pos + 1) = (1 .. pos) \cup {pos + 1}
    BY <2>1
  <2> QED BY <2>1, <2>2 DEF MatchedUpTo
<1>1. CASE SkipLine
  <2>1. /\ UNCHANGED <<file, msg_list, partition, timestamp, segments, status>>
        /\ status = "reading" /\ pos' = pos + 1 /\ ~Matches(file[pos + 1])
    BY <1>1 DEF SkipLine, Reading, Matches
  <2>2. BuildingOneHour' /\ SegmentsOfOneHour' /\ InOrder'
    BY <2>1 DEF BuildingOneHour, SegmentsOfOneHour, InOrder, Held, Positions,
                Increasing, Matches
  <2>3. NothingLost'
    <3>1. MatchedUpTo(pos + 1) = MatchedUpTo(pos)
      BY <1>0, <1>1, <2>1 DEF SkipLine
    <3>2. MatchedUpTo(pos)' = MatchedUpTo(pos + 1) /\ Sent' = Sent /\ Held' = Held
          /\ NoEpochLine' = NoEpochLine
      BY <2>1 DEF MatchedUpTo, Sent, Held, Positions, NoEpochLine, Matches
    <3> QED BY <2>1, <3>1, <3>2 DEF NothingLost
  <2> QED BY <2>2, <2>3
<1>2. CASE ShortLine
  <2>1. /\ UNCHANGED <<file, msg_list, partition, timestamp, segments>>
        /\ status = "reading" /\ status' = "IndexError"
        /\ pos' = pos + 1 /\ ~Matches(file[pos + 1])
    BY <1>2 DEF ShortLine, Reading, Matches
  <2>2. BuildingOneHour' /\ SegmentsOfOneHour' /\ InOrder'
    BY <2>1 DEF BuildingOneHour, SegmentsOfOneHour, InOrder, Positions,
                Increasing, Matches
  <2>3. NothingLost'
    <3>1. MatchedUpTo(pos + 1) = MatchedUpTo(pos)
      BY <1>0, <1>2, <2>1 DEF ShortLine
    <3>2. MatchedUpTo(pos)' = MatchedUpTo(pos + 1) /\ Sent' = Sent /\ Held' = Held
          /\ NoEpochLine' = NoEpochLine
      BY <2>1 DEF MatchedUpTo, Sent, Held, Positions, NoEpochLine, Matches
    <3> QED BY <2>1, <3>1, <3>2 DEF NothingLost
  <2> QED BY <2>2, <2>3
<1>3. CASE AppendLine
  <2> DEFINE l == file[pos + 1]
  <2>1. /\ UNCHANGED <<file, partition, timestamp, segments, status>>
        /\ status = "reading" /\ pos' = pos + 1
        /\ Matches(l) /\ l.hour = partition /\ l \in Line
        /\ msg_list' = Append(msg_list, pos + 1)
    BY <1>0, <1>3 DEF AppendLine, Reading, Fits
  <2>2. /\ pos \in Nat
        /\ msg_list \in Seq(1 .. pos)
        /\ Held' = Held \cup {pos + 1}
        /\ Increasing(msg_list) => Increasing(msg_list')
    <3>1. pos \in Nat /\ msg_list \in Seq(1 .. pos)
      BY DEF TypeOK
    <3> QED BY <2>1, <3>1, AppendFacts DEF Held
  <2>3. BuildingOneHour'
    <3>1. timestamp # 0
      BY <2>1 DEF BuildingOneHour, NoHour, Line
    <3>2. msg_list # << >> /\ timestamp = msg_list[1]
      BY <2>1, <3>1 DEF BuildingOneHour
    <3>3. msg_list' # << >> /\ msg_list'[1] = msg_list[1]
      BY <2>1, <2>2, <3>2
    <3>4. \A p \in Held' : Matches(file[p]) /\ file[p].hour = partition
      BY <2>1, <2>2, <3>1 DEF BuildingOneHour
    <3> QED BY <2>1, <3>1, <3>2, <3>3, <3>4 DEF BuildingOneHour, Matches
  <2>4. SegmentsOfOneHour'
    BY <2>1 DEF SegmentsOfOneHour, Positions, Matches
  <2>5. InOrder'
    <3>1. Increasing(msg_list')
      BY <2>2 DEF InOrder
    <3>2. ASSUME NEW k \in DOMAIN segments, NEW p \in Positions(segments[k][2])
          PROVE  p < pos + 1
      <4>1. segments[k][2] \in Seq(1 .. pos)
        BY YieldedFacts
      <4> QED BY <2>2, <4>1 DEF Positions
    <3>3. \A k \in DOMAIN segments :
            \A p \in Positions(segments[k][2]), q \in Held' : p < q
      BY <2>1, <2>2, <3>2 DEF InOrder
    <3> QED BY <2>1, <3>1, <3>3 DEF InOrder
  <2>6. NothingLost'
    <3>1. MatchedUpTo(pos + 1) = MatchedUpTo(pos) \cup {pos + 1}
      BY <1>0, <1>3, <2>1 DEF AppendLine
    <3>2. MatchedUpTo(pos)' = MatchedUpTo(pos + 1) /\ Sent' = Sent
          /\ NoEpochLine' = NoEpochLine
      BY <2>1 DEF MatchedUpTo, Sent, Positions, NoEpochLine, Matches
    <3> QED BY <2>1, <2>2, <3>1, <3>2 DEF NothingLost
  <2> QED BY <2>3, <2>4, <2>5, <2>6
<1>4. CASE StartSegment
  <2> DEFINE l == file[pos + 1]
  <2>1. /\ file' = file /\ pos' = pos + 1 /\ status = "reading"
        /\ Matches(l) /\ ~Fits(l)
        /\ segments' = Yielded /\ msg_list' = <<pos + 1>> /\ partition' = l.hour
        /\ \/ status' = "ValueError"
           \/ timestamp' = pos + 1 /\ status' = "reading"
    BY <1>4 DEF StartSegment, Reading, NewList
  <2>2. pos + 1 \in 1 .. Len(file) /\ pos \in Nat /\ l \in Line
    BY <1>0, <1>4 DEF StartSegment
  <2>3. Held' = {pos + 1}
    BY <2>1 DEF Held, Positions
  <2>4. BuildingOneHour'
    BY <2>1, <2>2, <2>3 DEF BuildingOneHour, Matches
  <2>5. SegmentsOfOneHour'
    BY <2>1, YieldedHour DEF SegmentsOfOneHour, Matches, Positions
  <2>6. InOrder'
    <3>1. Increasing(msg_list')
      BY <2>1 DEF Increasing
    <3>2. ASSUME NEW k \in DOMAIN segments', NEW p \in Positions(segments'[k][2])
          PROVE  p < pos + 1
      <4>1. segments'[k][2] \in Seq(1 .. pos)
        BY <2>1, YieldedType
      <4> QED BY <2>2, <4>1 DEF Positions
    <3>3. \A k \in DOMAIN segments' :
            \A p \in Positions(segments'[k][2]), q \in Held' : p < q
      BY <2>3, <3>2
    <3>4. \A k \in DOMAIN segments' :
            /\ Increasing(segments'[k][2])
            /\ \A m \in DOMAIN segments' : k < m =>
                 \A p \in Positions(segments'[k][2]), q \in Positions(segments'[m][2]) : p < q
      BY <2>1, YieldedOrder
    <3> QED BY <3>1, <3>3, <3>4 DEF InOrder, Positions, Increasing
  <2>7. NothingLost'
    <3>1. MatchedUpTo(pos + 1) = MatchedUpTo(pos) \cup {pos + 1}
      BY <1>0, <1>4, <2>1 DEF StartSegment
    <3>2. /\ \A n \in Nat : MatchedUpTo(n)' = MatchedUpTo(n)
          /\ NoEpochLine' = NoEpochLine
      BY <2>1 DEF MatchedUpTo, NoEpochLine, Matches
    <3>3. ASSUME NoEpochLine
          PROVE  Sent' = MatchedUpTo(pos)
      <4>1. Sent' = IF Truthy(timestamp) THEN Sent \cup Held ELSE Sent
        BY <2>1, YieldedSent DEF Sent
      <4>2. timestamp # 0 => Truthy(timestamp)
        BY <3>3 DEF NoEpochLine, Truthy, TypeOK
      <4>3. timestamp = 0 => ~Truthy(timestamp) /\ Held = {}
        BY <2>1 DEF Truthy, BuildingOneHour, Held, Positions
      <4> QED BY <2>1, <3>3, <4>1, <4>2, <4>3 DEF NothingLost
    <3>4. (pos' = pos + 1) /\ (pos' - 1 = pos)
      BY <2>1, <2>2
    <3> QED BY <2>1, <2>2, <2>3, <3>1, <3>2, <3>3, <3>4 DEF NothingLost
  <2> QED BY <2>4, <2>5, <2>6, <2>7
<1>5. CASE EndOfFile
  <2>1. /\ UNCHANGED <<file, pos, msg_list, partition, timestamp>>
        /\ status = "reading" /\ pos = Len(file)
        /\ segments' = Yielded
        /\ status' = IF Truthy(timestamp) THEN "done" ELSE "IOError"
    BY <1>5 DEF EndOfFile
  <2>2. BuildingOneHour'
    BY <2>1 DEF BuildingOneHour
  <2>3. SegmentsOfOneHour'
    BY <2>1, YieldedHour DEF SegmentsOfOneHour, Matches, Positions
  <2>4. InOrder'
    <3>1. \A k \in DOMAIN segments' :
            /\ Increasing(segments'[k][2])
            /\ \A m \in DOMAIN segments' : k < m =>
                 \A p \in Positions(segments'[k][2]), q \in Positions(segments'[m][2]) : p < q
      BY <2>1, YieldedOrder
    <3> QED BY <2>1, <3>1 DEF InOrder, Positions, Increasing
  <2>5. NothingLost'
    <3>1. /\ MatchedUpTo(Len(file))' = MatchedUpTo(Len(file))
          /\ NoEpochLine' = NoEpochLine
      BY <2>1 DEF MatchedUpTo, NoEpochLine, Matches
    <3>2. ASSUME NoEpochLine
          PROVE  IF timestamp = 0
                   THEN Sent \cup Held = {} /\ ~Truthy(timestamp)
                   ELSE Sent' = Sent \cup Held /\ Truthy(timestamp)
      <4>1. Sent' = IF Truthy(timestamp) THEN Sent \cup Held ELSE Sent
        BY <2>1, YieldedSent DEF Sent
      <4>2. timestamp # 0 => Truthy(timestamp)
        BY <3>2 DEF NoEpochLine, Truthy, TypeOK
      <4>3. timestamp = 0 => ~Truthy(timestamp) /\ Held = {} /\ Sent = {}
        BY <2>1 DEF Truthy, BuildingOneHour, Held, Sent, Positions
      <4> QED BY <4>1, <4>2, <4>3
    <3> QED BY <2>1, <3>1, <3>2 DEF NothingLost
  <2> QED BY <2>2, <2>3, <2>4, <2>5
<1> QED BY <1>1, <1>2, <1>3, <1>4, <1>5 DEF Next

\* The inductive invariant holds of every state the generator reaches.
LEMMA SegmenterInvariant == Spec => []SegmenterInv
<1>1. Init => SegmenterInv
  <2> SUFFICES ASSUME Init PROVE SegmenterInv
    OBVIOUS
  <2>1. TypeOK
    BY FilesAssumption DEF Init, TypeOK, NoHour, Statuses
  <2>2. BuildingOneHour /\ SegmentsOfOneHour /\ InOrder
    BY DEF Init, BuildingOneHour, SegmentsOfOneHour, InOrder, Increasing
  <2>3. NothingLost
    BY DEF Init, NothingLost, Sent, Held, Positions, MatchedUpTo
  <2> QED BY <2>1, <2>2, <2>3 DEF SegmenterInv
<1>2. SegmenterInv /\ TypeOK' /\ [Next]_vars => SegmenterInv'
  <2> SUFFICES ASSUME SegmenterInv, TypeOK', [Next]_vars
               PROVE  SegmenterInv'
    OBVIOUS
  <2>1. CASE Next
    BY <2>1, SegmenterStep
  <2>2. CASE UNCHANGED vars
    <3>1. BuildingOneHour' /\ SegmentsOfOneHour'
      BY <2>2 DEF vars, SegmenterInv, BuildingOneHour, SegmentsOfOneHour, Held,
                  Positions, Matches
    <3>2. InOrder'
      BY <2>2 DEF vars, SegmenterInv, InOrder, Held
    <3>3. NothingLost'
      BY <2>2 DEF vars, SegmenterInv, NothingLost, Sent, Held, MatchedUpTo,
                  NoEpochLine, Matches
    <3> QED BY <3>1, <3>2, <3>3 DEF SegmenterInv
  <2> QED BY <2>1, <2>2
<1> QED BY <1>1, <1>2, TypeCorrect, PTL DEF Spec

\* The three safety properties hold together: each segment is of one hour, lines
\* leave in order and once, and no valid line is lost between two segments.
THEOREM SegmentsSafe == Spec => [](SegmentsOfOneHour /\ InOrder /\ NothingLost)
<1>1. SegmenterInv => SegmentsOfOneHour /\ InOrder /\ NothingLost
  BY DEF SegmenterInv
<1> QED BY <1>1, SegmenterInvariant, PTL

\* Lines leave the generator in the order of the file and at most once, whatever
\* hours they are of and wherever the segments are cut.
THEOREM LinesLeaveInOrder == Spec => []InOrder
BY SegmentsSafe, PTL

\* A segment holds valid lines of one hour, that of the line its stamp is from.
THEOREM OneHourPerSegment == Spec => []SegmentsOfOneHour
BY SegmentsSafe, PTL

-----------------------------------------------------------------------------
(* Sums over a finite set *)

\* A set of numbers that is not empty has a least element.
LEMMA LeastNumber ==
  ASSUME NEW T \in SUBSET Nat, T # {}
  PROVE  \E n \in T : \A m \in T : n <= m
<1>1. PICK n \in T : \A m \in T : <<m, n>> \notin OpToRel(<, Nat)
  BY NatLessThanWellFounded, WFMin
<1>2. \A m \in T : ~(m < n)
  BY <1>1 DEF OpToRel
<1> QED BY <1>2

\* A set of subsets of a finite set, if not empty, has one from which no element
\* can be removed without leaving the set.
LEMMA MinimalSubset ==
  ASSUME NEW D, IsFiniteSet(D), NEW B \in SUBSET (SUBSET D), B # {}
  PROVE  \E s \in B : \A x \in s : s \ {x} \notin B
<1> DEFINE T == {Cardinality(s) : s \in B}
<1>1. \A s \in B : IsFiniteSet(s) /\ Cardinality(s) \in Nat
  BY FS_Subset, FS_CardinalityType
<1>2. T \in SUBSET Nat /\ T # {}
  BY <1>1
<1>3. PICK n \in T : \A m \in T : n <= m
  <2> HIDE DEF T
  <2> QED BY <1>2, LeastNumber
<1>4. PICK s \in B : Cardinality(s) = n
  BY <1>3
<1>5. ASSUME NEW x \in s, s \ {x} \in B
      PROVE  FALSE
  <2>1. Cardinality(s \ {x}) = Cardinality(s) - 1
    BY <1>1, FS_RemoveElement
  <2>2. Cardinality(s) <= Cardinality(s \ {x})
    BY <1>3, <1>4, <1>5
  <2> QED BY <1>1, <2>1, <2>2
<1> QED BY <1>5

\* The element a fold takes first.
Pick(s) == CHOOSE x \in s : TRUE

\* h sums the values g of the elements of each of the sets of F; of each subset of D.
SumsOver(h, F, g) ==
  h = [s \in F |-> IF s = {} THEN 0 ELSE g[Pick(s)] + h[s \ {Pick(s)}]]

Sums(h, D, g) == SumsOver(h, SUBSET D, g)

\* It is one of the set.
LEMMA PickIn ==
  ASSUME NEW s, s # {}
  PROVE  Pick(s) \in s
BY DEF Pick

\* The sums over the subsets of a finite set exist.
LEMMA SumsExist ==
  ASSUME NEW D, IsFiniteSet(D), NEW g
  PROVE  \E h : Sums(h, D, g)
<1> DEFINE Sub(n) == {s \in SUBSET D : Cardinality(s) <= n}
           T == {n \in Nat : \A h : ~SumsOver(h, Sub(n), g)}
<1>1. \A s \in SUBSET D : IsFiniteSet(s) /\ Cardinality(s) \in Nat
  BY FS_Subset, FS_CardinalityType
<1>2. Cardinality(D) \in Nat /\ SUBSET D = Sub(Cardinality(D))
  BY FS_Subset, FS_CardinalityType
<1>3. \A s \in Sub(0) : s = {}
  BY <1>1, FS_EmptySet
<1>4. ASSUME NEW n \in Nat \ {0}
      PROVE  /\ \A s \in Sub(n) : s # {} => s \ {Pick(s)} \in Sub(n - 1)
             /\ Sub(n - 1) \subseteq Sub(n)
  <2>1. ASSUME NEW s \in Sub(n), s # {}
        PROVE  s \ {Pick(s)} \in Sub(n - 1)
    <3>1. Cardinality(s \ {Pick(s)}) = Cardinality(s) - 1
      BY <1>1, <2>1, PickIn, FS_RemoveElement
    <3> QED BY <1>1, <3>1
  <2> QED BY <1>1, <2>1
<1> HIDE DEF Sub
<1>5. SUFFICES ASSUME T # {} PROVE FALSE
  <2>1. ASSUME T = {}
        PROVE  \E h : Sums(h, D, g)
    <3>1. \E h : SumsOver(h, Sub(Cardinality(D)), g)
      BY <1>2, <2>1
    <3> QED BY <1>2, <3>1 DEF Sums
  <2> QED BY <2>1
<1>6. PICK n \in T : \A m \in T : n <= m
  <2>1. T \in SUBSET Nat
    OBVIOUS
  <2> HIDE DEF T
  <2> QED BY <1>5, <2>1, LeastNumber
<1>7. n # 0
  <2>1. SumsOver([s \in Sub(0) |-> 0], Sub(0), g)
    BY <1>3 DEF SumsOver
  <2> QED BY <2>1
<1>8. PICK h : SumsOver(h, Sub(n - 1), g)
  <2>1. n - 1 \in Nat /\ n - 1 \notin T
    <3>1. n \in Nat
      OBVIOUS
    <3> HIDE DEF T
    <3> QED BY <1>6, <1>7, <3>1
  <2> QED BY <2>1
<1> DEFINE k == [s \in Sub(n) |-> IF s = {} THEN 0 ELSE g[Pick(s)] + h[s \ {Pick(s)}]]
<1>9. \A s \in Sub(n - 1) : k[s] = h[s]
  BY <1>4, <1>7, <1>8 DEF SumsOver
<1>10. \A s \in Sub(n) : s # {} => k[s \ {Pick(s)}] = h[s \ {Pick(s)}]
  BY <1>4, <1>7, <1>9
<1>11. SumsOver(k, Sub(n), g)
  BY <1>10 DEF SumsOver
<1> QED BY <1>11

\* They are numbers when the values are.
LEMMA SumsType ==
  ASSUME NEW D, IsFiniteSet(D), NEW g \in [D -> Nat], NEW h, Sums(h, D, g)
  PROVE  \A s \in SUBSET D : h[s] \in Nat
<1> DEFINE B == {s \in SUBSET D : h[s] \notin Nat}
<1> SUFFICES ASSUME B # {} PROVE FALSE
  OBVIOUS
<1>1. PICK s \in B : \A x \in s : s \ {x} \notin B
  <2>1. B \in SUBSET (SUBSET D)
    OBVIOUS
  <2> HIDE DEF B
  <2> QED BY <2>1, MinimalSubset
<1>2. h[s] = IF s = {} THEN 0 ELSE g[Pick(s)] + h[s \ {Pick(s)}]
  BY <1>1 DEF Sums, SumsOver
<1>3. CASE s = {}
  BY <1>1, <1>2, <1>3
<1>4. CASE s # {}
  <2>1. Pick(s) \in s
    BY <1>4, PickIn
  <2>2. h[s \ {Pick(s)}] \in Nat /\ g[Pick(s)] \in Nat
    BY <1>1, <2>1
  <2> QED BY <1>1, <1>2, <1>4, <2>2
<1> QED BY <1>3, <1>4

\* The sum over a set depends on the values of its elements only.
LEMMA SumsAgree ==
  ASSUME NEW D, IsFiniteSet(D), NEW g, NEW h, Sums(h, D, g),
         NEW E, D \subseteq E, NEW f, NEW k, Sums(k, E, f),
         \A x \in D : f[x] = g[x]
  PROVE  \A s \in SUBSET D : h[s] = k[s]
<1> DEFINE B == {s \in SUBSET D : h[s] # k[s]}
<1> SUFFICES ASSUME B # {} PROVE FALSE
  OBVIOUS
<1>1. PICK s \in B : \A x \in s : s \ {x} \notin B
  <2>1. B \in SUBSET (SUBSET D)
    OBVIOUS
  <2> HIDE DEF B
  <2> QED BY <2>1, MinimalSubset
<1>2. /\ h[s] = IF s = {} THEN 0 ELSE g[Pick(s)] + h[s \ {Pick(s)}]
      /\ k[s] = IF s = {} THEN 0 ELSE f[Pick(s)] + k[s \ {Pick(s)}]
  BY <1>1 DEF Sums, SumsOver
<1>3. CASE s # {}
  <2>1. Pick(s) \in s
    BY <1>3, PickIn
  <2>2. h[s \ {Pick(s)}] = k[s \ {Pick(s)}] /\ g[Pick(s)] = f[Pick(s)]
    BY <1>1, <2>1
  <2> QED BY <1>1, <1>2, <1>3, <2>2
<1> QED BY <1>1, <1>2, <1>3

\* Any element may be taken first.
LEMMA SumsAny ==
  ASSUME NEW D, IsFiniteSet(D), NEW g \in [D -> Nat], NEW h, Sums(h, D, g),
         NEW set \in SUBSET D, NEW e \in set
  PROVE  h[set] = g[e] + h[set \ {e}]
<1> DEFINE B == {s \in SUBSET D : \E x \in s : h[s] # g[x] + h[s \ {x}]}
<1> SUFFICES ASSUME B # {} PROVE FALSE
  <2>1. set \notin B => h[set] = g[e] + h[set \ {e}]
    OBVIOUS
  <2> QED BY <2>1
<1>1. PICK s \in B : \A x \in s : s \ {x} \notin B
  <2>1. B \in SUBSET (SUBSET D)
    OBVIOUS
  <2> HIDE DEF B
  <2> QED BY <2>1, MinimalSubset
<1>2. PICK x \in s : h[s] # g[x] + h[s \ {x}]
  BY <1>1
<1> DEFINE p == Pick(s)
           both == s \ {x, p}
<1>3. p \in s
  BY <1>2, PickIn
<1>4. h[s] = g[p] + h[s \ {p}]
  BY <1>1, <1>2 DEF Sums, SumsOver
<1> HIDE DEF p
<1>5. x # p
  BY <1>2, <1>4
<1>6. h[s \ {p}] = g[x] + h[both]
  <2>1. s \ {p} \in SUBSET D /\ s \ {p} \notin B /\ x \in s \ {p}
    BY <1>1, <1>2, <1>3, <1>5
  <2>2. (s \ {p}) \ {x} = both
    OBVIOUS
  <2> HIDE DEF both
  <2> QED BY <2>1, <2>2
<1>7. h[s \ {x}] = g[p] + h[both]
  <2>1. s \ {x} \in SUBSET D /\ s \ {x} \notin B /\ p \in s \ {x}
    BY <1>1, <1>2, <1>3, <1>5
  <2>2. (s \ {x}) \ {p} = both
    OBVIOUS
  <2> HIDE DEF both
  <2> QED BY <2>1, <2>2
<1>8. both \in SUBSET D /\ h[both] \in Nat /\ g[x] \in Nat /\ g[p] \in Nat
  BY <1>1, <1>2, <1>3, SumsType
<1> HIDE DEF both
<1> QED BY <1>2, <1>4, <1>6, <1>7, <1>8

\* With one element more, the sum grows by its value.
LEMMA SumsGrow ==
  ASSUME NEW D, IsFiniteSet(D), NEW g \in [D -> Nat], NEW h, Sums(h, D, g),
         NEW E, IsFiniteSet(E), NEW f \in [E -> Nat], NEW k, Sums(k, E, f),
         NEW x \in E, D = E \ {x}, \A y \in D : f[y] = g[y]
  PROVE  h[D] \in Nat /\ k[E] = f[x] + h[D]
<1>1. \A s \in SUBSET D : h[s] = k[s]
  <2>1. D \subseteq E
    OBVIOUS
  <2> QED BY <2>1, SumsAgree
<1>2. k[E] = f[x] + k[E \ {x}]
  BY SumsAny
<1>3. h[D] \in Nat
  BY SumsType
<1> QED BY <1>1, <1>2, <1>3

-----------------------------------------------------------------------------
(* The size of a list of lines *)

\* The sizes of the lines of a list.
SizesOf(list) == [i \in DOMAIN list |-> file[list[i]].size]

\* The fold by which SizeOf is defined is a sum over the places of the list.
LEMMA SizeOfIsSum ==
  ASSUME NEW list, IsFiniteSet(DOMAIN list)
  PROVE  \E h : Sums(h, DOMAIN list, SizesOf(list)) /\ SizeOf(list) = h[DOMAIN list]
<1> DEFINE Total(it) == it = [s \in SUBSET DOMAIN list |->
                               IF s = {} THEN 0 ELSE file[list[Pick(s)]].size + it[s \ {Pick(s)}]]
           h == CHOOSE it : Total(it)
<1>1. SizeOf(list) = h[DOMAIN list]
  BY DEF SizeOf, MapThenSumSet, MapThenFoldSet, Pick
<1>2. \A it : Sums(it, DOMAIN list, SizesOf(list)) <=> Total(it)
  BY PickIn DEF Sums, SumsOver, SizesOf
<1>3. Total(h)
  BY <1>2, SumsExist
<1> HIDE DEF h
<1> QED BY <1>1, <1>2, <1>3

\* No lines have no size.
LEMMA SizeOfNone == SizeOf(<< >>) = 0
<1>1. DOMAIN << >> = {} /\ IsFiniteSet({})
  BY FS_EmptySet
<1>2. PICK h : Sums(h, {}, SizesOf(<< >>)) /\ SizeOf(<< >>) = h[{}]
  BY <1>1, SizeOfIsSum
<1> QED BY <1>2 DEF Sums, SumsOver

\* The size of a list of one line is that of the line.
LEMMA SizeOfOne ==
  ASSUME file \in Seq(Line), NEW p \in DOMAIN file
  PROVE  SizeOf(<<p>>) = file[p].size
<1> DEFINE list == <<p>>
<1>1. DOMAIN list = {1} /\ list[1] = p /\ IsFiniteSet({1}) /\ file[p].size \in Nat
  <2>1. file[p] \in Line
    OBVIOUS
  <2>2. file[p].size \in Nat
    BY <2>1 DEF Line
  <2>3. IsFiniteSet({1})
    BY FS_Singleton
  <2> QED BY <2>2, <2>3
<1> HIDE DEF list
<1>2. PICK h : Sums(h, DOMAIN list, SizesOf(list)) /\ SizeOf(list) = h[DOMAIN list]
  BY <1>1, SizeOfIsSum
<1>3. h[{1}] = SizesOf(list)[1] + h[{}] /\ h[{}] = 0
  <2>1. Pick({1}) = 1
    BY PickIn
  <2>2. {1} \ {1} = {}
    OBVIOUS
  <2> QED BY <1>1, <1>2, <2>1, <2>2 DEF Sums, SumsOver
<1>4. SizesOf(list)[1] = file[p].size
  BY <1>1 DEF SizesOf
<1> QED BY <1>1, <1>2, <1>3, <1>4 DEF list

\* A list with one place more is larger by the size of its last line.
LEMMA SizeOfMore ==
  ASSUME NEW list, NEW more, NEW n \in Nat,
         DOMAIN list = 1 .. n, DOMAIN more = 1 .. (n + 1),
         \A i \in 1 .. n : more[i] = list[i],
         \A i \in 1 .. (n + 1) : file[more[i]].size \in Nat
  PROVE  /\ SizeOf(list) \in Nat
         /\ SizeOf(more) = SizeOf(list) + file[more[n + 1]].size
<1>1. PICK D, E, x : D = DOMAIN list /\ E = DOMAIN more /\ x = n + 1
  OBVIOUS
<1>2. x \in E /\ D = E \ {x} /\ IsFiniteSet(D) /\ IsFiniteSet(E)
  <2>1. n \in Int /\ n + 1 \in Int /\ 1 \in Int
    OBVIOUS
  <2>2. IsFiniteSet(1 .. n) /\ IsFiniteSet(1 .. (n + 1))
    BY <2>1, FS_Interval
  <2> QED BY <1>1, <2>2
<1>3. PICK f, g : f = SizesOf(more) /\ g = SizesOf(list)
  OBVIOUS
<1>4. g \in [D -> Nat] /\ f \in [E -> Nat] /\ \A i \in D : f[i] = g[i]
  BY <1>1, <1>2, <1>3 DEF SizesOf
<1>5. PICK h : Sums(h, D, g) /\ SizeOf(list) = h[D]
  BY <1>1, <1>2, <1>3, SizeOfIsSum
<1>6. PICK k : Sums(k, E, f) /\ SizeOf(more) = k[E]
  BY <1>1, <1>2, <1>3, SizeOfIsSum
<1>7. h[D] \in Nat /\ k[E] = f[x] + h[D]
  BY <1>2, <1>4, <1>5, <1>6, SumsGrow
<1>8. f[x] = file[more[n + 1]].size /\ f[x] \in Nat
  BY <1>1, <1>2, <1>3 DEF SizesOf
<1> QED BY <1>5, <1>6, <1>7, <1>8

\* A size is a number, and appending a line adds its own.
LEMMA SizeOfAppend ==
  ASSUME file \in Seq(Line), NEW list \in Seq(DOMAIN file), NEW p \in DOMAIN file
  PROVE  /\ SizeOf(list) \in Nat
         /\ SizeOf(Append(list, p)) = SizeOf(list) + file[p].size
<1> DEFINE more == Append(list, p)
           n == Len(list)
<1>1. /\ n \in Nat /\ DOMAIN list = 1 .. n /\ DOMAIN more = 1 .. (n + 1)
      /\ \A i \in 1 .. n : more[i] = list[i]
      /\ \A i \in 1 .. (n + 1) : more[i] \in DOMAIN file
      /\ more[n + 1] = p
  OBVIOUS
<1>2. \A q \in DOMAIN file : file[q].size \in Nat
  <2>1. \A q \in DOMAIN file : file[q] \in Line
    OBVIOUS
  <2> QED BY <2>1 DEF Line
<1> HIDE DEF more, n
<1>3. \A i \in 1 .. (n + 1) : file[more[i]].size \in Nat
  BY <1>1, <1>2
<1>4. /\ SizeOf(list) \in Nat
      /\ SizeOf(more) = SizeOf(list) + file[more[n + 1]].size
  BY <1>1, <1>3, SizeOfMore
<1> QED BY <1>1, <1>4 DEF more

\* The size of a list of lines is what it was while the file is.
LEMMA SizeOfStays ==
  ASSUME NEW list, file' = file
  PROVE  SizeOf(list)' = SizeOf(list)
BY DEF SizeOf, MapThenSumSet, MapThenFoldSet

-----------------------------------------------------------------------------
(* Segments fill their requests: SegmenterInv and BuildingFills strengthen it *)

\* A segment of these lines was ended because the one that starts at start had to be:
\* by its hour, by a segment in between that was not yielded, or by its size.
EndedFor(lines, start) ==
  \/ file[start].hour # file[lines[1]].hour
  \/ \E p \in MatchedUpTo(start - 1) : p > lines[Len(lines)]
  \/ SizeOf(lines) + file[start].size >= MaxReqSize

\* The lines are one, or fit in a request.
FitInRequest(lines) == Len(lines) > 1 => SizeOf(lines) < MaxReqSize

\* What SegmentsFillRequests needs of the segment being built: msg_size is its size,
\* it fits in a request, and the last segment yielded was ended for its first line.
BuildingFills ==
  status = "reading" =>
    /\ msg_size = SizeOf(msg_list)
    /\ FitInRequest(msg_list)
    /\ timestamp # 0 /\ segments # << >> =>
         EndedFor(segments[Len(segments)][2], timestamp)

\* Both are as they were while the file is.
LEMMA EndingStays ==
  ASSUME NEW lines, NEW start, file' = file
  PROVE  /\ EndedFor(lines, start)' <=> EndedFor(lines, start)
         /\ FitInRequest(lines)' <=> FitInRequest(lines)
BY SizeOfStays DEF EndedFor, FitInRequest, MatchedUpTo, Matches

\* SegmentsFillRequests, of the segments by their number.
LEMMA FilledByNumber ==
  SegmentsFillRequests <=>
    \A k \in DOMAIN segments :
      /\ FitInRequest(segments[k][2])
      /\ k + 1 \in DOMAIN segments => EndedFor(segments[k][2], segments[k + 1][1])
BY DEF SegmentsFillRequests, FitInRequest, EndedFor

\* The segments fill their requests after the one being built is yielded.
LEMMA YieldedFill ==
  ASSUME TypeOK, BuildingFills, SegmentsFillRequests, status = "reading"
  PROVE  \A k \in DOMAIN Yielded :
           /\ FitInRequest(Yielded[k][2])
           /\ k + 1 \in DOMAIN Yielded => EndedFor(Yielded[k][2], Yielded[k + 1][1])
<1>1. CASE Truthy(timestamp)
  <2> DEFINE new == Yielded
             last == Len(segments) + 1
  <2>1. /\ DOMAIN new = DOMAIN segments \cup {last}
        /\ \A k \in DOMAIN segments : new[k] = segments[k] /\ k \in Nat /\ k < last
        /\ new[last][1] = timestamp
        /\ new[last][2] = msg_list
        /\ DOMAIN segments = 1 .. Len(segments)
        /\ Len(segments) \in Nat
        /\ timestamp # 0
    BY <1>1, YieldedFacts
  <2>2. last + 1 \notin DOMAIN new
    BY <2>1
  <2> HIDE DEF new
  <2>3. FitInRequest(new[last][2])
    BY <2>1 DEF BuildingFills
  <2>4. ASSUME NEW k \in DOMAIN segments
        PROVE  /\ FitInRequest(new[k][2])
               /\ k + 1 \in DOMAIN new => EndedFor(new[k][2], new[k + 1][1])
    <3>1. new[k] = segments[k] /\ FitInRequest(segments[k][2])
      BY <2>1, FilledByNumber
    <3>2. CASE k = Len(segments)
      <4>1. segments # << >> /\ k + 1 = last
        BY <2>1, <3>2
      <4>2. EndedFor(segments[k][2], timestamp)
        BY <2>1, <3>2, <4>1 DEF BuildingFills
      <4> QED BY <2>1, <3>1, <4>1, <4>2
    <3>3. CASE k # Len(segments)
      <4>1. k + 1 \in DOMAIN segments
        BY <2>1, <3>3
      <4>2. EndedFor(segments[k][2], segments[k + 1][1])
        BY <4>1, FilledByNumber
      <4> QED BY <2>1, <3>1, <4>1, <4>2
    <3> QED BY <3>2, <3>3
  <2>5. \A k \in DOMAIN new :
           /\ FitInRequest(new[k][2])
           /\ k + 1 \in DOMAIN new => EndedFor(new[k][2], new[k + 1][1])
    BY <2>1, <2>2, <2>3, <2>4
  <2> QED BY <2>5 DEF new
<1>2. CASE ~Truthy(timestamp)
  BY <1>2, YieldedFacts, FilledByNumber
<1> QED BY <1>1, <1>2

\* A step that yields what Yielded is leaves segments that fill their requests.
LEMMA YieldingFills ==
  ASSUME TypeOK, BuildingFills, SegmentsFillRequests, status = "reading",
         segments' = Yielded, file' = file
  PROVE  SegmentsFillRequests'
<1>1. PICK segs : segs = segments'
  OBVIOUS
<1>2. \A k \in DOMAIN segs :
        /\ FitInRequest(segs[k][2])
        /\ k + 1 \in DOMAIN segs => EndedFor(segs[k][2], segs[k + 1][1])
  BY <1>1, YieldedFill
<1>3. ASSUME NEW k \in DOMAIN segs
      PROVE  /\ FitInRequest(segs[k][2])'
             /\ k + 1 \in DOMAIN segs => EndedFor(segs[k][2], segs[k + 1][1])'
  BY <1>2, EndingStays
<1> QED BY <1>1, <1>3 DEF SegmentsFillRequests, FitInRequest, EndedFor

\* The last element of a sequence that is not empty.
LEMMA LastOf ==
  ASSUME NEW S, NEW q \in Seq(S), q # << >>
  PROVE  q[Len(q)] \in S
OBVIOUS

\* The line that does not fit is the reason the segment before it ended.
LEMMA StartingEnds ==
  ASSUME SegmenterInv, BuildingFills, Reading, Matches(file[pos + 1]),
         ~Fits(file[pos + 1]), Yielded # << >>
  PROVE  EndedFor(Yielded[Len(Yielded)][2], pos + 1)
<1> DEFINE l == file[pos + 1]
           start == pos + 1
<1>1. /\ status = "reading" /\ pos \in Nat /\ pos + 1 - 1 = pos /\ l \in Line
      /\ msg_list \in Seq(1 .. pos)
  BY DEF SegmenterInv, TypeOK, Reading
<1>2. timestamp # 0
  <2>1. timestamp = 0 => Yielded = segments /\ segments = << >>
    BY <1>1 DEF SegmenterInv, BuildingOneHour, Yielded, Truthy
  <2> QED BY <2>1
<1>3. /\ msg_list # << >> /\ timestamp = msg_list[1] /\ timestamp \in Held
      /\ Matches(file[timestamp]) /\ file[timestamp].hour = partition
      /\ timestamp \in 1 .. pos
  <2>1. msg_list # << >> /\ timestamp = msg_list[1]
    BY <1>1, <1>2 DEF SegmenterInv, BuildingOneHour
  <2>2. timestamp \in Held /\ timestamp \in 1 .. pos
    BY <1>1, <2>1 DEF Held, Positions
  <2> QED BY <1>1, <1>2, <2>1, <2>2 DEF SegmenterInv, BuildingOneHour
<1>4. CASE Truthy(timestamp)
  <2>1. Yielded[Len(Yielded)][2] = msg_list
    BY <1>4 DEF SegmenterInv, TypeOK, Yielded
  <2>2. l.hour # file[msg_list[1]].hour \/ SizeOf(msg_list) + l.size >= MaxReqSize
    <3>1. msg_size = SizeOf(msg_list) /\ msg_size \in Nat /\ l.size \in Nat
      BY <1>1 DEF BuildingFills, SegmenterInv, TypeOK, Line
    <3> QED BY <1>3, <3>1, SizeAssumption DEF Fits
  <2> QED BY <2>1, <2>2 DEF EndedFor
<1>5. CASE ~Truthy(timestamp)
  <2>1. Yielded = segments
    BY <1>5 DEF Yielded
  <2>2. PICK k : k = Len(segments)
    OBVIOUS
  <2>3. k \in DOMAIN segments /\ segments[k][2] \in Seq(1 .. pos)
    BY <2>1, <2>2 DEF SegmenterInv, TypeOK
  <2>4. PICK lines : lines = segments[k][2]
    OBVIOUS
  <2>5. lines # << >>
    BY <2>3, <2>4 DEF SegmenterInv, SegmentsOfOneHour
  <2>6. lines[Len(lines)] \in Positions(lines)
    BY <2>3, <2>4, <2>5 DEF Positions
  <2>7. lines[Len(lines)] < timestamp
    BY <1>1, <1>3, <2>3, <2>4, <2>6 DEF SegmenterInv, InOrder
  <2>8. timestamp \in MatchedUpTo(pos)
    BY <1>3 DEF MatchedUpTo
  <2>9. lines[Len(lines)] \in Nat /\ timestamp \in Nat
    <3>1. lines \in Seq(1 .. pos)
      BY <2>3, <2>4
    <3>2. lines[Len(lines)] \in 1 .. pos
      BY <2>5, <3>1, LastOf
    <3> QED BY <1>1, <1>3, <3>2
  <2> QED BY <1>1, <2>1, <2>2, <2>4, <2>7, <2>8, <2>9 DEF EndedFor
<1> QED BY <1>4, <1>5

\* A step that leaves the lists alone leaves their sizes.
LEMMA SameFills ==
  ASSUME BuildingFills, SegmentsFillRequests,
         UNCHANGED <<file, msg_list, msg_size, timestamp, segments>>,
         status' = "reading" => status = "reading"
  PROVE  BuildingFills' /\ SegmentsFillRequests'
<1>1. PICK list, segs : list = msg_list /\ segs = segments
  OBVIOUS
<1>2. PICK lines, stamp : lines = segs[Len(segs)][2] /\ stamp = timestamp
  OBVIOUS
<1>3. BuildingFills'
  <2>1. /\ SizeOf(list)' = SizeOf(list)
        /\ FitInRequest(list)' <=> FitInRequest(list)
        /\ EndedFor(lines, stamp)' <=> EndedFor(lines, stamp)
    BY SizeOfStays, EndingStays
  <2> QED BY <1>1, <1>2, <2>1 DEF BuildingFills
<1>4. SegmentsFillRequests'
  <2>1. ASSUME NEW k \in DOMAIN segs
        PROVE  /\ FitInRequest(segs[k][2])'
               /\ k + 1 \in DOMAIN segs => EndedFor(segs[k][2], segs[k + 1][1])'
    BY <1>1, FilledByNumber, EndingStays
  <2> QED BY <1>1, <2>1 DEF SegmentsFillRequests, FitInRequest, EndedFor
<1> QED BY <1>3, <1>4

\* What each step does to the size of the segment being built.
LEMMA FillStep ==
  ASSUME SegmenterInv, BuildingFills, SegmentsFillRequests, TypeOK', Next
  PROVE  BuildingFills' /\ SegmentsFillRequests'
<1>1. TypeOK
  BY DEF SegmenterInv
<1>3. CASE SkipLine
  BY <1>3, SameFills DEF SkipLine
<1>4. CASE ShortLine
  BY <1>4, SameFills DEF ShortLine
<1>5. CASE AppendLine
  <2> DEFINE l == file[pos + 1]
  <2>1. /\ UNCHANGED <<file, timestamp, segments, status>>
        /\ status = "reading" /\ pos + 1 \in 1 .. Len(file)
        /\ msg_size + l.size < MaxReqSize
        /\ msg_list' = Append(msg_list, pos + 1)
        /\ msg_size' = msg_size + l.size
    BY <1>1, <1>5 DEF AppendLine, Reading, Fits, TypeOK
  <2>2. PICK list, segs : list = msg_list' /\ segs = segments
    OBVIOUS
  <2>3. PICK lines, stamp : lines = segs[Len(segs)][2] /\ stamp = timestamp
    OBVIOUS
  <2>4. SizeOf(list) = msg_size'
    <3>1. file \in Seq(Line) /\ msg_list \in Seq(DOMAIN file) /\ pos + 1 \in DOMAIN file
      BY <1>1, <2>1, SeqWiden DEF TypeOK
    <3> QED BY <2>1, <2>2, <3>1, SizeOfAppend DEF BuildingFills
  <2>5. BuildingFills'
    <3>1. /\ SizeOf(list)' = SizeOf(list)
          /\ FitInRequest(list)' <=> FitInRequest(list)
          /\ EndedFor(lines, stamp)' <=> EndedFor(lines, stamp)
      BY <2>1, SizeOfStays, EndingStays
    <3>2. FitInRequest(list)
      BY <2>1, <2>4 DEF FitInRequest
    <3>3. timestamp # 0 /\ segs # << >> => EndedFor(lines, stamp)
      BY <2>1, <2>2, <2>3 DEF BuildingFills
    <3> QED BY <2>1, <2>2, <2>3, <2>4, <3>1, <3>2, <3>3 DEF BuildingFills
  <2>6. SegmentsFillRequests'
    <3>1. ASSUME NEW k \in DOMAIN segs
          PROVE  /\ FitInRequest(segs[k][2])'
                 /\ k + 1 \in DOMAIN segs => EndedFor(segs[k][2], segs[k + 1][1])'
      BY <2>1, <2>2, FilledByNumber, EndingStays
    <3> QED BY <2>1, <2>2, <3>1 DEF SegmentsFillRequests, FitInRequest, EndedFor
  <2> QED BY <2>5, <2>6
<1>6. CASE StartSegment
  <2> DEFINE l == file[pos + 1]
  <2>1. /\ file' = file /\ segments' = Yielded /\ status = "reading"
        /\ Reading /\ Matches(l) /\ ~Fits(l)
        /\ msg_list' = <<pos + 1>> /\ msg_size' = l.size
        /\ status' = "reading" => timestamp' = pos + 1
        /\ pos + 1 \in 1 .. Len(file)
    BY <1>1, <1>6 DEF StartSegment, Reading, NewList, TypeOK
  <2>2. SegmentsFillRequests'
    BY <1>1, <2>1, YieldingFills
  <2>3. PICK list, segs, start : list = <<pos + 1>> /\ segs = Yielded /\ start = pos + 1
    OBVIOUS
  <2>4. PICK lines : lines = segs[Len(segs)][2]
    OBVIOUS
  <2>5. /\ SizeOf(list)' = SizeOf(list)
        /\ FitInRequest(list)' <=> FitInRequest(list)
        /\ EndedFor(lines, start)' <=> EndedFor(lines, start)
    BY <2>1, SizeOfStays, EndingStays
  <2>6. SizeOf(list) = l.size
    <3>1. file \in Seq(Line) /\ start \in DOMAIN file
      BY <1>1, <2>1, <2>3 DEF TypeOK
    <3> QED BY <2>3, <3>1, SizeOfOne
  <2>7. FitInRequest(list)
    BY <2>3 DEF FitInRequest
  <2>8. segs # << >> => EndedFor(lines, start)
    BY <2>1, <2>3, <2>4, StartingEnds
  <2>9. BuildingFills'
    <3>1. list = msg_list' /\ segs = segments'
      BY <2>1, <2>3
    <3> QED BY <2>1, <2>3, <2>4, <2>5, <2>6, <2>7, <2>8, <3>1 DEF BuildingFills
  <2> QED BY <2>2, <2>9
<1>7. CASE EndOfFile
  <2>1. /\ file' = file /\ segments' = Yielded /\ status = "reading"
        /\ status' # "reading"
    BY <1>7 DEF EndOfFile
  <2> QED BY <1>1, <2>1, YieldingFills DEF BuildingFills
<1> QED BY <1>3, <1>4, <1>5, <1>6, <1>7 DEF Next

\* No segment of several lines outgrows a request, and none ends before the hour does
\* or the next line would not fit.
THEOREM SegmentsFill == Spec => []SegmentsFillRequests
<1> DEFINE FillInv == BuildingFills /\ SegmentsFillRequests
<1>1. Init => FillInv
  <2> SUFFICES ASSUME Init PROVE FillInv
    OBVIOUS
  <2>1. SizeOf(<< >>) = 0
    BY SizeOfNone
  <2> QED BY <2>1 DEF Init, BuildingFills, FitInRequest, SegmentsFillRequests
<1>2. FillInv /\ SegmenterInv /\ TypeOK' /\ [Next]_vars => FillInv'
  <2> SUFFICES ASSUME FillInv, SegmenterInv, TypeOK', [Next]_vars
               PROVE  FillInv'
    OBVIOUS
  <2>1. CASE Next
    BY <2>1, FillStep
  <2>2. CASE UNCHANGED vars
    BY <2>2, SameFills DEF vars
  <2> QED BY <2>1, <2>2
<1>3. Spec => []SegmenterInv
  BY SegmenterInvariant
<1> QED BY <1>1, <1>2, <1>3, TypeCorrect, PTL DEF Spec

=============================================================================
