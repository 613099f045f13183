---------------------- MODULE DistributedCollectorProofs ----------------------
(***************************************************************************)
(* Proofs about DistributedCollector, for every set of paths and of pool   *)
(* processes and every bound: files are conserved and kept in order from   *)
(* the observer thread to the pool, the collector's state is well typed, a *)
(* process sends what its file's name stands for, and each segment of a    *)
(* file that is reported a success is accounted for.                       *)
(***************************************************************************)
EXTENDS DistributedCollector, SequenceTheorems, FiniteSetTheorems, TLAPS

-----------------------------------------------------------------------------
(* The inductive invariant, in two halves *)

\* What the observer and the queue are while the main thread is at each point.
Phases ==
  /\ pc = "new" => observer = "new"
  /\ InLoop \/ pc \in {"finally", "killed"} => observer = "running"
  /\ pc = "join" => observer = "stopping"
  /\ pc \in {"drop", "pooljoin", "stopped", "gone"} => observer = "joined"
  /\ pc \notin {"drop", "pooljoin", "stopped", "gone"} => dropped = << >>
  /\ pc \in {"pooljoin", "stopped", "gone"} => queue = << >>

\* The handover of files, which no step of a process of the pool touches.
HandoverInv == WatcherTypeOK /\ MainTypeOK /\ Phases /\ FilesConserved

\* What a process may read.
Readable(inode) == inode # 0 => content[inode] \in Paths

ContentsReadable ==
  /\ SkipConversion => \A n \in StagingNames : Readable(staging[n])
  /\ \A w \in Workers :
       /\ worker[w].pc = "open" => Readable(staging[StagingName(worker[w].task)])
       /\ worker[w].pc \in {"sending", "store"} =>
            worker[w].inode # 0 /\ Readable(worker[w].inode)
       /\ worker[w].pc = "store" => worker[w].items \in Messages

UntakenHaveNoResult == \A t \in Tasks : t > taken => report[t] = "none"

\* A task is run by at most one process, and by none once it has a result.
TaskRunsOnce ==
  \A w \in Workers : worker[w].pc # "idle" =>
    /\ report[worker[w].task] = "none"
    /\ \A v \in Workers \ {w} :
         worker[v].pc # "idle" => worker[v].task # worker[w].task

\* The pool and its processes.
PoolInv == PoolTypeOK /\ ContentsReadable /\ UntakenHaveNoResult /\ TaskRunsOnce

-----------------------------------------------------------------------------
(* Sequences *)

\* What Reverse returns.
LEMMA ReverseFacts ==
  ASSUME NEW S, NEW q \in Seq(S)
  PROVE  /\ Reverse(q) \in Seq(S)
         /\ Len(Reverse(q)) = Len(q)
         /\ \A i \in 1 .. Len(q) : Reverse(q)[i] = q[(Len(q) - i) + 1]
<1>1. Len(q) \in Nat /\ \A i \in 1 .. Len(q) : q[i] \in S
  BY LenProperties, ElementOfSeq
<1>2. \A i \in 1 .. Len(q) : (Len(q) - i) + 1 \in 1 .. Len(q)
  BY <1>1
<1>3. Reverse(q) = [i \in 1 .. Len(q) |-> q[(Len(q) - i) + 1]]
  BY DEF Reverse
<1>4. Reverse(q) \in [1 .. Len(q) -> S]
  BY <1>1, <1>2, <1>3
<1> QED BY <1>1, <1>3, <1>4

\* A one-element sequence.
LEMMA Singleton ==
  ASSUME NEW S, NEW x \in S
  PROVE  <<x>> \in Seq(S) /\ Len(<<x>>) = 1 /\ <<x>>[1] = x
OBVIOUS

\* A file inserted at index 0 is the last of the reversed queue.
LEMMA ReverseInsert ==
  ASSUME NEW S, NEW q \in Seq(S), NEW x \in S
  PROVE  /\ <<x>> \o q \in Seq(S)
         /\ Reverse(<<x>> \o q) = Append(Reverse(q), x)
<1> DEFINE new == <<x>> \o q
           old == Reverse(q)
           n == Len(q)
<1>1. n \in Nat
  BY LenProperties
<1>2. /\ new \in Seq(S)
      /\ Len(new) = n + 1
      /\ new[1] = x
      /\ \A i \in 1 .. n : new[i + 1] = q[i]
  <2>1. <<x>> \in Seq(S) /\ Len(<<x>>) = 1 /\ <<x>>[1] = x
    BY Singleton
  <2>2. /\ new \in Seq(S)
        /\ Len(new) = 1 + n
        /\ \A i \in 1 .. 1 + n : new[i] = IF i <= 1 THEN <<x>>[i] ELSE q[i - 1]
    BY <2>1, ConcatProperties
  <2> HIDE DEF new, n
  <2> QED BY <1>1, <2>1, <2>2
<1>3. /\ old \in Seq(S)
      /\ Len(old) = n
      /\ \A i \in 1 .. n : old[i] = q[(n - i) + 1]
  BY ReverseFacts
<1>4. /\ Reverse(new) \in Seq(S)
      /\ Len(Reverse(new)) = Len(new)
      /\ \A i \in 1 .. Len(new) : Reverse(new)[i] = new[(Len(new) - i) + 1]
  BY <1>2, ReverseFacts
<1>5. /\ Append(old, x) \in Seq(S)
      /\ Len(Append(old, x)) = Len(old) + 1
      /\ \A i \in 1 .. Len(old) : Append(old, x)[i] = old[i]
      /\ Append(old, x)[Len(old) + 1] = x
  BY <1>3, AppendProperties
<1> HIDE DEF new, old, n
<1>6. ASSUME NEW i \in 1 .. Len(Reverse(new))
      PROVE  Reverse(new)[i] = Append(old, x)[i]
  <2>1. i \in 1 .. (n + 1)
    BY <1>2, <1>4
  <2>2. CASE i = n + 1
    BY <2>2, <1>1, <1>2, <1>3, <1>4, <1>5
  <2>3. CASE i \in 1 .. n
    <3>1. (n - i) + 1 \in 1 .. n /\ ((n + 1) - i) + 1 = ((n - i) + 1) + 1
      BY <2>3, <1>1
    <3>2. Reverse(new)[i] = new[((n + 1) - i) + 1]
      BY <2>1, <1>2, <1>4
    <3>3. new[((n - i) + 1) + 1] = q[(n - i) + 1]
      BY <3>1, <1>2
    <3>4. Append(old, x)[i] = old[i] /\ old[i] = q[(n - i) + 1]
      BY <2>3, <1>3, <1>5
    <3> QED BY <3>1, <3>2, <3>3, <3>4
  <2>4. i = n + 1 \/ i \in 1 .. n
    BY <2>1, <1>1
  <2> QED BY <2>2, <2>3, <2>4
<1>7. Reverse(new) = Append(old, x)
  BY <1>2, <1>3, <1>4, <1>5, <1>6, SeqEqual
<1> QED BY <1>2, <1>7 DEF new, old

\* A file popped from the end of the list is the first of the reversed queue.
LEMMA ReversePop ==
  ASSUME NEW S, NEW q \in Seq(S), q # << >>
  PROVE  /\ q[Len(q)] \in S
         /\ SubSeq(q, 1, Len(q) - 1) \in Seq(S)
         /\ Reverse(q) = <<q[Len(q)]>> \o Reverse(SubSeq(q, 1, Len(q) - 1))
<1> DEFINE n == Len(q)
           r == SubSeq(q, 1, n - 1)
           x == q[n]
<1>1. n \in Nat \ {0}
  BY EmptySeq
<1>2. \A i \in 1 .. n : q[i] \in S
  BY ElementOfSeq
<1>3. x \in S
  BY <1>1, <1>2
<1>4. /\ r \in Seq(S)
      /\ Len(r) = n - 1
      /\ \A i \in 1 .. (n - 1) : r[i] = q[i]
  <2>1. \A i \in 1 .. (n - 1) : q[i] \in S
    BY <1>1, <1>2
  <2>2. /\ r \in Seq(S)
        /\ Len(r) = IF 1 <= n - 1 THEN (n - 1) - 1 + 1 ELSE 0
        /\ \A i \in 1 .. (n - 1) - 1 + 1 : r[i] = q[1 + i - 1]
    BY <1>1, <2>1, SubSeqProperties
  <2> HIDE DEF r, n
  <2> QED BY <1>1, <2>2
<1>5. /\ Reverse(q) \in Seq(S)
      /\ Len(Reverse(q)) = n
      /\ \A i \in 1 .. n : Reverse(q)[i] = q[(n - i) + 1]
  BY ReverseFacts
<1>6. /\ Reverse(r) \in Seq(S)
      /\ Len(Reverse(r)) = Len(r)
      /\ \A i \in 1 .. Len(r) : Reverse(r)[i] = r[(Len(r) - i) + 1]
  BY <1>4, ReverseFacts
<1> DEFINE c == <<x>> \o Reverse(r)
<1>7. /\ c \in Seq(S)
      /\ Len(c) = 1 + Len(Reverse(r))
      /\ \A i \in 1 .. 1 + Len(Reverse(r)) : c[i] = IF i <= 1 THEN x ELSE Reverse(r)[i - 1]
  <2>1. <<x>> \in Seq(S) /\ Len(<<x>>) = 1 /\ <<x>>[1] = x
    BY <1>3, Singleton
  <2>2. /\ c \in Seq(S)
        /\ Len(c) = Len(<<x>>) + Len(Reverse(r))
        /\ \A i \in 1 .. Len(<<x>>) + Len(Reverse(r)) :
             c[i] = IF i <= Len(<<x>>) THEN <<x>>[i] ELSE Reverse(r)[i - Len(<<x>>)]
    BY <2>1, <1>6, ConcatProperties
  <2>3. Len(Reverse(r)) \in Nat
    BY <1>6, LenProperties
  <2> HIDE DEF c, r, x, n
  <2> QED BY <2>1, <2>2, <2>3
<1> HIDE DEF c, r, x, n
<1>8. ASSUME NEW i \in 1 .. Len(Reverse(q))
      PROVE  Reverse(q)[i] = c[i]
  <2>1. i \in 1 .. n /\ 1 + Len(Reverse(r)) = n
    <3>1. i \in 1 .. n
      BY <1>5
    <3>2. Len(Reverse(r)) = n - 1
      BY <1>4, <1>6
    <3> QED BY <3>1, <3>2, <1>1
  <2>2. CASE i = 1
    <3>1. (n - 1) + 1 = n /\ 1 \in 1 .. n
      BY <1>1
    <3>2. Reverse(q)[1] = q[n] /\ c[1] = x
      BY <2>1, <3>1, <1>5, <1>7
    <3> QED BY <2>2, <3>2 DEF x
  <2>3. CASE i # 1
    <3>1. i - 1 \in 1 .. (n - 1) /\ (n - 1 - (i - 1)) + 1 = (n - i) + 1
          /\ (n - i) + 1 \in 1 .. (n - 1)
      BY <2>1, <2>3, <1>1
    <3>2. c[i] = Reverse(r)[i - 1]
      BY <2>1, <2>3, <1>1, <1>7
    <3>3. Reverse(r)[i - 1] = r[(n - i) + 1]
      BY <3>1, <1>4, <1>6
    <3> QED BY <2>1, <3>1, <3>2, <3>3, <1>4, <1>5
  <2> QED BY <2>2, <2>3
<1>9. Reverse(q) = c
  BY <1>1, <1>4, <1>5, <1>6, <1>7, <1>8, SeqEqual
<1> QED BY <1>3, <1>4, <1>9 DEF c, r, x, n

\* An element moves from the front of the second part to the end of the first.
LEMMA AppendMoves ==
  ASSUME NEW S, NEW a \in Seq(S), NEW b \in Seq(S), NEW x \in S
  PROVE  Append(a, x) \o b = a \o (<<x>> \o b)
<1>1. <<x>> \in Seq(S)
  BY Singleton
<1> QED BY <1>1, AppendIsConcat, ConcatAssociative

\* A sequence is its head and its tail.
LEMMA HeadTail ==
  ASSUME NEW S, NEW q \in Seq(S), q # << >>
  PROVE  /\ Head(q) \in S
         /\ Tail(q) \in Seq(S)
         /\ q = <<Head(q)>> \o Tail(q)
<1>1. Len(q) \in Nat \ {0}
  BY EmptySeq
<1>2. q = SubSeq(q, 1, Len(q))
  BY SubSeqFull
<1>3. SubSeq(q, 1, Len(q)) = <<q[1]>> \o SubSeq(q, 2, Len(q))
  BY <1>1, SubSeqRecursiveFirst
<1>4. Tail(q) = SubSeq(q, 2, Len(q))
  BY TailIsSubSeq
<1>5. Head(q) = q[1]
  OBVIOUS
<1> QED BY <1>2, <1>3, <1>4, <1>5, HeadTailProperties

-----------------------------------------------------------------------------
(* The handover of files *)

\* What the invariant of the handover is about.
handoverVars == <<watcherVars, mainVars, handed>>

\* The list comprehension has a natural number of iterations.
LEMMA ProcessesNat == Processes \in Nat
BY WorkersAssumption, FS_CardinalityType DEF Processes

\* The handover invariant holds before the collector starts.
LEMMA HandoverInit == Init => HandoverInv
<1> SUFFICES ASSUME Init PROVE HandoverInv
  OBVIOUS
<1>1. Reverse(queue) = << >>
  BY DEF Init, WatcherInit, Reverse
<1>2. WatcherTypeOK
  BY MaxDetectedAssumption DEF Init, WatcherInit, WatcherTypeOK
<1>3. MainTypeOK
  BY ProcessesNat DEF Init, MainTypeOK, MainPcs, Processes
<1>4. Phases
  BY DEF Init, WatcherInit, Phases, InLoop
<1>5. FilesConserved
  <2>1. << >> \o << >> = << >>
    BY ConcatEmptySeq, EmptySeq
  <2> QED BY <1>1, <2>1 DEF Init, WatcherInit, FilesConserved
<1> QED BY <1>2, <1>3, <1>4, <1>5 DEF HandoverInv

\* A step that changes nothing of the handover keeps its invariant.
LEMMA HandoverStutter == HandoverInv /\ UNCHANGED handoverVars => HandoverInv'
BY DEF HandoverInv, handoverVars, watcherVars, mainVars, WatcherTypeOK, MainTypeOK,
       Phases, InLoop, FilesConserved, Reverse

\* A step of the main thread that moves no file, and only changes where the
\* thread is, the flag or the iterations left.
LEMMA MoveNoFile ==
  ASSUME HandoverInv, WatcherTypeOK', MainTypeOK', Phases',
         UNCHANGED <<detected, handed, batch, dropped, queue>>
  PROVE  HandoverInv'
BY DEF HandoverInv, FilesConserved, Reverse

\* The observer thread puts a file on the queue: it joins the files detected and
\* the end of the reversed queue.
LEMMA ObserveStep == HandoverInv /\ Observe => HandoverInv'
<1> SUFFICES ASSUME HandoverInv, Observe PROVE HandoverInv'
  OBVIOUS
<1>1. PICK p \in Paths : OnCreated(p) \/ \E q \in Paths : OnMoved(p, q)
  BY DEF Observe
<1>2. PICK f \in Paths : Detect(f) /\ disk' \subseteq Paths /\ UNCHANGED <<observer, dropped>>
  <2>1. CASE OnCreated(p)
    BY <2>1 DEF OnCreated, HandoverInv, WatcherTypeOK
  <2>2. CASE \E q \in Paths : OnMoved(p, q)
    BY <2>2 DEF OnMoved, HandoverInv, WatcherTypeOK
  <2> QED BY <1>1, <2>1, <2>2
<1>3. UNCHANGED <<pc, isalive, slots, batch, handed>>
  BY DEF Observe, mainVars, poolVars
<1>4. pc \notin {"pooljoin", "stopped", "gone"} /\ observer \in {"running", "stopping"}
  BY <1>1 DEF OnCreated, OnMoved, Dispatching, HandoverInv, Phases
<1>5. MainTypeOK'
  BY <1>3 DEF HandoverInv, MainTypeOK
<1>6. Phases'
  BY <1>2, <1>3, <1>4 DEF HandoverInv, Phases, InLoop
<1>7. CASE f \in Supported
  <2>1. /\ Len(detected) < MaxDetected
        /\ queue' = <<f>> \o queue
        /\ detected' = Append(detected, f)
    BY <1>2, <1>7 DEF Detect
  <2>2. /\ queue \in Seq(Supported) /\ detected \in Seq(Supported)
        /\ batch \in Seq(Supported) /\ handed \in Seq(Supported)
        /\ dropped \in Seq(Supported)
    BY DEF HandoverInv, WatcherTypeOK, MainTypeOK
  <2>3. queue' \in Seq(Supported) /\ Reverse(queue') = Append(Reverse(queue), f)
    BY <1>7, <2>1, <2>2, ReverseInsert
  <2>4. /\ detected' \in Seq(Supported)
        /\ Len(detected') = Len(detected) + 1
    BY <1>7, <2>1, <2>2, AppendProperties
  <2>5. Len(detected') <= MaxDetected
    <3>1. Len(detected) \in Nat
      BY <2>2, LenProperties
    <3> QED BY <3>1, <2>1, <2>4, MaxDetectedAssumption
  <2>6. WatcherTypeOK'
    BY <1>2, <2>2, <2>3, <2>4, <2>5 DEF HandoverInv, WatcherTypeOK
  <2>7. FilesConserved'
    <3> DEFINE before == (handed \o batch) \o dropped
               r == Reverse(queue)
    <3>1. before \in Seq(Supported) /\ r \in Seq(Supported)
      BY <2>2, ConcatProperties, ReverseFacts
    <3>2. detected = before \o r
      BY DEF HandoverInv, FilesConserved
    <3>3. Reverse(queue') = Append(r, f)
      BY <2>3
    <3> HIDE DEF before, r
    <3>4. Append(before \o r, f) = before \o Append(r, f)
      BY <1>7, <3>1
    <3>5. detected' = before \o Reverse(queue')
      BY <2>1, <3>2, <3>3, <3>4
    <3> QED BY <1>2, <1>3, <3>5 DEF before, FilesConserved, Reverse
  <2> QED BY <1>5, <1>6, <2>6, <2>7 DEF HandoverInv
<1>8. CASE f \notin Supported
  <2>1. UNCHANGED <<queue, detected>>
    BY <1>2, <1>8 DEF Detect
  <2>2. WatcherTypeOK'
    BY <1>2, <2>1 DEF HandoverInv, WatcherTypeOK
  <2> QED BY <1>2, <1>3, <1>5, <1>6, <2>1, <2>2, MoveNoFile
<1> QED BY <1>7, <1>8

\* The main thread takes the oldest file of the queue: the first of the reversed
\* queue becomes the last of the batch.
LEMMA DequeueStep == HandoverInv /\ Dequeue => HandoverInv'
<1> SUFFICES ASSUME HandoverInv, Dequeue PROVE HandoverInv'
  OBVIOUS
<1>1. /\ pc = "dequeue" /\ slots > 0 /\ slots' = slots - 1
      /\ UNCHANGED <<pc, isalive, disk, observer, detected, dropped, handed>>
  BY DEF Dequeue, poolVars
<1>2. slots' \in 0 .. Cardinality(Workers)
  BY <1>1, ProcessesNat DEF Processes, HandoverInv, MainTypeOK
<1>3. CASE NothingToDequeue
  <2>1. UNCHANGED <<queue, batch>>
    BY <1>3 DEF Dequeue
  <2>2. WatcherTypeOK' /\ MainTypeOK' /\ Phases'
    BY <1>1, <1>2, <2>1 DEF HandoverInv, WatcherTypeOK, MainTypeOK, Phases, InLoop
  <2> QED BY <1>1, <2>1, <2>2, MoveNoFile
<1>4. CASE ~NothingToDequeue
  <2>1. queue # << >> /\ queue' = WithoutOldest /\ batch' = Append(batch, Oldest)
    BY <1>4 DEF Dequeue, NothingToDequeue
  <2>2. /\ queue \in Seq(Supported) /\ batch \in Seq(Supported) /\ handed \in Seq(Supported)
        /\ dropped = << >>
    BY <1>1 DEF HandoverInv, WatcherTypeOK, MainTypeOK, Phases
  <2>3. /\ Oldest \in Supported
        /\ queue' \in Seq(Supported)
        /\ Reverse(queue) = <<Oldest>> \o Reverse(queue')
    BY <2>1, <2>2, ReversePop DEF Oldest, WithoutOldest
  <2>4. batch' \in Seq(Supported)
    BY <2>1, <2>2, <2>3, AppendProperties
  <2>5. WatcherTypeOK' /\ MainTypeOK' /\ Phases'
    BY <1>1, <1>2, <2>3, <2>4 DEF HandoverInv, WatcherTypeOK, MainTypeOK, Phases, InLoop
  <2>6. FilesConserved'
    <3> DEFINE h == handed \o batch
               r == Reverse(queue')
    <3>1. h \in Seq(Supported) /\ r \in Seq(Supported)
      BY <2>2, <2>3, ConcatProperties, ReverseFacts
    <3>2. handed \o batch' = Append(h, Oldest)
      BY <2>1, <2>2, <2>3
    <3>3. h \o << >> = h
      BY <3>1, ConcatEmptySeq
    <3>4. Append(h, Oldest) \o << >> = Append(h, Oldest)
      BY <2>3, <3>1, AppendProperties, ConcatEmptySeq
    <3>5. Append(h, Oldest) \o r = h \o (<<Oldest>> \o r)
      <4> HIDE DEF h, r
      <4> QED BY <2>3, <3>1, AppendMoves
    <3>6. detected = (h \o << >>) \o (<<Oldest>> \o r)
      BY <2>2, <2>3 DEF HandoverInv, FilesConserved
    <3> HIDE DEF h, r
    <3>7. detected' = ((handed \o batch') \o << >>) \o r
      BY <1>1, <3>2, <3>3, <3>4, <3>5, <3>6
    <3> QED BY <1>1, <2>2, <3>7 DEF r, FilesConserved, Reverse
  <2> QED BY <2>5, <2>6 DEF HandoverInv
<1> QED BY <1>3, <1>4

\* The first file of the batch becomes the last one handed to the pool.
LEMMA DispatchStep == HandoverInv /\ Dispatch => HandoverInv'
<1> SUFFICES ASSUME HandoverInv, Dispatch PROVE HandoverInv'
  OBVIOUS
<1>1. /\ batch # << >>
      /\ handed' = Append(handed, Head(batch))
      /\ batch' = Tail(batch)
      /\ UNCHANGED <<pc, isalive, slots, disk, queue, observer, detected, dropped>>
  BY DEF Dispatch, watcherVars
<1>2. batch \in Seq(Supported) /\ handed \in Seq(Supported)
  BY DEF HandoverInv, MainTypeOK
<1>3. /\ Head(batch) \in Supported
      /\ batch' \in Seq(Supported)
      /\ batch = <<Head(batch)>> \o batch'
  BY <1>1, <1>2, HeadTail
<1>4. handed' \in Seq(Supported)
  BY <1>1, <1>2, <1>3, AppendProperties
<1>5. WatcherTypeOK' /\ MainTypeOK' /\ Phases'
  BY <1>1, <1>3, <1>4 DEF HandoverInv, WatcherTypeOK, MainTypeOK, Phases, InLoop
<1>6. handed' \o batch' = handed \o batch
  BY <1>1, <1>2, <1>3, AppendMoves
<1>7. FilesConserved'
  BY <1>1, <1>6 DEF HandoverInv, FilesConserved, Reverse
<1> QED BY <1>5, <1>7 DEF HandoverInv

\* `stop' drops the oldest file of the queue.
LEMMA DropStep == HandoverInv /\ Drop => HandoverInv'
<1> SUFFICES ASSUME HandoverInv, Drop PROVE HandoverInv'
  OBVIOUS
<1>1. /\ pc = "drop" /\ queue # << >>
      /\ dropped' = Append(dropped, Oldest)
      /\ queue' = WithoutOldest
      /\ UNCHANGED <<disk, observer, detected, pc, isalive, slots, batch, handed>>
  BY DEF Drop, DropOne, mainVars, poolVars
<1>2. /\ queue \in Seq(Supported) /\ dropped \in Seq(Supported)
      /\ batch \in Seq(Supported) /\ handed \in Seq(Supported)
  BY DEF HandoverInv, WatcherTypeOK, MainTypeOK
<1>3. /\ Oldest \in Supported
      /\ queue' \in Seq(Supported)
      /\ Reverse(queue) = <<Oldest>> \o Reverse(queue')
  BY <1>1, <1>2, ReversePop DEF Oldest, WithoutOldest
<1>4. dropped' \in Seq(Supported)
  BY <1>1, <1>2, <1>3, AppendProperties
<1>5. WatcherTypeOK' /\ MainTypeOK' /\ Phases'
  BY <1>1, <1>3, <1>4 DEF HandoverInv, WatcherTypeOK, MainTypeOK, Phases, InLoop
<1>6. FilesConserved'
  <2> DEFINE h == handed \o batch
             k == h \o dropped
             r == Reverse(queue')
  <2>1. h \in Seq(Supported) /\ k \in Seq(Supported) /\ r \in Seq(Supported)
    BY <1>2, <1>3, ConcatProperties, ReverseFacts
  <2>2. detected = k \o (<<Oldest>> \o r)
    BY <1>3 DEF HandoverInv, FilesConserved
  <2> HIDE DEF h, r
  <2>3. Append(k, Oldest) = h \o dropped'
    <3>1. Append(h \o dropped, Oldest) = h \o Append(dropped, Oldest)
      <4>1. h \in Seq(Supported) /\ dropped \in Seq(Supported) /\ Oldest \in Supported
        BY <1>2, <1>3, <2>1
      <4> QED BY <4>1
    <3> QED BY <1>1, <3>1 DEF k
  <2> HIDE DEF k
  <2>4. Append(k, Oldest) \o r = k \o (<<Oldest>> \o r)
    BY <1>3, <2>1, AppendMoves
  <2>5. detected' = (h \o dropped') \o r
    BY <1>1, <2>2, <2>3, <2>4
  <2> QED BY <1>1, <2>5 DEF h, r, FilesConserved, Reverse
<1> QED BY <1>5, <1>6 DEF HandoverInv

\* The other steps of the main thread move no file.
LEMMA ControlStep ==
  ASSUME HandoverInv,
         \/ Start \/ WakeUp \/ Dequeued \/ Dispatched \/ KeyboardInterrupt \/ SignalUsr1
         \/ Finally \/ Join \/ ClosePool \/ JoinPool \/ Destroy
  PROVE  HandoverInv'
<1> USE DEF HandoverInv, WatcherTypeOK, MainTypeOK, MainPcs, Phases, InLoop, watcherVars,
            poolVars
<1>1. CASE Start
  BY <1>1, MoveNoFile DEF Start, WatcherStart
<1>2. CASE WakeUp
  BY <1>2, MoveNoFile, ProcessesNat DEF WakeUp, Processes
<1>3. CASE Dequeued
  BY <1>3, MoveNoFile DEF Dequeued
<1>4. CASE Dispatched
  BY <1>4, MoveNoFile DEF Dispatched
<1>5. CASE KeyboardInterrupt
  BY <1>5, MoveNoFile DEF KeyboardInterrupt
<1>6. CASE SignalUsr1
  BY <1>6, MoveNoFile DEF SignalUsr1
<1>7. CASE Finally
  BY <1>7, MoveNoFile DEF Finally, StopObserver
<1>8. CASE Join
  BY <1>8, MoveNoFile DEF Join, JoinObserver
<1>9. CASE ClosePool
  BY <1>9, MoveNoFile DEF ClosePool
<1>10. CASE JoinPool
  BY <1>10, MoveNoFile DEF JoinPool
<1>11. CASE Destroy
  BY <1>11, MoveNoFile DEF Destroy
<1> QED BY <1>1, <1>2, <1>3, <1>4, <1>5, <1>6, <1>7, <1>8, <1>9, <1>10, <1>11

\* A process of the pool changes nothing of the handover.
LEMMA WorkersLeaveHandover ==
  ASSUME NEW w \in Workers, WorkerStep(w) \/ DeliverLate(w) \/ Die(w)
  PROVE  UNCHANGED handoverVars
<1> USE DEF handoverVars
<1>1. CASE DeliverLate(w)
  BY <1>1 DEF DeliverLate
<1>2. CASE Die(w)
  BY <1>2 DEF Die
<1>3. CASE WorkerStep(w)
  BY <1>3 DEF WorkerStep, TakeTask, NewProducer, NoProducer, Convert, ConvertFails, Copy,
              CopyFails, CopyCutShort, Open, Send, SendRefused, SendTimesOut,
              StoreFailedSegment, StoreFails, EndOfSegments, RemoveStaging, Close
<1> QED BY <1>1, <1>2, <1>3

\* Every step keeps the invariant of the handover.
LEMMA HandoverStep == HandoverInv /\ [Next]_vars => HandoverInv'
<1> SUFFICES ASSUME HandoverInv, [Next]_vars PROVE HandoverInv'
  OBVIOUS
<1>1. CASE Observe
  BY <1>1, ObserveStep
<1>2. CASE MainStep \/ KeyboardInterrupt \/ SignalUsr1
  BY <1>2, DequeueStep, DispatchStep, DropStep, ControlStep DEF MainStep
<1>3. CASE \E w \in Workers : WorkerStep(w) \/ DeliverLate(w) \/ Die(w)
  BY <1>3, WorkersLeaveHandover, HandoverStutter
<1>4. CASE UNCHANGED vars
  BY <1>4, HandoverStutter DEF vars, handoverVars, poolVars
<1> QED BY <1>1, <1>2, <1>3, <1>4 DEF Next

\* Whatever the number of files, of processes and of faults, and wherever an
\* interrupt falls, no supported file is lost, duplicated or reordered between
\* the observer thread and the pool.
THEOREM FilesAreConserved == Spec => []FilesConserved
<1>1. HandoverInv => FilesConserved
  BY DEF HandoverInv
<1> QED BY <1>1, HandoverInit, HandoverStep, PTL DEF Spec

-----------------------------------------------------------------------------
(* The pool *)

\* A process of the pool has a file of its own: every task it can have is the
\* index of a supported file, with a name in the staging area.
LEMMA TaskFacts ==
  ASSUME HandoverInv, PoolTypeOK
  PROVE  /\ Len(handed) \in Nat /\ Len(handed) <= MaxDetected
         /\ taken \in Nat
         /\ \A t \in 1 .. taken :
              t \in Tasks /\ handed[t] \in Paths /\ StagingName(t) \in StagingNames
<1>1. /\ handed \in Seq(Supported) /\ batch \in Seq(Supported)
      /\ dropped \in Seq(Supported) /\ queue \in Seq(Supported)
      /\ Len(detected) <= MaxDetected
  BY DEF HandoverInv, WatcherTypeOK, MainTypeOK
<1>2. /\ Len(handed) \in Nat /\ Len(batch) \in Nat /\ Len(dropped) \in Nat
      /\ Len(Reverse(queue)) \in Nat /\ Reverse(queue) \in Seq(Supported)
  BY <1>1, LenProperties, ReverseFacts
<1>3. Len(handed) <= Len(detected)
  <2>1. handed \o batch \in Seq(Supported) /\ Len(handed \o batch) = Len(handed) + Len(batch)
    BY <1>1, ConcatProperties
  <2>2. /\ (handed \o batch) \o dropped \in Seq(Supported)
        /\ Len((handed \o batch) \o dropped) = Len(handed \o batch) + Len(dropped)
    BY <1>1, <2>1, ConcatProperties
  <2>3. Len(((handed \o batch) \o dropped) \o Reverse(queue))
          = Len((handed \o batch) \o dropped) + Len(Reverse(queue))
    BY <1>2, <2>2, ConcatProperties
  <2>4. Len(detected) = ((Len(handed) + Len(batch)) + Len(dropped)) + Len(Reverse(queue))
    BY <2>1, <2>2, <2>3 DEF HandoverInv, FilesConserved
  <2> QED BY <1>2, <2>4
<1>4. Len(handed) <= MaxDetected
  <2>1. Len(detected) \in Nat
    BY LenProperties DEF HandoverInv, WatcherTypeOK
  <2> QED BY <1>1, <1>2, <1>3, <2>1, MaxDetectedAssumption
<1>5. taken \in Nat /\ taken <= Len(handed)
  BY <1>2 DEF PoolTypeOK
<1>6. ASSUME NEW t \in 1 .. taken
      PROVE  t \in Tasks /\ handed[t] \in Paths /\ StagingName(t) \in StagingNames
  <2>1. t \in Tasks
    BY <1>2, <1>4, <1>5, MaxDetectedAssumption DEF Tasks
  <2>2. t \in 1 .. Len(handed)
    BY <1>2, <1>5
  <2>3. handed[t] \in Paths
    BY <1>1, <2>2, ElementOfSeq, SupportedAssumption
  <2> QED BY <2>1, <2>3 DEF StagingName, StagingNames
<1> QED BY <1>2, <1>4, <1>5, <1>6

\* The task of a process that runs is one of those taken.
LEMMA RunningTask ==
  ASSUME HandoverInv, PoolInv, NEW w \in Workers, worker[w].pc # "idle"
  PROVE  /\ worker[w] \in WorkerState
         /\ worker[w].task \in 1 .. taken
         /\ worker[w].task \in Tasks
         /\ handed[worker[w].task] \in Paths
         /\ StagingName(worker[w].task) \in StagingNames
BY TaskFacts DEF PoolInv, PoolTypeOK, Idle, Call

\* The types of the data the processes share, and what they may read.
LEMMA DataFacts ==
  ASSUME PoolInv
  PROVE  /\ staging \in [StagingNames -> 0 .. MaxDetected]
         /\ content \in [Tasks -> Paths \cup {None}]
         /\ topic \subseteq Messages /\ \A x \in stored : x[2] \in Messages
         /\ failed \subseteq Messages /\ faults \in Nat /\ deaths \in Nat
         /\ \A n \in StagingNames :
              SkipConversion /\ staging[n] # 0 => content[staging[n]] \in Paths
         /\ \A w \in Workers :
              /\ worker[w].pc = "open" =>
                   LET n == StagingName(worker[w].task) IN
                     staging[n] # 0 => content[staging[n]] \in Paths
              /\ worker[w].pc \in {"sending", "store"} =>
                   worker[w].inode # 0 /\ content[worker[w].inode] \in Paths
              /\ worker[w].pc = "store" => worker[w].items \in Messages
BY DEF PoolInv, PoolTypeOK, ContentsReadable, Readable

\* A step of one process that keeps its task, and that touches the staging area
\* only at the name of that task, keeps the invariant of the pool.
LEMMA WorkerMoves ==
  ASSUME HandoverInv, PoolInv,
         NEW w \in Workers, NEW s \in WorkerState,
         worker' = [worker EXCEPT ![w] = s],
         worker[w].pc # "idle", s.pc # "idle",
         s.task = worker[w].task,
         UNCHANGED <<handed, taken, report>>,
         staging' \in [StagingNames -> 0 .. MaxDetected],
         content' \in [Tasks -> Paths \cup {None}],
         topic' \subseteq Messages, \A x \in stored' : x[2] \in Messages,
         failed' \subseteq Messages, faults' \in Nat, deaths' \in Nat,
         \A i \in Tasks : content[i] \in Paths => content'[i] \in Paths,
         \A n \in StagingNames : staging'[n] = staging[n] \/ n = StagingName(s.task),
         \A n \in StagingNames : SkipConversion /\ staging'[n] # 0 => content'[staging'[n]] \in Paths,
         s.pc = "open" =>
           LET n == StagingName(s.task) IN staging'[n] # 0 => content'[staging'[n]] \in Paths,
         s.pc \in {"sending", "store"} => s.inode # 0 /\ content'[s.inode] \in Paths,
         s.pc = "store" => s.items \in Messages
  PROVE  PoolInv'
<1>1. /\ worker \in [Workers -> WorkerState]
      /\ worker' \in [Workers -> WorkerState]
      /\ worker'[w] = s
      /\ \A v \in Workers \ {w} : worker'[v] = worker[v]
  BY DEF PoolInv, PoolTypeOK
<1>2. PoolTypeOK'
  <2>1. s.task \in 1 .. taken
    BY RunningTask
  <2>2. ASSUME NEW v \in Workers
        PROVE  IF worker'[v].pc = "idle" THEN worker'[v] = Idle
               ELSE worker'[v].task \in 1 .. taken'
    BY <1>1, <2>1 DEF PoolInv, PoolTypeOK
  <2> QED BY <1>1, <2>2 DEF PoolInv, PoolTypeOK
<1>3. TaskRunsOnce' /\ UntakenHaveNoResult'
  BY <1>1 DEF PoolInv, TaskRunsOnce, UntakenHaveNoResult
<1>4. \A t : StagingName(t)' = StagingName(t)
  BY DEF StagingName
<1>5. \A i \in 0 .. MaxDetected : Readable(i) => Readable(i)'
  BY MaxDetectedAssumption DEF Readable, Tasks
<1>6. ContentsReadable'
  <2>1. SkipConversion => \A n \in StagingNames : Readable(staging[n])'
    BY DEF Readable
  <2>2. ASSUME NEW v \in Workers
        PROVE  /\ worker'[v].pc = "open" => Readable(staging[StagingName(worker[v].task)])'
               /\ worker'[v].pc \in {"sending", "store"} =>
                    worker'[v].inode # 0 /\ Readable(worker[v].inode)'
               /\ worker'[v].pc = "store" => worker'[v].items \in Messages
    <3>1. CASE v = w
      BY <3>1, <1>1, <1>4 DEF Readable
    <3>2. CASE v # w
      <4>1. worker'[v] = worker[v] /\ worker[v] \in WorkerState
        BY <3>2, <1>1
      <4>2. CASE worker[v].pc = "open"
        <5>1. /\ worker[v].task \in Tasks
              /\ StagingName(worker[v].task) \in StagingNames
              /\ Readable(staging[StagingName(worker[v].task)])
          BY <4>2, RunningTask DEF PoolInv, ContentsReadable
        <5>2. CASE SkipConversion
          BY <5>1, <5>2, <4>1, <4>2, <1>4, <2>1
        <5>3. CASE ~SkipConversion
          <6>1. worker[v].task # s.task
            BY <3>2, <4>2 DEF PoolInv, TaskRunsOnce
          <6>2. StagingName(worker[v].task) # StagingName(s.task)
            BY <5>3, <6>1 DEF StagingName
          <6>3. staging'[StagingName(worker[v].task)] = staging[StagingName(worker[v].task)]
            BY <5>1, <6>2
          <6>4. staging[StagingName(worker[v].task)] \in 0 .. MaxDetected
            BY <5>1 DEF PoolInv, PoolTypeOK
          <6>5. Readable(staging[StagingName(worker[v].task)])'
            BY <1>4, <1>5, <4>1, <5>1, <6>3, <6>4 DEF Readable
          <6> QED BY <4>1, <4>2, <6>5
        <5> QED BY <5>2, <5>3
      <4>3. CASE worker[v].pc \in {"sending", "store"}
        BY <4>1, <4>3, <1>5 DEF PoolInv, ContentsReadable, WorkerState, Readable
      <4>4. worker[v].pc = "store" => worker[v].items \in Messages
        BY DEF PoolInv, ContentsReadable
      <4>5. CASE worker[v].pc \notin {"open", "sending", "store"}
        BY <4>1, <4>5
      <4> QED BY <4>1, <4>2, <4>3, <4>4, <4>5
    <3> QED BY <3>1, <3>2
  <2> QED BY <2>1, <2>2 DEF ContentsReadable
<1> QED BY <1>2, <1>3, <1>6 DEF PoolInv

\* A process becomes idle again, with a result for its task or, if it died, with
\* none: the invariant of the pool is kept.
LEMMA WorkerEnds ==
  ASSUME HandoverInv, PoolInv,
         NEW w \in Workers, worker[w].pc # "idle",
         worker' = [worker EXCEPT ![w] = Idle],
         UNCHANGED <<handed, taken, staging, content, topic, stored, failed>>,
         \/ UNCHANGED report
         \/ \E r \in Results : report' = [report EXCEPT ![worker[w].task] = r],
         faults' \in Nat, deaths' \in Nat
  PROVE  PoolInv'
<1>1. /\ Idle.pc = "idle"
      /\ Idle \in WorkerState
  BY MaxDetectedAssumption DEF Idle, Call, WorkerState, WorkerPcs, Results
<1>2. /\ worker \in [Workers -> WorkerState]
      /\ worker' \in [Workers -> WorkerState]
      /\ worker'[w] = Idle
      /\ \A v \in Workers \ {w} : worker'[v] = worker[v]
  BY <1>1 DEF PoolInv, PoolTypeOK
<1>3. worker[w].task \in 1 .. taken /\ worker[w].task \in Tasks
  BY RunningTask
<1>4. /\ report' \in [Tasks -> Results]
      /\ \A t \in Tasks \ {worker[w].task} : report'[t] = report[t]
  BY <1>3 DEF PoolInv, PoolTypeOK
<1>5. PoolTypeOK'
  <2>1. ASSUME NEW v \in Workers
        PROVE  IF worker'[v].pc = "idle" THEN worker'[v] = Idle
               ELSE worker'[v].task \in 1 .. taken'
    BY <1>1, <1>2 DEF PoolInv, PoolTypeOK
  <2> QED BY <1>2, <1>4, <2>1 DEF PoolInv, PoolTypeOK
<1>6. ContentsReadable'
  BY <1>1, <1>2 DEF PoolInv, ContentsReadable, Readable, StagingName
<1>7. UntakenHaveNoResult'
  <2>1. ASSUME NEW t \in Tasks, t > taken
        PROVE  report'[t] = "none"
    <3>1. t # worker[w].task
      BY <1>3, <2>1, TaskFacts DEF PoolInv, Tasks
    <3> QED BY <2>1, <3>1, <1>4 DEF PoolInv, UntakenHaveNoResult
  <2> QED BY <2>1 DEF UntakenHaveNoResult
<1>8. TaskRunsOnce'
  <2>1. ASSUME NEW v \in Workers, worker'[v].pc # "idle"
        PROVE  /\ v # w /\ worker'[v] = worker[v]
               /\ worker[v].task \in Tasks
               /\ worker[v].task # worker[w].task
    BY <1>1, <1>2, <2>1, RunningTask DEF PoolInv, TaskRunsOnce
  <2> QED BY <2>1, <1>4 DEF PoolInv, TaskRunsOnce
<1> QED BY <1>5, <1>6, <1>7, <1>8 DEF PoolInv

\* A process takes the oldest task: no other process has it and it has no result.
LEMMA TakeTaskStep ==
  ASSUME HandoverInv, PoolInv, NEW w \in Workers, TakeTask(w)
  PROVE  PoolInv'
<1> DEFINE s == Call("begin", taken + 1)
<1>1. /\ worker[w].pc = "idle" /\ taken < Len(handed) /\ taken' = taken + 1
      /\ worker' = [worker EXCEPT ![w] = s]
      /\ UNCHANGED <<handed, dataVars, deaths>>
  BY DEF TakeTask
<1>2. taken + 1 \in Tasks /\ taken \in Nat /\ taken' \in 0 .. Len(handed)
  BY <1>1, TaskFacts, MaxDetectedAssumption DEF PoolInv, Tasks
<1>3. /\ s \in WorkerState /\ s.pc = "begin" /\ s.task = taken + 1
  <2>1. 0 \in 0 .. MaxDetected /\ taken + 1 \in 0 .. MaxDetected
    BY <1>2, MaxDetectedAssumption DEF Tasks
  <2> QED BY <2>1 DEF Call, WorkerState, WorkerPcs, Results
<1> HIDE DEF s
<1>4. /\ worker \in [Workers -> WorkerState]
      /\ worker' \in [Workers -> WorkerState]
      /\ worker'[w] = s
      /\ \A v \in Workers \ {w} : worker'[v] = worker[v]
  BY <1>1, <1>3 DEF PoolInv, PoolTypeOK
<1>5. PoolTypeOK'
  <2>1. ASSUME NEW v \in Workers
        PROVE  IF worker'[v].pc = "idle" THEN worker'[v] = Idle
               ELSE worker'[v].task \in 1 .. taken'
    BY <1>1, <1>2, <1>3, <1>4 DEF PoolInv, PoolTypeOK, Tasks
  <2> QED BY <1>1, <1>2, <1>4, <2>1 DEF PoolInv, PoolTypeOK, dataVars
<1>6. ContentsReadable'
  BY <1>1, <1>3, <1>4 DEF PoolInv, ContentsReadable, Readable, StagingName, dataVars
<1>7. UntakenHaveNoResult'
  BY <1>1, <1>2 DEF PoolInv, UntakenHaveNoResult, dataVars, Tasks
<1>8. TaskRunsOnce'
  <2>1. report'[taken + 1] = "none"
    BY <1>1, <1>2 DEF PoolInv, UntakenHaveNoResult, dataVars
  <2>2. ASSUME NEW v \in Workers \ {w}, worker'[v].pc # "idle"
        PROVE  worker'[v].task # taken + 1
    BY <1>2, <1>4, <2>2, RunningTask
  <2> QED BY <1>1, <1>3, <1>4, <2>1, <2>2 DEF PoolInv, TaskRunsOnce, dataVars
<1> QED BY <1>5, <1>6, <1>7, <1>8 DEF PoolInv

\* The result of a call to publish, or its death, ends it.
LEMMA EndingSteps ==
  ASSUME HandoverInv, PoolInv, NEW w \in Workers, NoProducer(w) \/ Close(w) \/ Die(w)
  PROVE  PoolInv'
<1>1. /\ faults \in Nat /\ deaths \in Nat
      /\ worker[w].pc # "idle" => worker[w] \in WorkerState
  BY DEF PoolInv, PoolTypeOK
<1>2. CASE NoProducer(w)
  <2>1. "UnboundLocalError" \in Results
    BY DEF Results
  <2>2. /\ worker[w].pc # "idle"
        /\ worker' = [worker EXCEPT ![w] = Idle]
        /\ report' = [report EXCEPT ![worker[w].task] = "UnboundLocalError"]
        /\ UNCHANGED <<handed, taken, staging, content, topic, stored, failed, deaths>>
        /\ faults' = faults + 1
    BY <1>2 DEF NoProducer, Fault
  <2>3. faults' \in Nat /\ deaths' \in Nat
    BY <1>1, <2>2
  <2> QED BY <2>1, <2>2, <2>3, WorkerEnds
<1>3. CASE Close(w)
  <2>1. worker[w].pc # "idle" /\ worker[w].result \in Results
    BY <1>1, <1>3 DEF Close, WorkerState
  <2> QED BY <1>1, <1>3, <2>1, WorkerEnds DEF Close
<1>4. CASE Die(w)
  <2>1. /\ worker[w].pc # "idle"
        /\ worker' = [worker EXCEPT ![w] = Idle]
        /\ UNCHANGED <<handed, taken, staging, content, topic, stored, failed, report, faults>>
        /\ deaths' = deaths + 1
    BY <1>4 DEF Die, dataVars
  <2>2. faults' \in Nat /\ deaths' \in Nat
    BY <1>1, <2>1
  <2> QED BY <2>1, <2>2, WorkerEnds
<1> QED BY <1>2, <1>3, <1>4

\* Leaving the try block, with nothing changed but the count of faults.
LEMMA LeaveStep ==
  ASSUME HandoverInv, PoolInv, NEW w \in Workers, NEW o \in Results,
         worker[w].pc # "idle", Leave(w, o),
         UNCHANGED <<handed, taken, staging, content, topic, stored, report, failed, deaths>>,
         faults' \in Nat
  PROVE  PoolInv'
<1> DEFINE s == [worker[w] EXCEPT !.pc = "close", !.result = o]
<1>1. worker[w] \in WorkerState
  BY RunningTask
<1>2. "close" \in WorkerPcs
  BY DEF WorkerPcs
<1>3. /\ s \in WorkerState /\ s.pc = "close" /\ s.task = worker[w].task
  BY <1>1, <1>2 DEF WorkerState
<1>4. worker' = [worker EXCEPT ![w] = s]
  BY DEF Leave
<1> HIDE DEF s
<1> QED BY <1>3, <1>4, WorkerMoves DEF PoolInv, PoolTypeOK, ContentsReadable, Readable

\* The steps that leave the try block, with an error or at the end of the file.
LEMMA LeavingSteps ==
  ASSUME HandoverInv, PoolInv, NEW w \in Workers,
         \/ CopyFails(w) \/ StoreFails(w)
         \/ EndOfSegments(w) /\ Ending[Content(w)] # "done"
  PROVE  PoolInv'
<1>1. faults \in Nat
  BY DEF PoolInv, PoolTypeOK
<1>2. "IOError" \in Results /\ "error" \in Results
  BY DEF Results
<1>3. CASE CopyFails(w)
  BY <1>1, <1>2, <1>3, LeaveStep DEF CopyFails, Fault
<1>4. CASE StoreFails(w)
  BY <1>1, <1>2, <1>4, LeaveStep DEF StoreFails, Fault
<1>5. CASE EndOfSegments(w) /\ Ending[Content(w)] # "done"
  <2>1. Content(w) \in Paths
    BY <1>5, RunningTask DEF EndOfSegments, PoolInv, ContentsReadable, Content, Readable
  <2>2. Ending[Content(w)] \in {"IOError", "ValueError"}
    BY <1>5, <2>1, WorkersAssumption DEF Endings
  <2>3. Leave(w, "IOError") \/ Leave(w, "error")
    BY <1>5, <2>2 DEF EndOfSegments
  <2> QED BY <1>1, <1>2, <1>5, <2>3, LeaveStep DEF EndOfSegments, dataVars
<1> QED BY <1>3, <1>4, <1>5

\* The steps that only move a process to its next point.
LEMMA GotoSteps ==
  ASSUME HandoverInv, PoolInv, NEW w \in Workers,
         \/ NewProducer(w)
         \/ EndOfSegments(w) /\ Ending[Content(w)] = "done"
  PROVE  PoolInv'
<1>1. PICK p \in {"convert", "remove"} :
        /\ worker[w].pc # "idle" /\ Goto(w, p)
        /\ UNCHANGED <<handed, taken, dataVars, deaths>>
  BY DEF NewProducer, EndOfSegments
<1> DEFINE s == [worker[w] EXCEPT !.pc = p]
<1>2. worker[w] \in WorkerState
  BY <1>1, RunningTask
<1>3. p \in WorkerPcs
  BY DEF WorkerPcs
<1>4. s \in WorkerState /\ s.pc = p /\ s.task = worker[w].task
  BY <1>2, <1>3 DEF WorkerState
<1>5. worker' = [worker EXCEPT ![w] = s]
  BY <1>1 DEF Goto
<1> HIDE DEF s
<1> QED BY <1>1, <1>4, <1>5, WorkerMoves
        DEF PoolInv, PoolTypeOK, ContentsReadable, Readable, dataVars

\* What the message in hand is: a segment of a file that can be read.
LEMMA MessageFacts ==
  ASSUME HandoverInv, PoolInv, NEW w \in Workers, worker[w].pc = "sending"
  PROVE  /\ worker[w].inode # 0 /\ content[worker[w].inode] \in Paths
         /\ Message(w) \in Messages
<1>1. /\ worker[w].inode # 0 /\ content[worker[w].inode] \in Paths
      /\ worker[w].task \in Tasks /\ worker[w].seg \in Nat
  BY RunningTask DEF PoolInv, ContentsReadable, Readable, WorkerState
<1> QED BY <1>1 DEF Message, Content, Messages

\* The state of a process that pulls the next segment.
LEMMA NextSegmentState ==
  ASSUME NEW r \in WorkerState
  PROVE  LET s == [r EXCEPT !.pc = "sending", !.seg = r.seg + 1, !.items = None] IN
           /\ s \in WorkerState /\ s.pc = "sending" /\ s.task = r.task
           /\ s.inode = r.inode
<1> DEFINE s1 == [r EXCEPT !.pc = "sending"]
           s2 == [s1 EXCEPT !.seg = r.seg + 1]
           s3 == [s2 EXCEPT !.items = None]
<1>1. s1 \in WorkerState /\ s1.pc = "sending" /\ s1.task = r.task /\ s1.inode = r.inode
  BY DEF WorkerState, WorkerPcs
<1>2. r.seg + 1 \in Nat
  BY DEF WorkerState
<1> HIDE DEF s1
<1>3. s2 \in WorkerState /\ s2.pc = "sending" /\ s2.task = r.task /\ s2.inode = r.inode
  BY <1>1, <1>2 DEF WorkerState
<1> HIDE DEF s2
<1>4. s3 \in WorkerState /\ s3.pc = "sending" /\ s3.task = r.task /\ s3.inode = r.inode
  BY <1>3 DEF WorkerState
<1> QED BY <1>4 DEF s1, s2

\* The segment is sent and the next one is pulled.
LEMMA SendStep ==
  ASSUME HandoverInv, PoolInv, NEW w \in Workers, Send(w)
  PROVE  PoolInv'
<1> DEFINE s == [worker[w] EXCEPT !.pc = "sending", !.seg = worker[w].seg + 1, !.items = None]
<1>1. /\ worker[w].pc = "sending"
      /\ topic' = topic \cup {Message(w)}
      /\ worker' = NextSegment(w)
      /\ UNCHANGED <<handed, taken, staging, content, stored, report, failed, faults, deaths>>
  BY DEF Send, HasSegment
<1>2. worker[w] \in WorkerState
  BY <1>1, RunningTask
<1>3. /\ s \in WorkerState /\ s.pc = "sending" /\ s.task = worker[w].task
      /\ s.inode = worker[w].inode
  BY <1>2, NextSegmentState
<1>4. worker' = [worker EXCEPT ![w] = s]
  BY <1>1 DEF NextSegment
<1>5. /\ worker[w].inode # 0 /\ content[worker[w].inode] \in Paths
      /\ Message(w) \in Messages
  BY <1>1, MessageFacts
<1> HIDE DEF s
<1> QED BY <1>1, <1>3, <1>4, <1>5, WorkerMoves
        DEF PoolInv, PoolTypeOK, ContentsReadable, Readable

\* The state of a process whose segment was refused.
LEMMA RefusedState ==
  ASSUME NEW r \in WorkerState, NEW m \in Messages
  PROVE  LET s == [r EXCEPT !.pc = "store", !.items = m]
         IN /\ s \in WorkerState /\ s.pc = "store" /\ s.task = r.task /\ s.items = m
            /\ s.inode = r.inode
<1> DEFINE s1 == [r EXCEPT !.pc = "store"]
           s2 == [s1 EXCEPT !.items = m]
<1>1. s1 \in WorkerState /\ s1.pc = "store" /\ s1.task = r.task /\ s1.inode = r.inode
  BY DEF WorkerState, WorkerPcs
<1> HIDE DEF s1
<1>2. /\ s2 \in WorkerState /\ s2.pc = "store" /\ s2.task = r.task /\ s2.items = m
      /\ s2.inode = r.inode
  BY <1>1 DEF WorkerState
<1> QED BY <1>2 DEF s1

\* The segment is refused, or times out and stays in the producer's buffer.
LEMMA SendFailsStep ==
  ASSUME HandoverInv, PoolInv, NEW w \in Workers, SendRefused(w) \/ SendTimesOut(w)
  PROVE  PoolInv'
<1> DEFINE m == Message(w)
           b == worker[w].buffer \cup {m}
           s == [worker[w] EXCEPT !.pc = "store", !.items = m]
           t == [s EXCEPT !.buffer = b]
<1>1. /\ worker[w].pc = "sending"
      /\ faults' = faults + 1
      /\ failed' = failed \cup {m}
      /\ UNCHANGED <<handed, taken, staging, content, topic, stored, report, deaths>>
  BY DEF SendRefused, SendTimesOut, HasSegment, Fault
<1>2. worker' = [worker EXCEPT ![w] = s] \/ worker' = [worker EXCEPT ![w] = t]
  BY DEF SendRefused, SendTimesOut
<1>3. worker[w] \in WorkerState /\ m \in Messages
  BY <1>1, RunningTask, MessageFacts
<1>4. b \in SUBSET Messages
  BY <1>3 DEF WorkerState
<1> HIDE DEF m, b
<1>5. /\ s \in WorkerState /\ s.pc = "store" /\ s.task = worker[w].task /\ s.items = m
      /\ s.inode = worker[w].inode
  BY <1>3, <1>4, RefusedState
<1>8. /\ t \in WorkerState /\ t.pc = "store" /\ t.task = worker[w].task /\ t.items = m
      /\ t.inode = worker[w].inode
  <2> HIDE DEF s
  <2> QED BY <1>4, <1>5 DEF WorkerState
<1>6. PICK u \in {s, t} : worker' = [worker EXCEPT ![w] = u]
  BY <1>2
<1>7. u \in WorkerState /\ u.pc = "store" /\ u.task = worker[w].task /\ u.items = m
      /\ u.inode = worker[w].inode
  BY <1>5, <1>8
<1> HIDE DEF s, t
<1>9. failed' \subseteq Messages /\ faults' \in Nat
  BY <1>1, <1>3, DataFacts
<1> QED BY <1>1, <1>3, <1>6, <1>7, <1>9, DataFacts, WorkerMoves

\* The producer's thread delivers a message of the buffer.
LEMMA DeliverLateStep ==
  ASSUME HandoverInv, PoolInv, NEW w \in Workers, DeliverLate(w)
  PROVE  PoolInv'
<1>1. PICK m \in worker[w].buffer :
        /\ topic' = topic \cup {m}
        /\ worker' = [worker EXCEPT ![w].buffer = @ \ {m}]
        /\ UNCHANGED <<handed, taken, staging, content, stored, report, failed, faults, deaths>>
  BY DEF DeliverLate
<1> DEFINE b == worker[w].buffer \ {m}
           s == [worker[w] EXCEPT !.buffer = b]
<1>2. worker[w].pc # "idle"
  BY <1>1 DEF PoolInv, PoolTypeOK, Idle, Call
<1>3. worker[w] \in WorkerState /\ m \in Messages /\ b \in SUBSET Messages
  BY <1>1, <1>2, RunningTask DEF WorkerState
<1> HIDE DEF b
<1>4. /\ s \in WorkerState /\ s.pc = worker[w].pc /\ s.task = worker[w].task
      /\ s.inode = worker[w].inode /\ s.items = worker[w].items
  BY <1>3 DEF WorkerState
<1>5. worker' = [worker EXCEPT ![w] = s]
  BY <1>1 DEF b
<1>6. /\ topic' \subseteq Messages /\ \A x \in stored' : x[2] \in Messages
      /\ failed' \subseteq Messages /\ faults' \in Nat /\ deaths' \in Nat
      /\ staging' \in [StagingNames -> 0 .. MaxDetected]
      /\ content' \in [Tasks -> Paths \cup {None}]
  BY <1>1, <1>3, DataFacts
<1> HIDE DEF s
<1>7. /\ s.pc = "open" =>
           LET n == StagingName(s.task) IN staging'[n] # 0 => content'[staging'[n]] \in Paths
      /\ s.pc \in {"sending", "store"} => s.inode # 0 /\ content'[s.inode] \in Paths
      /\ s.pc = "store" => s.items \in Messages
  BY <1>1, <1>4, DataFacts
<1>8. \A n \in StagingNames : SkipConversion /\ staging'[n] # 0 => content'[staging'[n]] \in Paths
  BY <1>1, DataFacts
<1> QED BY <1>1, <1>2, <1>4, <1>5, <1>6, <1>7, <1>8, WorkerMoves

\* The failed segment is stored and the next one is pulled.
LEMMA StoreStep ==
  ASSUME HandoverInv, PoolInv, NEW w \in Workers, StoreFailedSegment(w)
  PROVE  PoolInv'
<1> DEFINE s == [worker[w] EXCEPT !.pc = "sending", !.seg = worker[w].seg + 1, !.items = None]
<1>1. /\ worker[w].pc = "store"
      /\ stored' = {x \in stored : x[1] # SegmentFile(w)} \cup {<<SegmentFile(w), worker[w].items>>}
      /\ worker' = NextSegment(w)
      /\ UNCHANGED <<handed, taken, staging, content, topic, report, failed, faults, deaths>>
  BY DEF StoreFailedSegment
<1>2. worker[w] \in WorkerState /\ worker[w].items \in Messages
  BY <1>1, RunningTask DEF PoolInv, ContentsReadable
<1>3. /\ s \in WorkerState /\ s.pc = "sending" /\ s.task = worker[w].task
      /\ s.inode = worker[w].inode
  BY <1>2, NextSegmentState
<1>4. worker' = [worker EXCEPT ![w] = s]
  BY <1>1 DEF NextSegment
<1>5. \A x \in stored' : x[2] \in Messages
  BY <1>1, <1>2 DEF PoolInv, PoolTypeOK
<1> HIDE DEF s
<1> QED BY <1>1, <1>3, <1>4, <1>5, DataFacts, WorkerMoves

\* The file of the staging area is opened.
LEMMA OpenStep ==
  ASSUME HandoverInv, PoolInv, NEW w \in Workers, Open(w)
  PROVE  PoolInv'
<1> DEFINE i == staging[StagingName(worker[w].task)]
<1>1. /\ worker[w].pc = "open"
      /\ UNCHANGED <<handed, taken, staging, content, topic, stored, report, failed, faults,
                     deaths>>
  BY DEF Open, dataVars
<1>2. worker[w] \in WorkerState /\ i \in 0 .. MaxDetected
  BY <1>1, RunningTask, DataFacts
<1>3. CASE i = 0
  <2>1. "IOError" \in Results /\ Leave(w, "IOError")
    BY <1>3 DEF Open, Results
  <2> QED BY <1>1, <2>1, LeaveStep, DataFacts
<1>4. CASE i # 0
  <2> DEFINE s == [worker[w] EXCEPT !.pc = "sending", !.inode = i]
  <2>1. worker' = [worker EXCEPT ![w] = s]
    BY <1>4 DEF Open
  <2>2. content[i] \in Paths
    BY <1>1, <1>4, DataFacts
  <2> HIDE DEF i
  <2>3. /\ s \in WorkerState /\ s.pc = "sending" /\ s.task = worker[w].task
        /\ s.inode = i
    BY <1>2 DEF WorkerState, WorkerPcs
  <2> HIDE DEF s
  <2> QED BY <1>1, <1>4, <2>1, <2>2, <2>3, DataFacts, WorkerMoves
<1> QED BY <1>3, <1>4

\* The raw file is converted into a temporary file of its own, or copied under
\* its own name, maybe over another copy, and maybe not to its end.
LEMMA StageStep ==
  ASSUME HandoverInv, PoolInv, NEW w \in Workers, Convert(w) \/ Copy(w) \/ CopyCutShort(w)
  PROVE  PoolInv'
<1> DEFINE t == worker[w].task
           n == StagingName(t)
<1>1. /\ worker[w].pc = "convert"
      /\ UNCHANGED <<handed, taken, topic, stored, report, failed, deaths>>
      /\ faults' \in Nat
  BY DataFacts DEF Convert, Copy, CopyCutShort, Fault
<1>2. worker[w] \in WorkerState /\ t \in Tasks /\ handed[t] \in Paths /\ n \in StagingNames
  BY <1>1, RunningTask
<1>3. PICK s \in WorkerState : /\ worker' = [worker EXCEPT ![w] = s]
                               /\ s.pc \in {"open", "close"} /\ s.task = t
  <2> DEFINE a == [worker[w] EXCEPT !.pc = "open"]
             b == [worker[w] EXCEPT !.pc = "close", !.result = "IOError"]
  <2>1. a \in WorkerState /\ a.pc = "open" /\ a.task = t
    BY <1>2 DEF WorkerState, WorkerPcs
  <2>2. b \in WorkerState /\ b.pc = "close" /\ b.task = t
    BY <1>2 DEF WorkerState, WorkerPcs, Results
  <2>3. worker' = [worker EXCEPT ![w] = a] \/ worker' = [worker EXCEPT ![w] = b]
    BY DEF Convert, Copy, CopyCutShort, Goto, Leave
  <2> HIDE DEF a, b
  <2> QED BY <2>1, <2>2, <2>3
<1>4. PICK i \in Tasks : /\ staging' = [staging EXCEPT ![n] = i]
                         /\ content' = [content EXCEPT ![i] = handed[t]]
  <2>1. CASE Convert(w)
    BY <2>1, <1>2 DEF Convert, StagingName
  <2>2. CASE Copy(w) \/ CopyCutShort(w)
    <3>1. staging[n] \in 0 .. MaxDetected
      BY <1>2, DataFacts
    <3>2. (IF staging[n] = 0 THEN t ELSE staging[n]) \in Tasks
      BY <1>2, <3>1, MaxDetectedAssumption DEF Tasks
    <3> QED BY <2>2, <3>2 DEF Copy, CopyCutShort, CopyOver
  <2> QED BY <2>1, <2>2
<1> HIDE DEF n, t
<1>5. /\ staging' \in [StagingNames -> 0 .. MaxDetected]
      /\ staging'[n] = i
      /\ \A m \in StagingNames : staging'[m] = staging[m] \/ m = n
  <2>1. i \in 0 .. MaxDetected
    BY MaxDetectedAssumption DEF Tasks
  <2> QED BY <1>2, <1>4, <2>1, DataFacts
<1>6. /\ content' \in [Tasks -> Paths \cup {None}]
      /\ content'[i] \in Paths
      /\ \A j \in Tasks : content[j] \in Paths => content'[j] \in Paths
  BY <1>2, <1>4, DataFacts
<1>7. \A m \in StagingNames : SkipConversion /\ staging'[m] # 0 => content'[staging'[m]] \in Paths
  <2> SUFFICES ASSUME NEW m \in StagingNames, SkipConversion, staging'[m] # 0
               PROVE  content'[staging'[m]] \in Paths
    OBVIOUS
  <2>1. CASE m = n
    BY <2>1, <1>5, <1>6
  <2>2. CASE m # n
    <3>1. staging'[m] = staging[m] /\ staging[m] \in Tasks /\ content[staging[m]] \in Paths
      BY <2>2, <1>5, DataFacts, MaxDetectedAssumption DEF Tasks
    <3> QED BY <3>1, <1>6
  <2> QED BY <2>1, <2>2
<1>8. LET m == StagingName(s.task) IN staging'[m] # 0 => content'[staging'[m]] \in Paths
  BY <1>3, <1>5, <1>6 DEF n
<1> QED BY <1>1, <1>3, <1>5, <1>6, <1>7, <1>8, DataFacts, WorkerMoves DEF n, t

\* The call leaves the try block with the file of its task gone from the staging
\* area, or left there by a conversion that failed.
LEMMA LeaveStagingStep ==
  ASSUME HandoverInv, PoolInv, NEW w \in Workers, ConvertFails(w) \/ RemoveStaging(w)
  PROVE  PoolInv'
<1> DEFINE n == StagingName(worker[w].task)
<1>1. PICK o \in Results : Leave(w, o)
  BY DEF ConvertFails, RemoveStaging, Results
<1>2. /\ worker[w].pc # "idle"
      /\ UNCHANGED <<handed, taken, content, topic, stored, report, failed, deaths>>
  BY DEF ConvertFails, RemoveStaging
<1>3. /\ worker[w] \in WorkerState /\ worker[w].task \in Tasks /\ n \in StagingNames
  BY <1>2, RunningTask
<1>4. faults' \in Nat
  BY DataFacts DEF ConvertFails, RemoveStaging, Fault
<1>5. PICK i \in 0 .. MaxDetected : /\ staging' = [staging EXCEPT ![n] = i]
                                    /\ i # 0 => ~SkipConversion
  <2>1. CASE ConvertFails(w)
    <3>1. worker[w].task \in 0 .. MaxDetected
      BY <1>3, MaxDetectedAssumption DEF Tasks
    <3>2. n = worker[w].task
      BY <2>1 DEF ConvertFails, StagingName
    <3> QED BY <2>1, <3>1, <3>2 DEF ConvertFails
  <2>2. CASE RemoveStaging(w)
    <3>1. 0 \in 0 .. MaxDetected
      BY MaxDetectedAssumption
    <3>2. staging' = [staging EXCEPT ![n] = 0]
      BY <2>2 DEF RemoveStaging
    <3> QED BY <3>1, <3>2
  <2> QED BY <2>1, <2>2
<1> DEFINE s == [worker[w] EXCEPT !.pc = "close", !.result = o]
<1>6. /\ s \in WorkerState /\ s.pc = "close" /\ s.task = worker[w].task
  BY <1>3 DEF WorkerState, WorkerPcs
<1>7. worker' = [worker EXCEPT ![w] = s]
  BY <1>1 DEF Leave
<1> HIDE DEF s, n
<1>8. /\ staging' \in [StagingNames -> 0 .. MaxDetected]
      /\ staging'[n] = i
      /\ \A m \in StagingNames : staging'[m] = staging[m] \/ m = n
  BY <1>3, <1>5, DataFacts
<1>9. \A m \in StagingNames : SkipConversion /\ staging'[m] # 0 => content'[staging'[m]] \in Paths
  BY <1>2, <1>5, <1>8, DataFacts
<1>10. \A m \in StagingNames : staging'[m] = staging[m] \/ m = StagingName(s.task)
  BY <1>6, <1>8 DEF n
<1>11. s.pc \notin {"idle", "open", "sending", "store"}
  BY <1>6
<1> QED BY <1>2, <1>4, <1>6, <1>7, <1>8, <1>9, <1>10, <1>11, DataFacts, WorkerMoves

\* Every step of the pool keeps its invariant.
LEMMA PoolStep ==
  ASSUME HandoverInv, PoolInv,
         NEW w \in Workers, WorkerStep(w) \/ DeliverLate(w) \/ Die(w)
  PROVE  PoolInv'
BY TakeTaskStep, EndingSteps, LeavingSteps, GotoSteps, SendStep, SendFailsStep,
   DeliverLateStep, StoreStep, OpenStep, StageStep, LeaveStagingStep DEF WorkerStep

\* The pool's invariant holds before the collector starts.
LEMMA PoolInit == Init => PoolInv
<1> SUFFICES ASSUME Init PROVE PoolInv
  OBVIOUS
<1>1. Idle \in WorkerState /\ Idle.pc = "idle"
  BY MaxDetectedAssumption DEF Idle, Call, WorkerState, WorkerPcs, Results
<1>2. PoolTypeOK
  <2>1. Len(handed) = 0 /\ 0 \in 0 .. MaxDetected
    BY MaxDetectedAssumption DEF Init
  <2> QED BY <1>1, <2>1 DEF Init, PoolTypeOK, Results
<1>3. ContentsReadable /\ TaskRunsOnce
  BY <1>1 DEF Init, ContentsReadable, Readable, TaskRunsOnce
<1>4. UntakenHaveNoResult
  BY DEF Init, UntakenHaveNoResult
<1> QED BY <1>2, <1>3, <1>4 DEF PoolInv

\* A step that touches nothing of the pool keeps its invariant.
LEMMA PoolStutter == PoolInv /\ UNCHANGED <<poolVars, dataVars, deaths>> => PoolInv'
BY DEF PoolInv, poolVars, dataVars, PoolTypeOK, ContentsReadable, Readable, StagingName,
       UntakenHaveNoResult, TaskRunsOnce

\* A file handed to the pool changes no task that has been taken.
LEMMA DispatchKeepsPool ==
  ASSUME HandoverInv, PoolInv, Dispatch
  PROVE  PoolInv'
<1>1. /\ UNCHANGED <<taken, worker, dataVars, deaths>>
      /\ handed' = Append(handed, Head(batch))
      /\ batch # << >>
  BY DEF Dispatch
<1>2. /\ Len(handed) \in Nat /\ Len(handed') = Len(handed) + 1
      /\ \A t \in 1 .. Len(handed) : handed'[t] = handed[t]
  <2>1. handed \in Seq(Supported) /\ Head(batch) \in Supported
    BY <1>1, HeadTail DEF HandoverInv, MainTypeOK
  <2> QED BY <1>1, <2>1, AppendProperties, LenProperties
<1>3. taken \in 0 .. Len(handed) /\ taken' \in 0 .. Len(handed')
  BY <1>1, <1>2 DEF PoolInv, PoolTypeOK
<1>4. PoolTypeOK'
  BY <1>1, <1>3 DEF PoolInv, PoolTypeOK, dataVars
<1>5. \A v \in Workers : worker[v].pc # "idle" =>
        StagingName(worker[v].task)' = StagingName(worker[v].task)
  BY <1>1, <1>2, <1>3, RunningTask DEF StagingName
<1>6. ContentsReadable'
  BY <1>1, <1>5 DEF PoolInv, ContentsReadable, Readable, dataVars
<1>7. UntakenHaveNoResult' /\ TaskRunsOnce'
  BY <1>1 DEF PoolInv, UntakenHaveNoResult, TaskRunsOnce, dataVars
<1> QED BY <1>4, <1>6, <1>7 DEF PoolInv

\* The removal of the staging area leaves no name for a process to read.
LEMMA DestroyKeepsPool ==
  ASSUME HandoverInv, PoolInv, Destroy
  PROVE  PoolInv'
<1>1. /\ staging' = [n \in StagingNames |-> 0]
      /\ stored' = {}
      /\ UNCHANGED <<handed, taken, worker, content, topic, report, failed, faults, deaths>>
  BY DEF Destroy, poolVars
<1>2. PoolTypeOK'
  BY <1>1, MaxDetectedAssumption DEF PoolInv, PoolTypeOK
<1>3. \A t : StagingName(t)' = StagingName(t)
  BY <1>1 DEF StagingName
<1>4. ContentsReadable'
  <2>1. ASSUME NEW v \in Workers, worker[v].pc = "open"
        PROVE  staging'[StagingName(worker[v].task)] = 0
    BY <1>1, <2>1, RunningTask
  <2> QED BY <1>1, <1>3, <2>1 DEF PoolInv, ContentsReadable, Readable
<1>5. UntakenHaveNoResult' /\ TaskRunsOnce'
  BY <1>1 DEF PoolInv, UntakenHaveNoResult, TaskRunsOnce
<1> QED BY <1>2, <1>4, <1>5 DEF PoolInv

\* Every step keeps the invariant of the pool.
LEMMA PoolNext == HandoverInv /\ PoolInv /\ [Next]_vars => PoolInv'
<1> SUFFICES ASSUME HandoverInv, PoolInv, [Next]_vars PROVE PoolInv'
  OBVIOUS
<1>1. CASE Dispatch \/ Destroy
  BY <1>1, DispatchKeepsPool, DestroyKeepsPool
<1>2. CASE \E w \in Workers : WorkerStep(w) \/ DeliverLate(w) \/ Die(w)
  BY <1>2, PoolStep
<1>3. CASE Observe \/ KeyboardInterrupt \/ SignalUsr1
  BY <1>3, PoolStutter DEF Observe, KeyboardInterrupt, SignalUsr1
<1>4. CASE \/ Start \/ WakeUp \/ Dequeue \/ Dequeued \/ Dispatched
           \/ Finally \/ Join \/ Drop \/ ClosePool \/ JoinPool
  BY <1>4, PoolStutter DEF Start, WakeUp, Dequeue, Dequeued, Dispatched, Finally, Join, Drop,
                           ClosePool, JoinPool
<1>5. CASE UNCHANGED vars
  BY <1>5, PoolStutter DEF vars
<1> QED BY <1>1, <1>2, <1>3, <1>4, <1>5 DEF Next, MainStep

\* The invariant of the collector: its state is well typed, files are handed over
\* in order, and no task is run twice or by two processes.
THEOREM CollectorSafe == Spec => [](HandoverInv /\ PoolInv)
<1>1. Init => HandoverInv /\ PoolInv
  BY HandoverInit, PoolInit
<1>2. HandoverInv /\ PoolInv /\ [Next]_vars => (HandoverInv /\ PoolInv)'
  BY HandoverStep, PoolNext
<1> QED BY <1>1, <1>2, PTL DEF Spec

\* The state of the collector is well typed, and a process that is not idle has a
\* task the main thread has handed to the pool.
THEOREM TypeCorrect == Spec => []TypeOK
<1>1. HandoverInv /\ PoolInv => TypeOK
  BY DEF HandoverInv, PoolInv, TypeOK
<1> QED BY <1>1, CollectorSafe, PTL

-----------------------------------------------------------------------------
(* The end *)

\* The step that stops the collector finds every task taken and every process
\* idle, since a task that has a result is run by none.
LEMMA JoinIsQuiet ==
  ASSUME HandoverInv, PoolInv, JoinPool
  PROVE  QuietWhenStopped'
<1>1. /\ pc = "pooljoin"
      /\ \A t \in 1 .. Len(handed) : report[t] # "none"
      /\ UNCHANGED <<queue, taken, handed, worker>>
  BY DEF JoinPool, Finished, watcherVars, poolVars
<1>2. queue = << >>
  BY <1>1 DEF HandoverInv, Phases
<1>3. taken = Len(handed)
  <2>1. taken \in 0 .. Len(handed) /\ Len(handed) \in Nat /\ Len(handed) <= MaxDetected
    BY TaskFacts DEF PoolInv, PoolTypeOK
  <2>2. SUFFICES ASSUME taken < Len(handed) PROVE FALSE
    BY <2>1
  <2>3. taken + 1 \in Tasks /\ taken + 1 > taken /\ taken + 1 \in 1 .. Len(handed)
    BY <2>1, <2>2, MaxDetectedAssumption DEF Tasks
  <2> QED BY <1>1, <2>3 DEF PoolInv, UntakenHaveNoResult
<1>4. ASSUME NEW w \in Workers
      PROVE  worker[w].pc = "idle"
  <2>1. SUFFICES ASSUME worker[w].pc # "idle" PROVE FALSE
    OBVIOUS
  <2>2. worker[w].task \in 1 .. Len(handed)
    BY <1>3, <2>1, RunningTask
  <2>3. report[worker[w].task] = "none"
    BY <2>1 DEF PoolInv, TaskRunsOnce
  <2> QED BY <1>1, <2>2, <2>3
<1> QED BY <1>1, <1>2, <1>3, <1>4 DEF QuietWhenStopped

\* Once the collector has stopped nothing moves: no file is queued, and a process
\* that is idle finds no task.
LEMMA StaysQuiet ==
  ASSUME HandoverInv, PoolInv, QuietWhenStopped, [Next]_vars
  PROVE  QuietWhenStopped'
<1>1. CASE JoinPool
  BY <1>1, JoinIsQuiet
<1>2. CASE pc \in {"stopped", "gone"} /\ UNCHANGED <<queue, taken, handed, worker>>
  BY <1>2 DEF QuietWhenStopped
<1>3. CASE pc' \notin {"stopped", "gone"}
  BY <1>3 DEF QuietWhenStopped
<1>4. ASSUME ~JoinPool, pc' \in {"stopped", "gone"}
      PROVE  pc \in {"stopped", "gone"} /\ UNCHANGED <<queue, taken, handed, worker>>
  <2>1. CASE MainStep
    BY <1>4, <2>1 DEF MainStep, Start, WakeUp, Dequeue, Dequeued, Dispatch, Dispatched,
                      Finally, Join, Drop, ClosePool, Destroy, watcherVars, poolVars, mainVars
  <2>2. CASE KeyboardInterrupt \/ SignalUsr1
    BY <1>4, <2>2 DEF KeyboardInterrupt, SignalUsr1
  <2>3. CASE Observe
    <3>1. pc \in {"stopped", "gone"}
      BY <1>4, <2>3 DEF Observe, mainVars
    <3>2. observer \in {"running", "stopping"}
      BY <2>3 DEF Observe, OnCreated, OnMoved, Dispatching
    <3> QED BY <3>1, <3>2 DEF HandoverInv, Phases
  <2>4. CASE \E w \in Workers : WorkerStep(w) \/ DeliverLate(w) \/ Die(w)
    <3>1. PICK w \in Workers : WorkerStep(w) \/ DeliverLate(w) \/ Die(w)
      BY <2>4
    <3>2. UNCHANGED handoverVars
      BY <3>1, WorkersLeaveHandover
    <3>3. pc \in {"stopped", "gone"}
      BY <1>4, <3>2 DEF handoverVars, mainVars
    <3>4. taken = Len(handed) /\ worker[w].pc = "idle" /\ taken \in Nat
      BY <3>3, TaskFacts DEF QuietWhenStopped, PoolInv
    <3>5. worker[w].buffer = {}
      BY <3>4 DEF PoolInv, PoolTypeOK, Idle, Call
    <3>6. ~DeliverLate(w) /\ ~Die(w)
      BY <3>4, <3>5 DEF DeliverLate, Die
    <3>7. ~WorkerStep(w)
      BY <3>4 DEF WorkerStep, TakeTask, NewProducer, NoProducer, Convert, ConvertFails, Copy,
                  CopyFails, CopyCutShort, Open, Send, SendRefused, SendTimesOut, HasSegment,
                  StoreFailedSegment, StoreFails, EndOfSegments, RemoveStaging, Close
    <3> QED BY <3>1, <3>6, <3>7
  <2>5. CASE UNCHANGED vars
    BY <1>4, <2>5 DEF vars, watcherVars, mainVars, poolVars
  <2> QED BY <2>1, <2>2, <2>3, <2>4, <2>5 DEF Next
<1> QED BY <1>1, <1>2, <1>3, <1>4

\* The staging area is removed only when no process of the pool runs, none has a
\* task to take and no file waits on the queue.
THEOREM StopsQuietly == Spec => []QuietWhenStopped
<1> DEFINE Inv == HandoverInv /\ PoolInv /\ QuietWhenStopped
<1>1. Init => Inv
  BY HandoverInit, PoolInit DEF Init, QuietWhenStopped
<1>2. Inv /\ [Next]_vars => Inv'
  BY HandoverStep, PoolNext, StaysQuiet
<1> QED BY <1>1, <1>2, PTL DEF Spec

-----------------------------------------------------------------------------
(* What is sent on behalf of a file *)

\* The files p and q are not told apart in the staging area.
Same(p, q) == IF SkipConversion THEN Name[p] = Name[q] ELSE p = q

\* A file of the staging area is a task's own: with a conversion its name is the
\* task, without one it is a copy made for a file that has the name.
StagingOwn ==
  IF SkipConversion
    THEN \A n \in StagingNames : staging[n] # 0 =>
           staging[n] \in 1 .. taken /\ Name[handed[staging[n]]] = n
    ELSE \A t \in Tasks : staging[t] \in {0, t}

\* An inode holds the content of the file of the task that made it, or of one that
\* has its name.
ContentOwn ==
  \A i \in Tasks : content[i] # None => i \in 1 .. taken /\ Same(content[i], handed[i])

\* A process sends segments of the file of its own task, or of one that has its name.
SendsItsFile ==
  \A w \in Workers : worker[w].pc \in {"sending", "store"} =>
    /\ worker[w].inode \in 1 .. taken
    /\ Same(handed[worker[w].inode], handed[worker[w].task])

\* Whose content is whose.
OwnInv == StagingOwn /\ ContentOwn /\ SendsItsFile

\* What has been sent or has failed is a segment of the file of its task, or of one
\* that has its name; what is stored, buffered or about to be stored has failed.
SentOwn ==
  /\ \A m \in topic \cup failed : m[1] \in 1 .. taken /\ Same(m[2], handed[m[1]])
  /\ \A x \in stored : x[2] \in failed
  /\ \A w \in Workers :
       /\ worker[w].buffer \subseteq failed
       /\ worker[w].pc = "store" => worker[w].items \in failed

\* The names of the staging area: those of the files are no tasks.
LEMMA NameFacts ==
  /\ \A t \in Tasks : t \in StagingNames
  /\ \A p \in Paths : Name[p] \in StagingNames /\ Name[p] \notin Tasks
BY WorkersAssumption DEF StagingNames

\* A step that touches neither the staging area nor an inode, and starts no sending,
\* leaves every content where it was.
LEMMA OwnStays ==
  ASSUME HandoverInv, PoolInv, OwnInv,
         taken' \in Nat, taken <= taken', \A t \in 1 .. taken : handed'[t] = handed[t],
         UNCHANGED <<staging, content>>,
         \A w \in Workers : worker'[w].pc \in {"sending", "store"} =>
           /\ worker[w].pc \in {"sending", "store"}
           /\ worker'[w].inode = worker[w].inode /\ worker'[w].task = worker[w].task
  PROVE  OwnInv'
<1>1. taken \in Nat /\ \A t \in 1 .. taken : t \in 1 .. taken'
  BY TaskFacts DEF PoolInv
<1>2. StagingOwn'
  BY <1>1 DEF OwnInv, StagingOwn
<1>3. ContentOwn'
  BY <1>1 DEF OwnInv, ContentOwn, Same
<1>4. SendsItsFile'
  <2> SUFFICES ASSUME NEW w \in Workers, worker'[w].pc \in {"sending", "store"}
               PROVE  /\ worker'[w].inode \in 1 .. taken'
                      /\ Same(handed'[worker'[w].inode], handed'[worker'[w].task])
    BY DEF SendsItsFile, Same
  <2>1. /\ worker[w].pc \in {"sending", "store"}
        /\ worker'[w].inode = worker[w].inode /\ worker'[w].task = worker[w].task
    OBVIOUS
  <2>2. /\ worker[w].inode \in 1 .. taken
        /\ Same(handed[worker[w].inode], handed[worker[w].task])
    BY <2>1 DEF OwnInv, SendsItsFile
  <2>3. worker[w].task \in 1 .. taken
    BY <2>1, RunningTask
  <2> QED BY <1>1, <2>1, <2>2, <2>3
<1> QED BY <1>2, <1>3, <1>4 DEF OwnInv

\* The raw file is converted, or copied, into an inode its own task made, or into
\* that of a file of its name.
LEMMA StageOwn ==
  ASSUME HandoverInv, PoolInv, OwnInv,
         NEW w \in Workers, Convert(w) \/ Copy(w) \/ CopyCutShort(w)
  PROVE  OwnInv'
<1> DEFINE t == worker[w].task
<1>1. worker[w].pc = "convert" /\ UNCHANGED <<handed, taken>>
  BY DEF Convert, Copy, CopyCutShort
<1>2. /\ worker[w] \in WorkerState /\ t \in Tasks /\ t \in 1 .. taken /\ handed[t] \in Paths
      /\ worker \in [Workers -> WorkerState]
  BY <1>1, RunningTask DEF PoolInv, PoolTypeOK
<1>3. /\ worker'[w].pc \in {"open", "close"}
      /\ \A v \in Workers \ {w} : worker'[v] = worker[v]
  BY <1>2 DEF Convert, Copy, CopyCutShort, Goto, Leave, WorkerState
<1>4. /\ staging \in [StagingNames -> 0 .. MaxDetected]
      /\ content \in [Tasks -> Paths \cup {None}]
  BY DataFacts
<1>5. SendsItsFile'
  BY <1>1, <1>3 DEF OwnInv, SendsItsFile, Same
<1>6. CASE Convert(w)
  <2>1. /\ ~SkipConversion
        /\ staging' = [staging EXCEPT ![t] = t]
        /\ content' = [content EXCEPT ![t] = handed[t]]
    BY <1>6 DEF Convert
  <2>2. \A u \in Tasks : staging'[u] = IF u = t THEN t ELSE staging[u]
    BY <2>1, <1>4, NameFacts
  <2>3. StagingOwn'
    BY <2>1, <2>2 DEF OwnInv, StagingOwn
  <2>4. ContentOwn'
    BY <1>1, <1>2, <1>4, <2>1 DEF OwnInv, ContentOwn, Same
  <2> QED BY <1>5, <2>3, <2>4 DEF OwnInv
<1>7. CASE Copy(w) \/ CopyCutShort(w)
  <2> DEFINE n == Name[handed[t]]
             i == IF staging[n] = 0 THEN t ELSE staging[n]
  <2>1. /\ SkipConversion
        /\ staging' = [staging EXCEPT ![n] = i]
        /\ content' = [content EXCEPT ![i] = handed[t]]
    BY <1>7 DEF Copy, CopyCutShort, CopyOver, StagingName
  <2>2. n \in StagingNames
    BY <1>2, NameFacts
  <2>3. i \in 1 .. taken /\ Name[handed[i]] = n
    BY <1>2, <2>1, <2>2 DEF OwnInv, StagingOwn
  <2>4. i \in Tasks
    BY <2>3, TaskFacts DEF PoolInv
  <2>5. Same(handed[t], handed[i])
    BY <2>1, <2>3 DEF Same
  <2> HIDE DEF i
  <2>6. \A m \in StagingNames : staging'[m] = IF m = n THEN i ELSE staging[m]
    BY <1>4, <2>1, <2>2
  <2>7. StagingOwn'
    BY <1>1, <2>1, <2>3, <2>6 DEF OwnInv, StagingOwn
  <2>8. \A j \in Tasks : content'[j] = IF j = i THEN handed[t] ELSE content[j]
    BY <1>4, <2>1, <2>4
  <2>9. ContentOwn'
    BY <1>1, <2>3, <2>5, <2>8 DEF OwnInv, ContentOwn, Same
  <2> QED BY <1>5, <2>7, <2>9 DEF OwnInv
<1> QED BY <1>6, <1>7

\* A name leaves the staging area, or is that of a temporary file nobody filled.
LEMMA LeaveStagingOwn ==
  ASSUME HandoverInv, PoolInv, OwnInv,
         NEW w \in Workers, ConvertFails(w) \/ RemoveStaging(w)
  PROVE  OwnInv'
<1> DEFINE t == worker[w].task
<1>1. /\ worker[w].pc \in {"convert", "remove"}
      /\ UNCHANGED <<handed, taken, content>>
      /\ \E o : worker' = [worker EXCEPT ![w] = [worker[w] EXCEPT !.pc = "close", !.result = o]]
  BY DEF ConvertFails, RemoveStaging, Leave
<1>2. /\ worker[w] \in WorkerState /\ t \in Tasks /\ StagingName(t) \in StagingNames
      /\ worker \in [Workers -> WorkerState]
      /\ staging \in [StagingNames -> 0 .. MaxDetected]
  BY <1>1, RunningTask DEF PoolInv, PoolTypeOK
<1>3. /\ worker'[w].pc = "close"
      /\ \A v \in Workers \ {w} : worker'[v] = worker[v]
  BY <1>1, <1>2 DEF WorkerState
<1>4. ContentOwn' /\ SendsItsFile'
  BY <1>1, <1>3 DEF OwnInv, ContentOwn, SendsItsFile, Same
<1>5. CASE ConvertFails(w)
  <2>1. ~SkipConversion /\ staging' = [staging EXCEPT ![t] = t]
    BY <1>5 DEF ConvertFails
  <2>2. \A u \in Tasks : staging'[u] = IF u = t THEN t ELSE staging[u]
    BY <1>2, <2>1, NameFacts
  <2>3. StagingOwn'
    BY <2>1, <2>2 DEF OwnInv, StagingOwn
  <2> QED BY <1>4, <2>3 DEF OwnInv
<1>6. CASE RemoveStaging(w)
  <2>1. staging' = [staging EXCEPT ![StagingName(t)] = 0]
    BY <1>6 DEF RemoveStaging
  <2>2. \A m \in StagingNames : staging'[m] = staging[m] \/ staging'[m] = 0
    BY <1>2, <2>1
  <2>3. StagingOwn'
    BY <1>1, <2>2, NameFacts DEF OwnInv, StagingOwn
  <2> QED BY <1>4, <2>3 DEF OwnInv
<1> QED BY <1>5, <1>6

\* The file a process opens is the one its task names.
LEMMA OpenOwn ==
  ASSUME HandoverInv, PoolInv, OwnInv, NEW w \in Workers, Open(w)
  PROVE  OwnInv'
<1> DEFINE t == worker[w].task
           i == staging[StagingName(t)]
<1>1. /\ worker[w].pc = "open"
      /\ UNCHANGED <<handed, taken, staging, content>>
  BY DEF Open, dataVars
<1>2. /\ worker[w] \in WorkerState /\ t \in Tasks /\ t \in 1 .. taken /\ handed[t] \in Paths
      /\ worker \in [Workers -> WorkerState]
  BY <1>1, RunningTask DEF PoolInv, PoolTypeOK
<1>3. \A v \in Workers \ {w} : worker'[v] = worker[v]
  BY <1>2 DEF Open, Leave
<1>4. StagingOwn' /\ ContentOwn'
  BY <1>1 DEF OwnInv, StagingOwn, ContentOwn, Same
<1>5. i # 0 => i \in 1 .. taken /\ Same(handed[i], handed[t])
  <2>1. CASE SkipConversion
    BY <1>2, <2>1, NameFacts DEF OwnInv, StagingOwn, StagingName, Same
  <2>2. CASE ~SkipConversion
    BY <1>2, <2>2 DEF OwnInv, StagingOwn, StagingName, Same
  <2> QED BY <2>1, <2>2
<1>6. CASE i = 0
  <2>1. worker'[w].pc = "close"
    BY <1>2, <1>6 DEF Open, Leave, WorkerState
  <2>2. SendsItsFile'
    BY <1>1, <1>3, <2>1 DEF OwnInv, SendsItsFile, Same
  <2> QED BY <1>4, <2>2 DEF OwnInv
<1>7. CASE i # 0
  <2>1. worker'[w].inode = i /\ worker'[w].task = t
    BY <1>2, <1>7 DEF Open, WorkerState
  <2>2. SendsItsFile'
    BY <1>1, <1>3, <1>5, <1>7, <2>1 DEF OwnInv, SendsItsFile, Same
  <2> QED BY <1>4, <2>2 DEF OwnInv
<1> QED BY <1>6, <1>7

\* The removal of the staging area takes every name away.
LEMMA DestroyOwn == PoolInv /\ OwnInv /\ Destroy => OwnInv'
<1> SUFFICES ASSUME PoolInv, OwnInv, Destroy PROVE OwnInv'
  OBVIOUS
<1>1. /\ staging' = [n \in StagingNames |-> 0]
      /\ UNCHANGED <<handed, taken, worker, content>>
  BY DEF Destroy, poolVars
<1>2. StagingOwn'
  BY <1>1, NameFacts DEF StagingOwn
<1> QED BY <1>1, <1>2 DEF OwnInv, ContentOwn, SendsItsFile, Same

\* The other steps of a process: none starts to send, or changes what it sends.
LEMMA CallOwn ==
  ASSUME HandoverInv, PoolInv, OwnInv, NEW w \in Workers,
         \/ TakeTask(w) \/ NewProducer(w) \/ NoProducer(w) \/ CopyFails(w)
         \/ Send(w) \/ SendRefused(w) \/ SendTimesOut(w)
         \/ StoreFailedSegment(w) \/ StoreFails(w) \/ EndOfSegments(w) \/ Close(w)
         \/ DeliverLate(w) \/ Die(w)
  PROVE  OwnInv'
<1>1. /\ UNCHANGED <<handed, staging, content>>
      /\ taken' = taken \/ taken' = taken + 1
  BY DEF TakeTask, NewProducer, NoProducer, CopyFails, Send, SendRefused, SendTimesOut,
         StoreFailedSegment, StoreFails, EndOfSegments, Close, DeliverLate, Die, dataVars
<1>2. taken \in Nat /\ taken' \in Nat /\ taken <= taken'
  BY <1>1, TaskFacts DEF PoolInv
<1>3. worker \in [Workers -> WorkerState]
  BY DEF PoolInv, PoolTypeOK
<1>4. CASE \/ TakeTask(w) \/ NewProducer(w) \/ NoProducer(w) \/ CopyFails(w)
           \/ StoreFails(w) \/ Close(w) \/ Die(w)
  <2>2. /\ \A v \in Workers \ {w} : worker'[v] = worker[v]
        /\ worker'[w].pc \notin {"sending", "store"}
    <3>1. CASE TakeTask(w)
      BY <3>1, <1>3 DEF TakeTask, Call
    <3>2. CASE NewProducer(w)
      BY <3>2, <1>3 DEF NewProducer, Goto, WorkerState
    <3>3. CASE NoProducer(w) \/ Close(w) \/ Die(w)
      BY <3>3, <1>3 DEF NoProducer, Close, Die, Idle, Call
    <3>4. CASE CopyFails(w) \/ StoreFails(w)
      BY <3>4, <1>3 DEF CopyFails, StoreFails, Leave, WorkerState
    <3> QED BY <1>4, <3>1, <3>2, <3>3, <3>4
  <2> QED BY <1>1, <1>2, <2>2, OwnStays
<1>5. CASE \/ Send(w) \/ SendRefused(w) \/ SendTimesOut(w) \/ StoreFailedSegment(w)
           \/ EndOfSegments(w)
  <2>1. worker[w].pc \in {"sending", "store"}
    BY <1>5 DEF Send, SendRefused, SendTimesOut, StoreFailedSegment, EndOfSegments, HasSegment
  <2>2. /\ \A v \in Workers \ {w} : worker'[v] = worker[v]
        /\ worker'[w].inode = worker[w].inode /\ worker'[w].task = worker[w].task
    <3>1. CASE Send(w) \/ StoreFailedSegment(w)
      BY <3>1, <1>3 DEF Send, StoreFailedSegment, NextSegment, WorkerState
    <3>2. CASE SendRefused(w) \/ SendTimesOut(w)
      BY <3>2, <1>3 DEF SendRefused, SendTimesOut, WorkerState
    <3>3. CASE EndOfSegments(w)
      <4>1. HandoverInv /\ PoolInv
        OBVIOUS
      <4>2. Content(w) \in Paths
        BY <4>1, <2>1, DataFacts DEF Content
      <4>3. \/ Goto(w, "remove") \/ Leave(w, "IOError") \/ Leave(w, "error")
        BY <3>3, <4>2, WorkersAssumption DEF EndOfSegments, Endings
      <4> QED BY <4>3, <1>3 DEF Goto, Leave, WorkerState
    <3> QED BY <1>5, <3>1, <3>2, <3>3
  <2> QED BY <1>1, <1>2, <2>1, <2>2, OwnStays
<1>6. CASE DeliverLate(w)
  <2>1. \A v \in Workers : /\ worker'[v].pc = worker[v].pc
                           /\ worker'[v].inode = worker[v].inode
                           /\ worker'[v].task = worker[v].task
    BY <1>6, <1>3 DEF DeliverLate, WorkerState
  <2> QED BY <1>1, <1>2, <2>1, OwnStays
<1> QED BY <1>4, <1>5, <1>6

\* A step of another thread touches no content but to remove it.
LEMMA OwnNext ==
  ASSUME HandoverInv, PoolInv, OwnInv, [Next]_vars
  PROVE  OwnInv'
<1>0. taken \in Nat /\ taken <= Len(handed) /\ Len(handed) \in Nat
  BY TaskFacts DEF PoolInv, PoolTypeOK
<1>1. CASE Dispatch
  <2>1. UNCHANGED <<taken, worker, staging, content>> /\ handed' = Append(handed, Head(batch))
    BY <1>1 DEF Dispatch, dataVars
  <2>2. handed \in Seq(Supported) /\ batch # << >> /\ batch \in Seq(Supported)
    BY <1>1 DEF Dispatch, HandoverInv, MainTypeOK
  <2>3. \A t \in 1 .. Len(handed) : handed'[t] = handed[t]
    BY <2>1, <2>2, HeadTail, AppendProperties
  <2>4. \A t \in 1 .. taken : handed'[t] = handed[t]
    BY <1>0, <2>3
  <2> QED BY <1>0, <2>1, <2>4, OwnStays
<1>2. CASE Destroy
  BY <1>2, DestroyOwn
<1>3. CASE UNCHANGED <<handed, taken, worker, staging, content>>
  BY <1>3, <1>0, OwnStays
<1>4. CASE MainStep /\ ~Dispatch /\ ~Destroy
  BY <1>4, <1>3 DEF MainStep, Start, WakeUp, Dequeue, Dequeued, Dispatched, Finally, Join, Drop,
                    ClosePool, JoinPool, poolVars, dataVars
<1>5. CASE Observe \/ KeyboardInterrupt \/ SignalUsr1 \/ UNCHANGED vars
  BY <1>5, <1>3 DEF Observe, KeyboardInterrupt, SignalUsr1, vars, poolVars, dataVars
<1>6. CASE \E w \in Workers : WorkerStep(w) \/ DeliverLate(w) \/ Die(w)
  BY <1>6, StageOwn, LeaveStagingOwn, OpenOwn, CallOwn DEF WorkerStep
<1> QED BY <1>1, <1>2, <1>4, <1>5, <1>6 DEF Next

\* Nothing is staged before the collector starts.
LEMMA OwnInit == Init => OwnInv /\ SentOwn
BY NameFacts DEF Init, OwnInv, StagingOwn, ContentOwn, SendsItsFile, SentOwn, Idle, Call

\* What a process sends or stores is content of its file, or of one of its name.
LEMMA MessageOwn ==
  ASSUME HandoverInv, PoolInv, OwnInv,
         NEW w \in Workers, worker[w].pc \in {"sending", "store"}
  PROVE  /\ Content(w) \in Paths
         /\ Same(Content(w), handed[worker[w].task])
         /\ Message(w)[1] = worker[w].task /\ Message(w)[2] = Content(w)
<1>1. content[worker[w].inode] \in Paths /\ worker[w].inode \in 1 .. taken
  BY DataFacts DEF OwnInv, SendsItsFile
<1>2. worker[w].inode \in Tasks
  BY <1>1, TaskFacts DEF PoolInv
<1>3. Same(content[worker[w].inode], handed[worker[w].inode])
  BY <1>1, <1>2, WorkersAssumption DEF OwnInv, ContentOwn
<1>4. Same(handed[worker[w].inode], handed[worker[w].task])
  BY DEF OwnInv, SendsItsFile
<1>5. Same(Content(w), handed[worker[w].task])
  BY <1>3, <1>4 DEF Content, Same
<1> QED BY <1>1, <1>5 DEF Message, Content

\* A step that adds to Kafka and to the failed messages segments of the files of their
\* tasks only keeps the rest where it was.
LEMMA SentStays ==
  ASSUME HandoverInv, PoolInv, SentOwn,
         taken' \in Nat, taken <= taken', \A t \in 1 .. taken : handed'[t] = handed[t],
         failed \subseteq failed',
         \A m \in topic' \cup failed' :
           m \in topic \cup failed \/ (m[1] \in 1 .. taken /\ Same(m[2], handed[m[1]])),
         \A x \in stored' : x \in stored \/ x[2] \in failed',
         \A w \in Workers :
           /\ worker'[w].buffer \subseteq failed'
           /\ worker'[w].pc = "store" => worker'[w].items \in failed'
  PROVE  SentOwn'
<1>1. taken \in Nat /\ \A t \in 1 .. taken : t \in 1 .. taken'
  BY TaskFacts DEF PoolInv
<1>2. \A m \in topic' \cup failed' : m[1] \in 1 .. taken /\ Same(m[2], handed[m[1]])
  BY DEF SentOwn
<1>3. \A m \in topic' \cup failed' : m[1] \in 1 .. taken' /\ Same(m[2], handed'[m[1]])
  BY <1>1, <1>2
<1>4. \A x \in stored' : x[2] \in failed'
  BY DEF SentOwn
<1> QED BY <1>3, <1>4 DEF SentOwn, Same

\* The calls that send nothing, and the outcome of one.
LEMMA SentByCall ==
  ASSUME HandoverInv, PoolInv, OwnInv, SentOwn,
         NEW w \in Workers, WorkerStep(w) \/ DeliverLate(w) \/ Die(w)
  PROVE  SentOwn'
<1>1. /\ handed' = handed
      /\ taken' = taken \/ taken' = taken + 1
  BY DEF WorkerStep, TakeTask, NewProducer, NoProducer, Convert, ConvertFails, Copy, CopyFails,
         CopyCutShort, Open, Send, SendRefused, SendTimesOut, StoreFailedSegment, StoreFails,
         EndOfSegments, RemoveStaging, Close, DeliverLate, Die
<1>2. taken \in Nat /\ taken' \in Nat /\ taken <= taken'
  BY <1>1, TaskFacts DEF PoolInv
<1>3. worker \in [Workers -> WorkerState]
  BY DEF PoolInv, PoolTypeOK
<1>4. /\ \A v \in Workers : /\ worker[v].buffer \subseteq failed
                            /\ worker[v].pc = "store" => worker[v].items \in failed
      /\ \A v \in Workers \ {w} : worker'[v] = worker[v]
  <2>1. CASE \/ TakeTask(w) \/ NewProducer(w) \/ NoProducer(w) \/ Convert(w) \/ ConvertFails(w)
             \/ Copy(w) \/ CopyFails(w) \/ CopyCutShort(w) \/ Open(w) \/ RemoveStaging(w)
             \/ Close(w) \/ Die(w) \/ StoreFails(w)
    <3>1. \A v \in Workers \ {w} : worker'[v] = worker[v]
      BY <2>1, <1>3 DEF TakeTask, NewProducer, NoProducer, Convert, ConvertFails, Copy,
           CopyFails, CopyCutShort, Open, RemoveStaging, Close, Die, StoreFails, Goto, Leave
    <3> QED BY <3>1 DEF SentOwn
  <2>2. CASE \/ Send(w) \/ SendRefused(w) \/ SendTimesOut(w) \/ StoreFailedSegment(w)
             \/ DeliverLate(w)
    <3>1. \A v \in Workers \ {w} : worker'[v] = worker[v]
      BY <2>2, <1>3 DEF Send, SendRefused, SendTimesOut, StoreFailedSegment, DeliverLate,
           NextSegment
    <3> QED BY <3>1 DEF SentOwn
  <2>3. CASE EndOfSegments(w)
    <3>1. worker[w].pc \in {"sending", "store"}
      BY <2>3 DEF EndOfSegments
    <3>2. Content(w) \in Paths
      BY <3>1, DataFacts DEF Content
    <3>3. \/ Goto(w, "remove") \/ Leave(w, "IOError") \/ Leave(w, "error")
      BY <2>3, <3>2, WorkersAssumption DEF EndOfSegments, Endings
    <3>4. \A v \in Workers \ {w} : worker'[v] = worker[v]
      BY <3>3, <1>3 DEF Goto, Leave
    <3> QED BY <3>4 DEF SentOwn
  <2> QED BY <2>1, <2>2, <2>3 DEF WorkerStep
<1>5. CASE \/ TakeTask(w) \/ NoProducer(w) \/ Close(w) \/ Die(w)
  <2>1. worker'[w].buffer = {} /\ worker'[w].pc # "store" /\ UNCHANGED <<topic, failed, stored>>
    BY <1>5, <1>3 DEF TakeTask, NoProducer, Close, Die, Idle, Call, dataVars
  <2> QED BY <1>1, <1>2, <1>4, <2>1, SentStays
<1>6. CASE \/ NewProducer(w) \/ Convert(w) \/ ConvertFails(w) \/ Copy(w) \/ CopyFails(w)
           \/ CopyCutShort(w) \/ Open(w) \/ StoreFails(w) \/ EndOfSegments(w)
           \/ RemoveStaging(w)
  <2>1. UNCHANGED <<topic, failed, stored>>
    BY <1>6 DEF NewProducer, Convert, ConvertFails, Copy, CopyFails, CopyCutShort, Open,
                StoreFails, EndOfSegments, RemoveStaging, dataVars
  <2>2. worker'[w].buffer = worker[w].buffer /\ worker'[w].pc # "store"
    <3>1. CASE EndOfSegments(w)
      <4>1. worker[w].pc \in {"sending", "store"}
        BY <3>1 DEF EndOfSegments
      <4>2. Content(w) \in Paths
        BY <4>1, DataFacts DEF Content
      <4>3. \/ Goto(w, "remove") \/ Leave(w, "IOError") \/ Leave(w, "error")
        BY <3>1, <4>2, WorkersAssumption DEF EndOfSegments, Endings
      <4> QED BY <4>3, <1>3 DEF Goto, Leave, WorkerState
    <3>2. CASE Open(w)
      BY <3>2, <1>3 DEF Open, Leave, WorkerState
    <3>3. CASE ~EndOfSegments(w) /\ ~Open(w)
      BY <1>6, <3>3, <1>3 DEF NewProducer, Convert, ConvertFails, Copy, CopyFails, CopyCutShort,
         StoreFails, RemoveStaging, Goto, Leave, WorkerState
    <3> QED BY <3>1, <3>2, <3>3
  <2> QED BY <1>1, <1>2, <1>4, <2>1, <2>2, SentStays
<1>7. CASE Send(w) \/ SendRefused(w) \/ SendTimesOut(w)
  <2>1. /\ worker[w].pc = "sending" /\ stored' = stored /\ failed \subseteq failed'
        /\ topic' \cup failed' \subseteq topic \cup failed \cup {Message(w)}
    BY <1>7 DEF Send, SendRefused, SendTimesOut, HasSegment
  <2>2. /\ Same(Message(w)[2], handed[Message(w)[1]])
        /\ Message(w)[1] \in 1 .. taken
    BY <2>1, MessageOwn, RunningTask
  <2>3. /\ worker'[w].buffer \subseteq failed'
        /\ worker'[w].pc = "store" => worker'[w].items \in failed'
    BY <1>7, <1>3, <1>4 DEF Send, SendRefused, SendTimesOut, NextSegment, WorkerState
  <2>4. \A m \in topic' \cup failed' :
          m \in topic \cup failed \/ (m[1] \in 1 .. taken /\ Same(m[2], handed[m[1]]))
    BY <2>1, <2>2
  <2>5. \A v \in Workers : /\ worker'[v].buffer \subseteq failed'
                           /\ worker'[v].pc = "store" => worker'[v].items \in failed'
    BY <1>4, <2>1, <2>3
  <2> QED BY <1>1, <1>2, <2>1, <2>4, <2>5, SentStays
<1>8. CASE StoreFailedSegment(w)
  <2>1. /\ worker[w].pc = "store" /\ UNCHANGED <<topic, failed>>
        /\ stored' = {x \in stored : x[1] # SegmentFile(w)} \cup {<<SegmentFile(w), worker[w].items>>}
        /\ worker'[w].buffer = worker[w].buffer /\ worker'[w].pc # "store"
    BY <1>8, <1>3 DEF StoreFailedSegment, NextSegment, WorkerState
  <2> QED BY <1>1, <1>2, <1>4, <2>1, SentStays
<1>9. CASE DeliverLate(w)
  <2>1. PICK m \in worker[w].buffer :
          /\ topic' = topic \cup {m}
          /\ worker' = [worker EXCEPT ![w].buffer = @ \ {m}]
          /\ UNCHANGED <<failed, stored>>
    BY <1>9 DEF DeliverLate
  <2>2. /\ worker'[w].buffer \subseteq worker[w].buffer
        /\ worker'[w].pc = worker[w].pc /\ worker'[w].items = worker[w].items
    BY <1>3, <2>1 DEF WorkerState
  <2>3. m \in failed
    BY <1>4, <2>1
  <2> QED BY <1>1, <1>2, <1>4, <2>1, <2>2, <2>3, SentStays
<1> QED BY <1>5, <1>6, <1>7, <1>8, <1>9 DEF WorkerStep

\* Every step keeps it: the main thread and the observer send nothing.
LEMMA SentNext ==
  ASSUME HandoverInv, PoolInv, OwnInv, SentOwn, [Next]_vars
  PROVE  SentOwn'
<1>0. taken \in Nat /\ taken <= Len(handed) /\ Len(handed) \in Nat
  BY TaskFacts DEF PoolInv, PoolTypeOK
<1>1. CASE \E w \in Workers : WorkerStep(w) \/ DeliverLate(w) \/ Die(w)
  BY <1>1, SentByCall
<1>2. CASE Dispatch
  <2>1. /\ UNCHANGED <<taken, worker, topic, failed, stored>>
        /\ handed' = Append(handed, Head(batch))
    BY <1>2 DEF Dispatch, dataVars
  <2>2. handed \in Seq(Supported) /\ batch # << >> /\ batch \in Seq(Supported)
    BY <1>2 DEF Dispatch, HandoverInv, MainTypeOK
  <2>3. \A t \in 1 .. Len(handed) : handed'[t] = handed[t]
    BY <2>1, <2>2, HeadTail, AppendProperties
  <2>4. \A t \in 1 .. taken : handed'[t] = handed[t]
    BY <1>0, <2>3
  <2> QED BY <1>0, <2>1, <2>4, SentStays DEF SentOwn
<1>3. CASE UNCHANGED <<handed, taken, worker, topic, failed>> /\ stored' \subseteq stored
  BY <1>3, <1>0, SentStays DEF SentOwn
<1>4. CASE MainStep /\ ~Dispatch
  BY <1>4, <1>3 DEF MainStep, Start, WakeUp, Dequeue, Dequeued, Dispatched, Finally, Join, Drop,
                    ClosePool, JoinPool, Destroy, mainVars, poolVars, dataVars
<1>5. CASE Observe \/ KeyboardInterrupt \/ SignalUsr1 \/ UNCHANGED vars
  BY <1>5, <1>3 DEF Observe, KeyboardInterrupt, SignalUsr1, InLoop, vars, mainVars, poolVars,
                    dataVars
<1> QED BY <1>1, <1>2, <1>4, <1>5 DEF Next

\* Whatever is in Kafka or stored on behalf of a file is a segment of that file or,
\* without a conversion, of one that has its base name.
THEOREM MessagesUnderTheirName == Spec => []SentUnderTheirName
<1> DEFINE Inv == HandoverInv /\ PoolInv /\ OwnInv /\ SentOwn
<1>1. Init => Inv
  BY HandoverInit, PoolInit, OwnInit
<1>2. Inv /\ [Next]_vars => Inv'
  BY HandoverStep, PoolNext, OwnNext, SentNext
<1>3. Inv => SentUnderTheirName
  BY DEF SentOwn, SentUnderTheirName, Same
<1> QED BY <1>1, <1>2, <1>3, PTL DEF Spec

-----------------------------------------------------------------------------
(* The segments: where each one is once its file is reported a success *)

\* Two files of the watched directories never have the same base name.
DistinctNames == \A p, q \in Paths : Name[p] = Name[q] => p = q

\* The segment s of the file of task t is where SegmentsAccounted wants it.
Accounted(t, s) ==
  IF <<t, handed[t], s>> \in failed
    THEN Stored(handed[t], s)
    ELSE <<t, handed[t], s>> \in topic

\* A segment fails once, on behalf of a task that has been taken, and its process
\* has it in hand until it is stored.
FailedBefore ==
  \A m \in failed :
    /\ m[1] \in 1 .. taken
    /\ \A w \in Workers : worker[w].pc # "idle" /\ worker[w].task = m[1] =>
         \/ m[3] < worker[w].seg
         \/ m[3] = worker[w].seg /\ worker[w].pc \in {"store", "close"}

\* What a call to publish has behind it: the segments before the one in hand, or
\* all of them once the generator has ended.
BehindIt(w) ==
  LET t == worker[w].task IN
    /\ \A s \in 1 .. (worker[w].seg - 1) : Accounted(t, s)
    /\ worker[w].pc = "store" =>
         /\ worker[w].items = <<t, handed[t], worker[w].seg>>
         /\ worker[w].items \in failed
    /\ worker[w].pc = "remove" \/ (worker[w].pc = "close" /\ worker[w].result = "success") =>
         \A s \in 1 .. NumSegs[handed[t]] : Accounted(t, s)

CallsAccount == pc # "gone" => \A w \in Workers : worker[w].pc # "idle" => BehindIt(w)

\* Where the segments are.
AccountInv == FailedBefore /\ CallsAccount /\ SegmentsAccounted

\* A segment that is accounted for stays so while its message does not fail, nothing
\* leaves Kafka and what is stored stays stored.
LEMMA AccountedStays ==
  ASSUME NEW t, NEW s, Accounted(t, s), handed[t] \in Paths, s \in Nat,
         handed'[t] = handed[t], topic \subseteq topic', failed \subseteq failed',
         <<t, handed[t], s>> \in failed' => <<t, handed[t], s>> \in failed,
         \A p \in Paths, n \in Nat : Stored(p, n) => Stored(p, n)'
  PROVE  Accounted(t, s)'
<1>1. PICK p \in Paths : p = handed[t]
  OBVIOUS
<1>2. CASE <<t, p, s>> \in failed'
  <2>1. Stored(p, s)'
    BY <1>1, <1>2 DEF Accounted
  <2> QED BY <1>1, <1>2, <2>1 DEF Accounted, Stored
<1>3. CASE <<t, p, s>> \notin failed'
  <2>1. <<t, p, s>> \in topic'
    BY <1>1, <1>3 DEF Accounted
  <2> QED BY <1>1, <1>3, <2>1 DEF Accounted
<1> QED BY <1>2, <1>3

\* A step of one process that keeps its task: what its own call has behind it and the
\* result it may give are all there is to show.
LEMMA CallMoves ==
  ASSUME HandoverInv, PoolInv, AccountInv,
         NEW w \in Workers, worker[w].pc # "idle",
         NEW t, worker[w].task = t,
         UNCHANGED <<pc, handed, taken>>,
         \A v \in Workers \ {w} : worker'[v] = worker[v],
         worker'[w].pc # "idle" => worker'[w].task = t,
         topic \subseteq topic',
         \A p \in Paths, n \in Nat : Stored(p, n) => Stored(p, n)',
         failed \subseteq failed',
         \A m \in failed' \ failed :
           /\ m = <<t, handed[t], worker[w].seg>>
           /\ worker'[w].pc = "store" /\ worker'[w].seg = worker[w].seg,
         worker'[w].pc # "idle" =>
           \A m \in failed : m[1] = t =>
             \/ m[3] < worker'[w].seg
             \/ m[3] = worker'[w].seg /\ worker'[w].pc \in {"store", "close"},
         pc # "gone" /\ worker'[w].pc # "idle" => BehindIt(w)',
         \A u \in Tasks \ {t} : report'[u] = report[u],
         pc # "gone" /\ report'[t] = "success" =>
           \A s \in 1 .. NumSegs[handed[t]] : Accounted(t, s)'
  PROVE  AccountInv'
<1>1. \A u \in 1 .. taken : u \in Tasks /\ handed[u] \in Paths
  BY TaskFacts DEF PoolInv
<1>2. ASSUME NEW u \in 1 .. taken, u # t, NEW s \in Nat, Accounted(u, s)
      PROVE  Accounted(u, s)'
  <2>1. handed[u] \in Paths /\ handed'[u] = handed[u]
    BY <1>1
  <2>2. <<u, handed[u], s>> \in failed' => <<u, handed[u], s>> \in failed
    BY <1>2
  <2> QED BY <1>2, <2>1, <2>2, AccountedStays
<1>3. \A v \in Workers \ {w} : worker[v].pc # "idle" =>
        /\ worker[v].task # t /\ worker[v].task \in 1 .. taken
        /\ worker[v].seg \in Nat
  BY RunningTask DEF PoolInv, TaskRunsOnce, WorkerState
<1>4. FailedBefore'
  <2> SUFFICES ASSUME NEW m \in failed'
               PROVE  /\ m[1] \in 1 .. taken
                      /\ \A v \in Workers : worker'[v].pc # "idle" /\ worker'[v].task = m[1] =>
                           \/ m[3] < worker'[v].seg
                           \/ m[3] = worker'[v].seg /\ worker'[v].pc \in {"store", "close"}
    BY DEF FailedBefore
  <2>1. CASE m \in failed
    BY <2>1, <1>3 DEF AccountInv, FailedBefore
  <2>2. CASE m \notin failed
    <3>1. m[1] = t /\ m[3] = worker'[w].seg /\ worker'[w].pc = "store"
      BY <2>2
    <3>2. t \in 1 .. taken
      BY RunningTask
    <3> QED BY <1>3, <3>1, <3>2
  <2> QED BY <2>1, <2>2
<1>5. CallsAccount'
  <2> SUFFICES ASSUME pc # "gone", NEW v \in Workers, worker'[v].pc # "idle"
               PROVE  BehindIt(v)'
    BY DEF CallsAccount
  <2>1. CASE v = w
    BY <2>1
  <2>2. CASE v # w
    <3>1. worker'[v] = worker[v] /\ worker[v].pc # "idle"
      BY <2>2
    <3> DEFINE u == worker[v].task
    <3>2. u # t /\ u \in 1 .. taken /\ worker[v].seg \in Nat
      BY <1>3, <2>2, <3>1
    <3>3. BehindIt(v)
      BY <3>1 DEF AccountInv, CallsAccount
    <3>5. ASSUME NEW s \in Nat, Accounted(u, s)
          PROVE  Accounted(worker[v].task, s)'
      <4>1. PICK k : k = u
        OBVIOUS
      <4>2. Accounted(k, s)'
        BY <1>2, <3>2, <3>5, <4>1
      <4>3. k = worker'[v].task
        BY <3>1, <4>1
      <4> QED BY <4>2, <4>3 DEF Accounted
    <3>6. NumSegs[handed[u]] \in Nat
      BY <1>1, <3>2, WorkersAssumption
    <3>7. \A s \in 1 .. (worker[v].seg - 1) : Accounted(worker[v].task, s)'
      BY <3>2, <3>3, <3>5 DEF BehindIt
    <3>8. worker[v].pc = "store" =>
            /\ worker[v].items = <<u, handed[u], worker[v].seg>>
            /\ worker[v].items \in failed'
      BY <3>3 DEF BehindIt
    <3>9. worker[v].pc = "remove" \/ (worker[v].pc = "close" /\ worker[v].result = "success") =>
            \A s \in 1 .. NumSegs[handed[u]] : Accounted(worker[v].task, s)'
      BY <3>3, <3>5, <3>6 DEF BehindIt
    <3> QED BY <3>1, <3>7, <3>8, <3>9 DEF BehindIt
  <2> QED BY <2>1, <2>2
<1>6. SegmentsAccounted'
  <2> SUFFICES ASSUME pc # "gone", NEW u \in Tasks, report'[u] = "success",
                      NEW s \in 1 .. NumSegs[handed[u]]
               PROVE  Accounted(u, s)'
    BY DEF SegmentsAccounted, Accounted
  <2>1. CASE u = t
    BY <2>1
  <2>2. CASE u # t
    <3>1. report[u] = "success"
      BY <2>2
    <3>2. u \in 1 .. taken
      BY <3>1, TaskFacts DEF PoolInv, UntakenHaveNoResult, Tasks
    <3>3. Accounted(u, s)
      BY <3>1 DEF AccountInv, SegmentsAccounted, Accounted
    <3>4. s \in Nat
      BY <1>1, <3>2, WorkersAssumption
    <3> QED BY <1>2, <2>2, <3>2, <3>3, <3>4
  <2> QED BY <2>1, <2>2
<1> QED BY <1>4, <1>5, <1>6 DEF AccountInv

\* A call that goes on to another point, with no segment sent, failed or stored.
LEMMA CallGoesOn ==
  ASSUME HandoverInv, PoolInv, AccountInv,
         NEW w \in Workers, worker[w].pc # "idle",
         UNCHANGED <<pc, handed, taken, topic, stored, failed, report>>,
         NEW s, worker' = [worker EXCEPT ![w] = s],
         s.task = worker[w].task, s.seg = worker[w].seg,
         s.pc \notin {"idle", "store"},
         worker[w].pc \in {"store", "close"} => s.pc = "close",
         pc # "gone" /\ (s.pc = "remove" \/ (s.pc = "close" /\ s.result = "success")) =>
           \A n \in 1 .. NumSegs[handed[worker[w].task]] : Accounted(worker[w].task, n)
  PROVE  AccountInv'
<1>1. PICK t : t = worker[w].task
  OBVIOUS
<1>2. /\ worker[w] \in WorkerState /\ t \in 1 .. taken /\ t \in Tasks /\ handed[t] \in Paths
      /\ report[t] = "none"
  BY <1>1, RunningTask DEF PoolInv, TaskRunsOnce
<1>3. /\ \A v \in Workers \ {w} : worker'[v] = worker[v]
      /\ worker'[w] = s
  BY DEF PoolInv, PoolTypeOK
<1>4. \A n \in Nat : Accounted(t, n) => Accounted(t, n)'
  BY <1>2 DEF Accounted, Stored
<1>5. \A p \in Paths, n \in Nat : Stored(p, n) => Stored(p, n)'
  BY DEF Stored
<1>6. ASSUME pc # "gone"
      PROVE  BehindIt(w)'
  <2>1. BehindIt(w)
    BY <1>6 DEF AccountInv, CallsAccount
  <2>2. NumSegs[handed[t]] \in Nat /\ worker[w].seg \in Nat
    BY <1>2, WorkersAssumption DEF WorkerState
  <2>3. \A n \in 1 .. (s.seg - 1) : Accounted(t, n)'
    BY <1>1, <1>4, <2>1, <2>2 DEF BehindIt
  <2>4. s.pc = "remove" \/ (s.pc = "close" /\ s.result = "success") =>
          \A n \in 1 .. NumSegs[handed[t]] : Accounted(t, n)'
    BY <1>1, <1>4, <1>6, <2>2
  <2>5. t = worker'[w].task
    BY <1>1, <1>3
  <2> QED BY <1>3, <2>3, <2>4, <2>5 DEF BehindIt, Accounted
<1>7. \A m \in failed : m[1] = t =>
        m[3] < s.seg \/ (m[3] = s.seg /\ s.pc \in {"store", "close"})
  BY <1>1, <1>2 DEF AccountInv, FailedBefore
<1> QED BY <1>1, <1>2, <1>3, <1>5, <1>6, <1>7, CallMoves

\* When no two files share a name, the message a process sends or stores is a segment
\* of the file of its task.
LEMMA MessageIs ==
  ASSUME HandoverInv, PoolInv, OwnInv, DistinctNames,
         NEW w \in Workers, worker[w].pc \in {"sending", "store"}
  PROVE  /\ Content(w) = handed[worker[w].task]
         /\ Message(w) = <<worker[w].task, handed[worker[w].task], worker[w].seg>>
<1>1. Content(w) \in Paths /\ Same(Content(w), handed[worker[w].task])
  BY MessageOwn
<1>2. handed[worker[w].task] \in Paths
  BY RunningTask
<1>3. Content(w) = handed[worker[w].task]
  BY <1>1, <1>2 DEF Same, DistinctNames
<1> QED BY <1>3 DEF Message

\* The points of a call where no segment is at stake, and the end of the segments.
LEMMA QuietCalls ==
  ASSUME HandoverInv, PoolInv, OwnInv, AccountInv, DistinctNames, NEW w \in Workers,
         \/ NewProducer(w) \/ Convert(w) \/ ConvertFails(w) \/ Copy(w) \/ CopyFails(w)
         \/ CopyCutShort(w) \/ Open(w) \/ StoreFails(w) \/ EndOfSegments(w)
         \/ RemoveStaging(w)
  PROVE  AccountInv'
<1>1. /\ worker[w].pc # "idle"
      /\ UNCHANGED <<pc, handed, taken, topic, stored, failed, report>>
  BY DEF NewProducer, Convert, ConvertFails, Copy, CopyFails, CopyCutShort, Open, StoreFails,
         EndOfSegments, RemoveStaging, mainVars, dataVars
<1>2. worker[w] \in WorkerState
  BY <1>1, RunningTask
<1>3. CASE NewProducer(w) \/ Convert(w) \/ Copy(w)
  <2> DEFINE s == [worker[w] EXCEPT !.pc = IF NewProducer(w) THEN "convert" ELSE "open"]
  <2>1. worker[w].pc \in {"begin", "convert"} /\ worker' = [worker EXCEPT ![w] = s]
    BY <1>3 DEF NewProducer, Convert, Copy, Goto
  <2>2. s.task = worker[w].task /\ s.seg = worker[w].seg /\ s.pc \in {"convert", "open"}
    BY <1>2 DEF WorkerState
  <2> HIDE DEF s
  <2> QED BY <1>1, <2>1, <2>2, CallGoesOn
<1>4. CASE Open(w) /\ staging[StagingName(worker[w].task)] # 0
  <2> DEFINE s == [worker[w] EXCEPT !.pc = "sending",
                                    !.inode = staging[StagingName(worker[w].task)]]
  <2>1. worker[w].pc = "open" /\ worker' = [worker EXCEPT ![w] = s]
    BY <1>4 DEF Open
  <2>2. s.task = worker[w].task /\ s.seg = worker[w].seg /\ s.pc = "sending"
    BY <1>2 DEF WorkerState
  <2> HIDE DEF s
  <2> QED BY <1>1, <2>1, <2>2, CallGoesOn
<1>5. ASSUME NEW o, Leave(w, o),
             pc # "gone" /\ o = "success" =>
               \A n \in 1 .. NumSegs[handed[worker[w].task]] : Accounted(worker[w].task, n)
      PROVE  AccountInv'
  <2> DEFINE s == [worker[w] EXCEPT !.pc = "close", !.result = o]
  <2>1. worker' = [worker EXCEPT ![w] = s]
    BY <1>5 DEF Leave
  <2>2. /\ s.task = worker[w].task /\ s.seg = worker[w].seg /\ s.pc = "close"
        /\ s.result = o
    BY <1>2 DEF WorkerState
  <2> HIDE DEF s
  <2> QED BY <1>1, <1>5, <2>1, <2>2, CallGoesOn
<1>6. CASE \/ ConvertFails(w) \/ CopyFails(w) \/ CopyCutShort(w) \/ StoreFails(w)
           \/ Open(w) /\ staging[StagingName(worker[w].task)] = 0
  <2>1. Leave(w, "error") \/ Leave(w, "IOError")
    BY <1>6 DEF ConvertFails, CopyFails, CopyCutShort, StoreFails, Open
  <2> QED BY <2>1, <1>5
<1>7. CASE RemoveStaging(w)
  <2>1. /\ worker[w].pc = "remove"
        /\ Leave(w, "error") \/ Leave(w, "success")
    BY <1>7 DEF RemoveStaging
  <2>2. pc # "gone" => BehindIt(w)
    BY <1>1 DEF AccountInv, CallsAccount
  <2>3. pc # "gone" =>
          \A n \in 1 .. NumSegs[handed[worker[w].task]] : Accounted(worker[w].task, n)
    BY <2>1, <2>2 DEF BehindIt
  <2> QED BY <2>1, <2>3, <1>5
<1>8. CASE EndOfSegments(w)
  <2> DEFINE t == worker[w].task
  <2>1. worker[w].pc = "sending" /\ ~HasSegment(w)
    BY <1>8 DEF EndOfSegments
  <2>2. Content(w) = handed[t] /\ handed[t] \in Paths
    BY <1>1, <2>1, MessageIs, RunningTask
  <2>3. \/ Goto(w, "remove") \/ Leave(w, "IOError") \/ Leave(w, "error")
    BY <1>8, <2>2, WorkersAssumption DEF EndOfSegments, Endings
  <2>4. CASE Goto(w, "remove")
    <3> DEFINE s == [worker[w] EXCEPT !.pc = "remove"]
    <3>1. worker' = [worker EXCEPT ![w] = s]
      BY <2>4 DEF Goto
    <3>2. s.task = t /\ s.seg = worker[w].seg /\ s.pc = "remove"
      BY <1>2 DEF WorkerState
    <3>3. worker[w].seg > NumSegs[handed[t]] /\ worker[w].seg \in Nat /\ NumSegs[handed[t]] \in Nat
      BY <1>2, <2>1, <2>2, WorkersAssumption DEF HasSegment, WorkerState
    <3>4. pc # "gone" => \A n \in 1 .. (worker[w].seg - 1) : Accounted(t, n)
      BY <1>1 DEF AccountInv, CallsAccount, BehindIt
    <3>5. pc # "gone" => \A n \in 1 .. NumSegs[handed[t]] : Accounted(t, n)
      BY <3>3, <3>4
    <3> HIDE DEF s
    <3> QED BY <1>1, <2>1, <3>1, <3>2, <3>5, CallGoesOn
  <2>5. CASE Leave(w, "IOError") \/ Leave(w, "error")
    BY <2>5, <1>5
  <2> QED BY <2>3, <2>4, <2>5
<1> QED BY <1>3, <1>4, <1>6, <1>7, <1>8

\* A segment is in Kafka: it had not failed, so nothing else is wanted of it.
LEMMA SendAccounts ==
  ASSUME HandoverInv, PoolInv, OwnInv, AccountInv, DistinctNames, NEW w \in Workers, Send(w)
  PROVE  AccountInv'
<1>0. PICK n : n = worker[w].seg
  OBVIOUS
<1>1. PICK t : t = worker[w].task
  OBVIOUS
<1> DEFINE s == [worker[w] EXCEPT !.pc = "sending", !.seg = n + 1, !.items = None]
<1>2. /\ worker[w].pc = "sending"
      /\ topic' = topic \cup {Message(w)}
      /\ worker' = [worker EXCEPT ![w] = s]
      /\ UNCHANGED <<pc, handed, taken, stored, failed, report>>
  BY <1>0 DEF Send, HasSegment, NextSegment, mainVars
<1>3. /\ worker[w] \in WorkerState /\ t \in 1 .. taken /\ handed[t] \in Paths
      /\ report[t] = "none" /\ n \in Nat
  BY <1>0, <1>1, <1>2, RunningTask DEF PoolInv, TaskRunsOnce, WorkerState
<1>4. s.task = t /\ s.seg = n + 1 /\ s.pc = "sending"
  BY <1>1, <1>3 DEF WorkerState
<1>5. Message(w) = <<t, handed[t], n>>
  BY <1>0, <1>1, <1>2, MessageIs
<1>6. /\ \A v \in Workers \ {w} : worker'[v] = worker[v]
      /\ worker'[w] = s
  BY <1>2 DEF PoolInv, PoolTypeOK
<1>7. \A m \in failed : m[1] = t => m[3] < n
  BY <1>0, <1>1, <1>2 DEF AccountInv, FailedBefore
<1> HIDE DEF s
<1>8. Accounted(t, n)'
  <2>1. <<t, handed[t], n>> \notin failed'
    BY <1>2, <1>3, <1>7
  <2> QED BY <1>2, <1>5, <2>1 DEF Accounted
<1>9. \A k \in Nat : Accounted(t, k) => Accounted(t, k)'
  BY <1>2 DEF Accounted, Stored
<1>10. ASSUME pc # "gone"
       PROVE  BehindIt(w)'
  <2>1. \A k \in 1 .. (n - 1) : Accounted(t, k)
    BY <1>0, <1>1, <1>2, <1>10 DEF AccountInv, CallsAccount, BehindIt
  <2>2. ASSUME NEW k \in 1 .. ((n + 1) - 1)
        PROVE  Accounted(t, k)'
    <3>1. k \in Nat /\ (k \in 1 .. (n - 1) \/ k = n)
      BY <1>3
    <3> QED BY <3>1, <2>1, <1>8, <1>9
  <2>3. t = worker'[w].task
    BY <1>4, <1>6
  <2> QED BY <1>4, <1>6, <2>2, <2>3 DEF BehindIt, Accounted
<1>11. \A m \in failed : m[1] = t => m[3] < n + 1
  <2>1. \A m \in failed : m[3] \in Nat
    BY DataFacts DEF Messages
  <2> QED BY <1>3, <1>7, <2>1
<1>12. \A p \in Paths, k \in Nat : Stored(p, k) => Stored(p, k)'
  BY <1>2 DEF Stored
<1> QED BY <1>1, <1>2, <1>3, <1>4, <1>6, <1>10, <1>11, <1>12, CallMoves

\* A segment fails: it is the one in hand, which no result or call counts on yet.
LEMMA SendFailsAccounts ==
  ASSUME HandoverInv, PoolInv, OwnInv, AccountInv, DistinctNames, NEW w \in Workers,
         SendRefused(w) \/ SendTimesOut(w)
  PROVE  AccountInv'
<1>0. PICK n : n = worker[w].seg
  OBVIOUS
<1>1. PICK t : t = worker[w].task
  OBVIOUS
<1>2. /\ worker[w].pc = "sending"
      /\ failed' = failed \cup {Message(w)}
      /\ UNCHANGED <<pc, handed, taken, topic, stored, report>>
  BY DEF SendRefused, SendTimesOut, HasSegment, mainVars
<1>3. /\ worker[w] \in WorkerState /\ t \in 1 .. taken /\ handed[t] \in Paths
      /\ report[t] = "none" /\ n \in Nat
  BY <1>0, <1>1, <1>2, RunningTask DEF PoolInv, TaskRunsOnce, WorkerState
<1>4. Message(w) = <<t, handed[t], n>>
  BY <1>0, <1>1, <1>2, MessageIs
<1>5. /\ \A v \in Workers \ {w} : worker'[v] = worker[v]
      /\ worker'[w].pc = "store" /\ worker'[w].task = t /\ worker'[w].seg = n
      /\ worker'[w].items = Message(w)
  <2>1. worker \in [Workers -> WorkerState]
    BY DEF PoolInv, PoolTypeOK
  <2> QED BY <1>0, <1>1, <1>3, <2>1 DEF SendRefused, SendTimesOut, WorkerState
<1>6. \A m \in failed : m[1] = t => m[3] < n
  BY <1>0, <1>1, <1>2 DEF AccountInv, FailedBefore
<1>7. \A p \in Paths, k \in Nat : Stored(p, k) => Stored(p, k)'
  BY <1>2 DEF Stored
<1>8. ASSUME pc # "gone"
      PROVE  BehindIt(w)'
  <2>1. \A k \in 1 .. (n - 1) : Accounted(t, k)
    BY <1>0, <1>1, <1>8, <1>2 DEF AccountInv, CallsAccount, BehindIt
  <2>2. ASSUME NEW k \in 1 .. (n - 1)
        PROVE  Accounted(t, k)'
    <3>1. Accounted(t, k) /\ k \in Nat /\ k # n
      BY <1>3, <2>1
    <3>2. <<t, handed[t], k>> \in failed' => <<t, handed[t], k>> \in failed
      BY <1>2, <1>4, <3>1
    <3> QED BY <1>2, <1>3, <1>7, <3>1, <3>2, AccountedStays
  <2> QED BY <1>2, <1>4, <1>5, <2>2 DEF BehindIt, Accounted
<1>9. \A m \in failed' \ failed : m = <<t, handed[t], n>>
  BY <1>2, <1>4
<1>10. report'[t] # "success"
  BY <1>2, <1>3
<1> QED BY <1>0, <1>1, <1>2, <1>3, <1>5, <1>6, <1>7, <1>8, <1>9, <1>10, CallMoves

\* A failed segment is stored: a file of its name that is written over held the same
\* segment of the same file, since no other has its base name.
LEMMA StoreAccounts ==
  ASSUME HandoverInv, PoolInv, OwnInv, AccountInv, DistinctNames,
         NEW w \in Workers, StoreFailedSegment(w)
  PROVE  AccountInv'
<1>0. PICK n : n = worker[w].seg
  OBVIOUS
<1>1. PICK t : t = worker[w].task
  OBVIOUS
<1>2. /\ worker[w].pc = "store"
      /\ stored' = {x \in stored : x[1] # SegmentFile(w)} \cup {<<SegmentFile(w), worker[w].items>>}
      /\ UNCHANGED <<pc, handed, taken, topic, failed, report>>
  BY DEF StoreFailedSegment, mainVars
<1>3. /\ worker[w] \in WorkerState /\ t \in 1 .. taken /\ handed[t] \in Paths
      /\ report[t] = "none" /\ n \in Nat
  BY <1>0, <1>1, <1>2, RunningTask DEF PoolInv, TaskRunsOnce, WorkerState
<1>4. /\ \A v \in Workers \ {w} : worker'[v] = worker[v]
      /\ worker'[w].pc = "sending" /\ worker'[w].task = t /\ worker'[w].seg = n + 1
  <2>1. worker \in [Workers -> WorkerState]
    BY DEF PoolInv, PoolTypeOK
  <2> QED BY <1>0, <1>1, <1>3, <2>1 DEF StoreFailedSegment, NextSegment, WorkerState
<1>5. \A m \in failed : m[1] = t => m[3] < n + 1
  <2>1. \A m \in failed : m[3] \in Nat
    BY DataFacts DEF Messages
  <2>2. \A m \in failed : m[1] = t => m[3] < n \/ m[3] = n
    BY <1>0, <1>1, <1>2 DEF AccountInv, FailedBefore
  <2> QED BY <1>3, <2>1, <2>2
<1>6. CASE pc = "gone"
  <2>1. FailedBefore'
    <3> SUFFICES ASSUME NEW m \in failed
                 PROVE  /\ m[1] \in 1 .. taken
                        /\ \A v \in Workers : worker'[v].pc # "idle" /\ worker'[v].task = m[1] =>
                             \/ m[3] < worker'[v].seg
                             \/ m[3] = worker'[v].seg /\ worker'[v].pc \in {"store", "close"}
      BY <1>2 DEF FailedBefore
    <3> QED BY <1>4, <1>5 DEF AccountInv, FailedBefore
  <2> QED BY <1>2, <1>6, <2>1 DEF AccountInv, CallsAccount, SegmentsAccounted
<1>7. CASE pc # "gone"
  <2>1. /\ worker[w].items = <<t, handed[t], n>>
        /\ <<t, handed[t], n>> \in failed
        /\ \A k \in 1 .. (n - 1) : Accounted(t, k)
    BY <1>0, <1>1, <1>2, <1>7 DEF AccountInv, CallsAccount, BehindIt
  <2>2. SegmentFile(w) = <<Name[handed[t]], n>>
    BY <1>0, <1>1 DEF SegmentFile
  <2>3. <<<<Name[handed[t]], n>>, <<t, handed[t], n>>>> \in stored'
    BY <1>2, <2>1, <2>2
  <2>4. ASSUME NEW p \in Paths, NEW k \in Nat, Stored(p, k)
        PROVE  Stored(p, k)'
    <3>1. PICK x \in stored : x[1] = <<Name[p], k>> /\ x[2][2] = p
      BY <2>4 DEF Stored
    <3>2. CASE x[1] = SegmentFile(w)
      <4>1. p = handed[t] /\ k = n
        BY <1>3, <2>2, <3>1, <3>2 DEF DistinctNames
      <4> QED BY <2>3, <4>1 DEF Stored
    <3>3. CASE x[1] # SegmentFile(w)
      BY <1>2, <3>1, <3>3 DEF Stored
    <3> QED BY <3>2, <3>3
  <2>5. Accounted(t, n)'
    <3>1. PICK p \in Paths : p = handed[t]
      BY <1>3
    <3>2. Stored(p, n)'
      BY <2>3, <3>1 DEF Stored
    <3> QED BY <1>2, <2>1, <3>1, <3>2 DEF Accounted, Stored
  <2>6. ASSUME NEW k \in 1 .. ((n + 1) - 1)
        PROVE  Accounted(t, k)'
    <3>1. k \in Nat /\ (k \in 1 .. (n - 1) \/ k = n)
      BY <1>3
    <3>2. CASE k \in 1 .. (n - 1)
      BY <1>2, <1>3, <2>1, <2>4, <3>1, <3>2, AccountedStays
    <3> QED BY <2>5, <3>1, <3>2
  <2>7. BehindIt(w)'
    BY <1>4, <2>6 DEF BehindIt, Accounted
  <2> QED BY <1>1, <1>2, <1>3, <1>4, <1>5, <2>4, <2>7, CallMoves
<1> QED BY <1>6, <1>7

\* The result of a call, or its death: a success has every segment behind it.
LEMMA EndingAccounts ==
  ASSUME HandoverInv, PoolInv, AccountInv, NEW w \in Workers,
         NoProducer(w) \/ Close(w) \/ Die(w)
  PROVE  AccountInv'
<1>1. PICK t : t = worker[w].task
  OBVIOUS
<1>2. /\ worker[w].pc # "idle"
      /\ worker' = [worker EXCEPT ![w] = Idle]
      /\ UNCHANGED <<pc, handed, taken, topic, stored, failed>>
  BY DEF NoProducer, Close, Die, mainVars, dataVars
<1>3. /\ worker[w] \in WorkerState /\ t \in Tasks /\ t \in 1 .. taken /\ handed[t] \in Paths
      /\ report[t] = "none" /\ report \in [Tasks -> Results]
  BY <1>1, <1>2, RunningTask DEF PoolInv, TaskRunsOnce, PoolTypeOK
<1>4. /\ \A v \in Workers \ {w} : worker'[v] = worker[v]
      /\ worker'[w].pc = "idle"
  BY <1>2 DEF PoolInv, PoolTypeOK, Idle, Call
<1>5. \A p \in Paths, k \in Nat : Stored(p, k) => Stored(p, k)'
  BY <1>2 DEF Stored
<1>6. \/ report' = report
      \/ report' = [report EXCEPT ![t] = "UnboundLocalError"]
      \/ worker[w].pc = "close" /\ report' = [report EXCEPT ![t] = worker[w].result]
  BY <1>1 DEF NoProducer, Close, Die, dataVars
<1>7. \A u \in Tasks \ {t} : report'[u] = report[u]
  BY <1>3, <1>6
<1>8. ASSUME pc # "gone", report'[t] = "success"
      PROVE  \A n \in 1 .. NumSegs[handed[t]] : Accounted(t, n)'
  <2>1. worker[w].pc = "close" /\ worker[w].result = "success"
    BY <1>3, <1>6, <1>8
  <2>2. \A n \in 1 .. NumSegs[handed[t]] : Accounted(t, n)
    BY <1>1, <1>2, <1>8, <2>1 DEF AccountInv, CallsAccount, BehindIt
  <2> QED BY <1>2, <2>2 DEF Accounted, Stored
<1> QED BY <1>1, <1>2, <1>4, <1>5, <1>7, <1>8, CallMoves

\* A message that had timed out is delivered: it only adds to Kafka.
LEMMA LateAccounts ==
  ASSUME HandoverInv, PoolInv, AccountInv, NEW w \in Workers, DeliverLate(w)
  PROVE  AccountInv'
<1>1. PICK t : t = worker[w].task
  OBVIOUS
<1>2. /\ topic \subseteq topic'
      /\ UNCHANGED <<pc, handed, taken, stored, failed, report>>
  BY DEF DeliverLate, mainVars
<1>3. worker[w].pc # "idle"
  BY DEF DeliverLate, PoolInv, PoolTypeOK, Idle, Call
<1>4. /\ worker[w] \in WorkerState /\ t \in 1 .. taken /\ handed[t] \in Paths
      /\ report[t] = "none" /\ worker[w].seg \in Nat
  BY <1>1, <1>3, RunningTask DEF PoolInv, TaskRunsOnce, WorkerState
<1>5. /\ \A v \in Workers \ {w} : worker'[v] = worker[v]
      /\ worker'[w].pc = worker[w].pc /\ worker'[w].task = t
      /\ worker'[w].seg = worker[w].seg /\ worker'[w].items = worker[w].items
      /\ worker'[w].result = worker[w].result
  <2>1. worker \in [Workers -> WorkerState]
    BY DEF PoolInv, PoolTypeOK
  <2> QED BY <1>1, <1>4, <2>1 DEF DeliverLate, WorkerState
<1>6. \A k \in Nat : Accounted(t, k) => Accounted(t, k)'
  BY <1>2 DEF Accounted, Stored
<1>7. \A p \in Paths, k \in Nat : Stored(p, k) => Stored(p, k)'
  BY <1>2 DEF Stored
<1>8. ASSUME pc # "gone"
      PROVE  BehindIt(w)'
  <2>1. BehindIt(w)
    BY <1>3, <1>8 DEF AccountInv, CallsAccount
  <2>2. NumSegs[handed[t]] \in Nat
    BY <1>4, WorkersAssumption
  <2>3. \A k \in 1 .. (worker[w].seg - 1) : Accounted(t, k)'
    BY <1>1, <1>4, <1>6, <2>1 DEF BehindIt
  <2>4. worker[w].pc = "remove" \/ (worker[w].pc = "close" /\ worker[w].result = "success") =>
          \A k \in 1 .. NumSegs[handed[t]] : Accounted(t, k)'
    BY <1>1, <1>6, <2>1, <2>2 DEF BehindIt
  <2>5. worker[w].pc = "store" =>
          worker[w].items = <<t, handed[t], worker[w].seg>> /\ worker[w].items \in failed
    BY <1>1, <2>1 DEF BehindIt
  <2> QED BY <1>2, <1>5, <2>3, <2>4, <2>5 DEF BehindIt, Accounted
<1>9. \A m \in failed : m[1] = t =>
        m[3] < worker[w].seg \/ (m[3] = worker[w].seg /\ worker[w].pc \in {"store", "close"})
  BY <1>1, <1>3 DEF AccountInv, FailedBefore
<1>10. report'[t] # "success"
  BY <1>2, <1>4
<1> QED BY <1>1, <1>2, <1>3, <1>5, <1>7, <1>8, <1>9, <1>10, CallMoves

\* A step that sends, fails, stores and reports nothing, before the end; a process
\* that takes a task has nothing behind it, and no segment of the task has failed.
LEMMA OthersAccount ==
  ASSUME HandoverInv, PoolInv, AccountInv,
         taken' \in Nat, taken <= taken', \A t \in 1 .. taken : handed'[t] = handed[t],
         UNCHANGED <<topic, failed, report>>,
         pc' # "gone" => pc # "gone" /\ stored' = stored,
         \A w \in Workers : worker'[w] = worker[w] \/ worker'[w] = Call("begin", taken + 1)
  PROVE  AccountInv'
<1>1. /\ taken \in Nat
      /\ \A t \in 1 .. taken : t \in 1 .. taken' /\ t # taken + 1 /\ handed[t] \in Paths
  BY TaskFacts DEF PoolInv
<1>2. \A w \in Workers : worker'[w] = Call("begin", taken + 1) =>
        /\ worker'[w].pc = "begin" /\ worker'[w].seg = 1 /\ worker'[w].task = taken + 1
  BY DEF Call
<1>3. ASSUME pc' # "gone", NEW t \in 1 .. taken, NEW s, Accounted(t, s)
      PROVE  Accounted(t, s)'
  BY <1>3 DEF Accounted, Stored
<1>4. FailedBefore'
  <2> SUFFICES ASSUME NEW m \in failed
               PROVE  /\ m[1] \in 1 .. taken'
                      /\ \A w \in Workers : worker'[w].pc # "idle" /\ worker'[w].task = m[1] =>
                           \/ m[3] < worker'[w].seg
                           \/ m[3] = worker'[w].seg /\ worker'[w].pc \in {"store", "close"}
    BY DEF FailedBefore
  <2>1. m[1] \in 1 .. taken
    BY DEF AccountInv, FailedBefore
  <2> QED BY <1>1, <1>2, <2>1 DEF AccountInv, FailedBefore
<1>5. CallsAccount'
  <2> SUFFICES ASSUME pc' # "gone", NEW w \in Workers, worker'[w].pc # "idle"
               PROVE  BehindIt(w)'
    BY DEF CallsAccount
  <2>1. CASE worker'[w] = Call("begin", taken + 1)
    BY <1>2, <2>1 DEF BehindIt
  <2>2. CASE worker'[w] = worker[w]
    <3>1. PICK t : t = worker[w].task
      OBVIOUS
    <3>2. worker[w].pc # "idle" /\ pc # "gone"
      BY <2>2
    <3>3. BehindIt(w) /\ t \in 1 .. taken
      BY <3>1, <3>2, RunningTask DEF AccountInv, CallsAccount
    <3>4. \A s \in 1 .. (worker[w].seg - 1) : Accounted(t, s)'
      BY <1>3, <3>1, <3>3 DEF BehindIt
    <3>5. worker[w].pc = "remove" \/ (worker[w].pc = "close" /\ worker[w].result = "success") =>
            \A s \in 1 .. NumSegs[handed[t]] : Accounted(t, s)'
      BY <1>3, <3>1, <3>3 DEF BehindIt
    <3>6. worker[w].pc = "store" =>
            worker[w].items = <<t, handed[t], worker[w].seg>> /\ worker[w].items \in failed
      BY <3>1, <3>3 DEF BehindIt
    <3> QED BY <2>2, <3>1, <3>3, <3>4, <3>5, <3>6 DEF BehindIt, Accounted
  <2> QED BY <2>1, <2>2
<1>6. SegmentsAccounted'
  <2> SUFFICES ASSUME pc' # "gone", NEW t \in Tasks, report[t] = "success",
                      NEW s \in 1 .. NumSegs[handed'[t]]
               PROVE  Accounted(t, s)'
    BY DEF SegmentsAccounted, Accounted
  <2>1. t \in 1 .. taken
    BY <1>1 DEF PoolInv, UntakenHaveNoResult, Tasks
  <2>2. Accounted(t, s)
    BY <2>1 DEF AccountInv, SegmentsAccounted, Accounted
  <2> QED BY <1>3, <2>1, <2>2
<1> QED BY <1>4, <1>5, <1>6 DEF AccountInv

\* Every step keeps the segments accounted for.
LEMMA AccountNext ==
  ASSUME HandoverInv, PoolInv, OwnInv, AccountInv, DistinctNames, [Next]_vars
  PROVE  AccountInv'
<1>0. taken \in Nat /\ taken <= Len(handed) /\ Len(handed) \in Nat
  BY TaskFacts DEF PoolInv, PoolTypeOK
<1>1. CASE Dispatch
  <2>1. /\ UNCHANGED <<pc, taken, worker, topic, failed, report, stored>>
        /\ handed' = Append(handed, Head(batch))
    BY <1>1 DEF Dispatch, dataVars
  <2>2. handed \in Seq(Supported) /\ batch # << >> /\ batch \in Seq(Supported)
    BY <1>1 DEF Dispatch, HandoverInv, MainTypeOK
  <2>3. \A t \in 1 .. Len(handed) : handed'[t] = handed[t]
    BY <2>1, <2>2, HeadTail, AppendProperties
  <2>4. \A t \in 1 .. taken : handed'[t] = handed[t]
    BY <1>0, <2>3
  <2> QED BY <1>0, <2>1, <2>4, OthersAccount
<1>2. CASE /\ UNCHANGED <<handed, taken, worker, topic, failed, report>>
           /\ pc' # "gone" => pc # "gone" /\ stored' = stored
  BY <1>2, <1>0, OthersAccount
<1>3. CASE MainStep /\ ~Dispatch
  BY <1>3, <1>2 DEF MainStep, Start, WakeUp, Dequeue, Dequeued, Dispatched, Finally, Join, Drop,
                    ClosePool, JoinPool, Destroy, mainVars, poolVars, dataVars
<1>4. CASE Observe \/ KeyboardInterrupt \/ SignalUsr1 \/ UNCHANGED vars
  BY <1>4, <1>2 DEF Observe, KeyboardInterrupt, SignalUsr1, InLoop, vars, mainVars, poolVars,
                    dataVars
<1>5. ASSUME NEW w \in Workers, TakeTask(w)
      PROVE  AccountInv'
  <2>1. /\ UNCHANGED <<pc, handed, topic, failed, report, stored>>
        /\ taken' = taken + 1
        /\ worker' = [worker EXCEPT ![w] = Call("begin", taken + 1)]
    BY <1>5 DEF TakeTask, mainVars, dataVars
  <2>2. \A v \in Workers : worker'[v] = worker[v] \/ worker'[v] = Call("begin", taken + 1)
    BY <2>1 DEF PoolInv, PoolTypeOK
  <2> QED BY <1>0, <2>1, <2>2, OthersAccount
<1>6. CASE \E w \in Workers : WorkerStep(w) \/ DeliverLate(w) \/ Die(w)
  BY <1>5, <1>6, QuietCalls, SendAccounts, SendFailsAccounts, StoreAccounts, EndingAccounts,
     LateAccounts DEF WorkerStep
<1> QED BY <1>1, <1>3, <1>4, <1>6 DEF Next

\* When no two files have one base name, and whatever fails, times out, is delivered
\* late or dies: each segment of a file reported a success is in Kafka, or stored in
\* the staging area if it failed, until the staging area is removed.
THEOREM SuccessAccountsForSegments ==
  ASSUME DistinctNames
  PROVE  Spec => []SegmentsAccounted
<1> DEFINE Inv == HandoverInv /\ PoolInv /\ OwnInv /\ AccountInv
<1>1. Init => Inv
  <2> SUFFICES ASSUME Init PROVE Inv
    OBVIOUS
  <2>1. OwnInv
    BY OwnInit
  <2>2. AccountInv
    BY DEF Init, AccountInv, FailedBefore, CallsAccount, SegmentsAccounted, Idle, Call
  <2> QED BY <2>1, <2>2, HandoverInit, PoolInit
<1>2. Inv /\ [Next]_vars => Inv'
  BY HandoverStep, PoolNext, OwnNext, AccountNext
<1>3. Inv => SegmentsAccounted
  BY DEF AccountInv
<1> QED BY <1>1, <1>2, <1>3, PTL DEF Spec

=============================================================================
