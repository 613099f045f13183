-------------------------- MODULE FlowWorkersProofs --------------------------
(***************************************************************************)
(* Proofs about FlowWorkers, for any number of workers: they are well      *)
(* typed; and, whichever the files, the failures and the crashes, what     *)
(* each loads goes to its partition, and again only after a crash, until   *)
(* two of them meet on the table or on a stage directory (clash).          *)
(***************************************************************************)
EXTENDS FlowWorkers, TLAPS

-----------------------------------------------------------------------------
(* Types *)

\* From the upload on a child has a stage directory.
Staged == {"upload", "drop", "create", "insert", "clean", "rm"}

ChildTyped ==
  /\ child \in [Workers -> [pc : ChildPcs, file : Files \cup {None},
                            stage : StageIds \cup {None}]]
  /\ \A w \in Workers :
       /\ At(w, "poll") <=> File(w) = None
       /\ child[w].pc \in Staged <=> child[w].stage # None

\* The tables and directories.
StoreTyped ==
  /\ local \subseteq Hosts \X Files
  /\ csv \in [Hosts \X Files -> {"none", "empty", "rows"}]
  /\ stage \in [StageIds -> (SUBSET Files) \cup {None}]
  /\ flow_tmp \in StageIds \cup {None}
  /\ flow \in [Workers \X Files \X Hours -> Nat]
  /\ clash \in BOOLEAN
  /\ successes \subseteq Workers \X Files

\* The topic, read up to its end at most.
TopicTyped ==
  /\ log \in Seq(Files)
  /\ position \in [Workers -> (0 .. Len(log)) \cup {None}]
  /\ committed \in [Workers -> (0 .. Len(log)) \cup {None}]

\* The parts of the type invariant.
LEMMA TypeParts ==
  TypeOK <=> /\ binary \subseteq Files /\ TopicTyped /\ ChildTyped /\ StoreTyped
             /\ faults \in Nat /\ crashes \in Nat
BY DEF TypeOK, TopicTyped, ChildTyped, StoreTyped, Staged

\* They make it up after a step.
LEMMA TypeComposed ==
  ASSUME binary' \subseteq Files, TopicTyped', ChildTyped', StoreTyped',
         faults' \in Nat, crashes' \in Nat
  PROVE  TypeOK'
BY DEF TypeOK, TopicTyped, ChildTyped, StoreTyped, Staged

\* A running child has a file, and a stage directory when it is past its creation.
LEMMA ChildHas ==
  ASSUME ChildTyped, NEW w \in Workers, ~At(w, "poll")
  PROVE  /\ File(w) \in Files /\ Host(w) \in Hosts
         /\ child[w].pc \in Staged => child[w].stage \in StageIds
<1>1. child[w] \in [pc : ChildPcs, file : Files \cup {None}, stage : StageIds \cup {None}]
  BY DEF ChildTyped
<1> QED BY <1>1 DEF ChildTyped, File, Host, Hosts

\* Its next step.
LEMMA GoesOn ==
  ASSUME ChildTyped, NEW w \in Workers, NEW p \in ChildPcs, ~At(w, "poll"), p # "poll",
         p \in Staged <=> child[w].pc \in Staged, Goto(w, p)
  PROVE  /\ ChildTyped'
         /\ child'[w] = [child[w] EXCEPT !.pc = p]
<1>1. child[w] \in [pc : ChildPcs, file : Files \cup {None}, stage : StageIds \cup {None}]
  BY DEF ChildTyped
<1>2. /\ child'[w] = [child[w] EXCEPT !.pc = p]
      /\ \A v \in Workers : v # w => child'[v] = child[v]
      /\ DOMAIN child' = Workers
      /\ child' \in [Workers -> [pc : ChildPcs, file : Files \cup {None},
                                 stage : StageIds \cup {None}]]
  BY <1>1 DEF ChildTyped, Goto
<1>3. child'[w].pc = p /\ child'[w].file = child[w].file /\ child'[w].stage = child[w].stage
  BY <1>1, <1>2
<1> QED BY <1>2, <1>3 DEF ChildTyped, At, File

\* Its end.
LEMMA ChildEnds ==
  ASSUME ChildTyped, NEW w \in Workers, child' = [child EXCEPT ![w] = NoChild]
  PROVE  ChildTyped' /\ child'[w] = NoChild
<1>1. NoChild \in [pc : ChildPcs, file : Files \cup {None}, stage : StageIds \cup {None}]
  BY DEF NoChild, ChildPcs
<1>2. /\ child'[w] = NoChild
      /\ \A v \in Workers : v # w => child'[v] = child[v]
      /\ child' \in [Workers -> [pc : ChildPcs, file : Files \cup {None},
                                 stage : StageIds \cup {None}]]
  BY <1>1 DEF ChildTyped
<1>3. NoChild.pc = "poll" /\ NoChild.file = None /\ NoChild.stage = None
  BY DEF NoChild
<1> QED BY <1>2, <1>3 DEF ChildTyped, At, File, Staged

\* A new file in the topic.
LEMMA ArriveTyped ==
  ASSUME TypeOK, NEW f \in Files, Arrive(f)
  PROVE  TypeOK'
<1>1. TopicTyped'
  <2>1. log' \in Seq(Files) /\ Len(log') = Len(log) + 1 /\ Len(log) \in Nat
    BY DEF TypeOK, Arrive
  <2>2. 0 .. Len(log) \subseteq 0 .. Len(log')
    BY <2>1
  <2> QED BY <2>1, <2>2 DEF TypeOK, Arrive, TopicTyped
<1>2. ChildTyped' /\ StoreTyped'
  BY TypeParts DEF Arrive, ChildTyped, StoreTyped, At, File, localVars, hiveVars
<1>3. binary' \subseteq Files /\ faults' \in Nat /\ crashes' \in Nat
  BY TypeParts DEF Arrive, bounds
<1> QED BY <1>1, <1>2, <1>3, TypeComposed

\* What a worker consumes and commits.
LEMMA ConsumerTyped ==
  ASSUME TypeOK, NEW w \in Workers, Subscribe(w) \/ Commit(w) \/ Poll(w)
  PROVE  TypeOK'
<1>1. TopicTyped'
  <2>1. TopicTyped /\ Len(log) \in Nat /\ ResetOffset \in 0 .. Len(log)
    BY TypeParts DEF TopicTyped, ResetOffset
  <2>2. CASE Subscribe(w)
    BY <2>1, <2>2 DEF Subscribe, TopicTyped
  <2>3. CASE Commit(w)
    BY <2>1, <2>3 DEF Commit, TopicTyped
  <2>4. CASE Poll(w)
    <3>1. position[w] + 1 \in 0 .. Len(log)
      BY <2>1, <2>4 DEF Poll, TopicTyped
    <3> QED BY <2>1, <2>4, <3>1 DEF Poll, TopicTyped
  <2> QED BY <2>2, <2>3, <2>4
<1>2. ChildTyped'
  <2>1. CASE Subscribe(w) \/ Commit(w)
    BY <2>1, TypeParts DEF Subscribe, Commit, ChildTyped, At, File
  <2>2. CASE Poll(w)
    <3> DEFINE new == [NoChild EXCEPT !.pc = "download", !.file = log[position[w] + 1]]
    <3>1. log[position[w] + 1] \in Files
      BY <2>2, TypeParts DEF Poll, TopicTyped
    <3>2. new.pc = "download" /\ new.file = log[position[w] + 1] /\ new.stage = None
          /\ new \in [pc : ChildPcs, file : Files \cup {None}, stage : StageIds \cup {None}]
      BY <3>1 DEF NoChild, ChildPcs
    <3>3. child' = [child EXCEPT ![w] = new]
      BY <2>2 DEF Poll
    <3>4. new.file # None
      BY <3>1, <3>2, WorkersAssumption
    <3> HIDE DEF new
    <3>5. /\ child'[w] = new
          /\ \A v \in Workers : v # w => child'[v] = child[v]
          /\ child' \in [Workers -> [pc : ChildPcs, file : Files \cup {None},
                                     stage : StageIds \cup {None}]]
      BY <3>2, <3>3, TypeParts DEF ChildTyped
    <3> QED BY <3>2, <3>4, <3>5, TypeParts DEF ChildTyped, At, File, Staged
  <2> QED BY <2>1, <2>2
<1>3. StoreTyped'
  BY TypeParts DEF Subscribe, Commit, Poll, StoreTyped, hdfsVars, localVars, hiveVars
<1>4. binary' \subseteq Files /\ faults' \in Nat /\ crashes' \in Nat
  BY TypeParts DEF Subscribe, Commit, Poll, bounds, hdfsVars
<1> QED BY <1>1, <1>2, <1>3, <1>4, TypeComposed

\* A step of a child that goes on.
LEMMA GoesOnTyped ==
  ASSUME TypeOK, NEW w \in Workers,
         \/ Download(w) \/ Nfdump(w) \/ Upload(w) \/ DropTable(w) \/ CreateTable(w)
         \/ Insert(w) \/ DeleteStage(w)
  PROVE  TypeOK'
<1>1. /\ ChildTyped /\ TopicTyped /\ StoreTyped /\ binary \subseteq Files
      /\ faults \in Nat /\ crashes \in Nat
  BY TypeParts
<1>2. /\ UNCHANGED <<log, position, committed, binary, successes, crashes>>
      /\ faults' \in Nat
  BY <1>1 DEF Download, Nfdump, Upload, DropTable, CreateTable, Insert, DeleteStage, Fault,
              kafkaVars, hdfsVars, bounds
<1>3. File(w) \in Files /\ Host(w) \in Hosts
      /\ (child[w].pc \in Staged => child[w].stage \in StageIds)
  BY <1>1, ChildHas DEF Download, Nfdump, Upload, DropTable, CreateTable, Insert, DeleteStage, At
<1>4. ChildTyped'
  <2>1. CASE Download(w)
    BY <1>1, <2>1, GoesOn DEF Download, At, Staged, ChildPcs
  <2>2. CASE Nfdump(w)
    BY <1>1, <2>2, GoesOn DEF Nfdump, At, Staged, ChildPcs
  <2>3. CASE Upload(w)
    BY <1>1, <2>3, GoesOn DEF Upload, At, Staged, ChildPcs
  <2>4. CASE DropTable(w)
    BY <1>1, <2>4, GoesOn DEF DropTable, At, Staged, ChildPcs
  <2>5. CASE CreateTable(w)
    BY <1>1, <2>5, GoesOn DEF CreateTable, At, Staged, ChildPcs
  <2>6. CASE Insert(w)
    BY <1>1, <2>6, GoesOn DEF Insert, At, Staged, ChildPcs
  <2>7. CASE DeleteStage(w)
    BY <1>1, <2>7, GoesOn DEF DeleteStage, At, Staged, ChildPcs
  <2> QED BY <2>1, <2>2, <2>3, <2>4, <2>5, <2>6, <2>7
<1>5. StoreTyped'
  <2>1. CASE Download(w)
    BY <1>1, <1>2, <1>3, <2>1 DEF Download, StoreTyped, hdfsVars, hiveVars
  <2>2. CASE Nfdump(w)
    BY <1>1, <1>2, <1>3, <2>2 DEF Nfdump, StoreTyped, hdfsVars, hiveVars
  <2>3. CASE Upload(w)
    <3>1. child[w].stage \in StageIds
      BY <1>3, <2>3 DEF Upload, At, Staged
    <3>2. stage' \in [StageIds -> (SUBSET Files) \cup {None}]
      BY <1>1, <1>3, <2>3, <3>1 DEF Upload, StoreTyped
    <3> QED BY <1>1, <1>2, <2>3, <3>2 DEF Upload, StoreTyped, localVars, hiveVars
  <2>4. CASE DropTable(w)
    BY <1>1, <1>2, <2>4 DEF DropTable, StoreTyped, hdfsVars, localVars
  <2>5. CASE CreateTable(w)
    <3>1. child[w].stage \in StageIds
      BY <1>3, <2>5 DEF CreateTable, At, Staged
    <3> QED BY <1>1, <1>2, <2>5, <3>1 DEF CreateTable, StoreTyped, hdfsVars, localVars
  <2>6. CASE Insert(w)
    <3>1. flow' \in [Workers \X Files \X Hours -> Nat]
      BY <1>1, <2>6 DEF Insert, StoreTyped
    <3> QED BY <1>1, <1>2, <2>6, <3>1 DEF Insert, StoreTyped, hdfsVars, localVars
  <2>7. CASE DeleteStage(w)
    BY <1>1, <1>2, <2>7 DEF DeleteStage, StoreTyped, localVars, hiveVars
  <2> QED BY <2>1, <2>2, <2>3, <2>4, <2>5, <2>6, <2>7
<1>6. TopicTyped'
  BY <1>1, <1>2 DEF TopicTyped
<1> QED BY <1>1, <1>2, <1>4, <1>5, <1>6, TypeComposed

\* A child gets its directory.
LEMMA MkdirTyped ==
  ASSUME TypeOK, NEW w \in Workers, Mkdir(w)
  PROVE  /\ TypeOK'
         /\ \E i \in StageIds :
              /\ ~clash' => ~InUse(i)
              /\ \/ stage' = [stage EXCEPT ![i] = IF @ = None THEN {} ELSE @]
                 \/ UNCHANGED stage
              /\ child'[w] = [child[w] EXCEPT !.pc = "upload", !.stage = i]
              /\ child'[w].stage = i
<1>1. /\ ChildTyped /\ TopicTyped /\ StoreTyped /\ binary \subseteq Files
      /\ faults \in Nat /\ crashes \in Nat
  BY TypeParts
<1>2. PICK i \in StageIds :
        /\ clash' = (clash \/ InUse(i))
        /\ \/ stage' = [stage EXCEPT ![i] = IF @ = None THEN {} ELSE @] /\ UNCHANGED faults
           \/ Fault /\ UNCHANGED stage
        /\ child' = [child EXCEPT ![w].pc = "upload", ![w].stage = i]
  BY DEF Mkdir
<1>3. /\ UNCHANGED <<log, position, committed, binary, local, csv, flow_tmp, flow, successes,
                     crashes>>
      /\ faults' \in Nat
  BY <1>1, <1>2 DEF Mkdir, Fault, kafkaVars, localVars, hiveVars
<1>4. child[w] \in [pc : ChildPcs, file : Files \cup {None}, stage : StageIds \cup {None}]
      /\ child[w].pc = "mkdir" /\ i # None
  BY <1>1, WorkersAssumption DEF ChildTyped, Mkdir, At
<1>5. /\ child'[w] = [child[w] EXCEPT !.pc = "upload", !.stage = i]
      /\ \A v \in Workers : v # w => child'[v] = child[v]
      /\ child' \in [Workers -> [pc : ChildPcs, file : Files \cup {None},
                                 stage : StageIds \cup {None}]]
  BY <1>1, <1>2, <1>4 DEF ChildTyped, ChildPcs
<1>6. child'[w].pc = "upload" /\ child'[w].file = child[w].file /\ child'[w].stage = i
  BY <1>4, <1>5
<1>7. ChildTyped'
  <2>1. child[w].file # None
    BY <1>1, <1>4 DEF ChildTyped, At, File
  <2>2. ASSUME NEW v \in Workers
        PROVE  /\ child'[v].pc = "poll" <=> child'[v].file = None
               /\ child'[v].pc \in Staged <=> child'[v].stage # None
    <3>1. CASE v = w
      BY <1>4, <1>6, <2>1, <3>1 DEF Staged
    <3>2. CASE v # w
      BY <1>1, <1>5, <3>2 DEF ChildTyped, At, File
    <3> QED BY <3>1, <3>2
  <2> QED BY <1>5, <2>2 DEF ChildTyped, At, File
<1>8. StoreTyped' /\ TopicTyped'
  BY <1>1, <1>2, <1>3 DEF StoreTyped, TopicTyped
<1> QED BY <1>1, <1>2, <1>3, <1>5, <1>7, <1>8, TypeComposed

\* A child ends, or is killed with its worker.
LEMMA EndTyped ==
  ASSUME TypeOK, NEW w \in Workers, RemoveLocal(w) \/ ChildFails(w) \/ Crash(w)
  PROVE  TypeOK' /\ child'[w] = NoChild
<1>1. /\ ChildTyped /\ TopicTyped /\ StoreTyped /\ binary \subseteq Files
      /\ faults \in Nat /\ crashes \in Nat
  BY TypeParts
<1>2. child' = [child EXCEPT ![w] = NoChild]
  BY DEF RemoveLocal, ChildFails, Crash
<1>3. ChildTyped' /\ child'[w] = NoChild
  BY <1>1, <1>2, ChildEnds
<1>4. TopicTyped'
  BY <1>1 DEF RemoveLocal, ChildFails, Crash, TopicTyped, kafkaVars
<1>5. StoreTyped'
  <2>1. CASE RemoveLocal(w)
    <3>1. File(w) \in Files
      BY <1>1, <2>1, ChildHas DEF RemoveLocal, At
    <3>2. local' \subseteq Hosts \X Files /\ successes' \subseteq Workers \X Files
      BY <1>1, <2>1, <3>1 DEF RemoveLocal, StoreTyped
    <3>3. csv' \in [Hosts \X Files -> {"none", "empty", "rows"}]
      BY <1>1, <2>1 DEF RemoveLocal, StoreTyped
    <3> QED BY <1>1, <2>1, <3>2, <3>3 DEF RemoveLocal, StoreTyped, hdfsVars, hiveVars
  <2>2. CASE ChildFails(w) \/ Crash(w)
    BY <1>1, <2>2 DEF ChildFails, Crash, StoreTyped, hdfsVars, localVars, hiveVars
  <2> QED BY <2>1, <2>2
<1>6. binary' \subseteq Files /\ faults' \in Nat /\ crashes' \in Nat
  BY <1>1 DEF RemoveLocal, ChildFails, Crash, Fault, bounds, hdfsVars
<1> QED BY <1>3, <1>4, <1>5, <1>6, TypeComposed

\* Every step keeps the types.
LEMMA TypeStep ==
  ASSUME TypeOK, [Next]_vars
  PROVE  TypeOK'
<1>1. CASE UNCHANGED vars
  <2>1. ChildTyped' /\ StoreTyped' /\ TopicTyped'
    BY <1>1, TypeParts DEF vars, kafkaVars, hdfsVars, localVars, hiveVars, ChildTyped,
                           StoreTyped, TopicTyped, At, File
  <2>2. binary' \subseteq Files /\ faults' \in Nat /\ crashes' \in Nat
    BY <1>1, TypeParts DEF vars, hdfsVars, bounds
  <2> QED BY <2>1, <2>2, TypeComposed
<1>2. ASSUME NEW w \in Workers, WorkerStep(w) \/ Commit(w) \/ Crash(w) PROVE TypeOK'
  BY <1>2, ConsumerTyped, GoesOnTyped, MkdirTyped, EndTyped DEF WorkerStep, ChildStep
<1> QED BY <1>1, <1>2, ArriveTyped DEF Next

\* TypeOK: whichever the files and the workers, children, tables and directories are
\* well typed, and a child has a file and a stage directory exactly when it should.
THEOREM TypeCorrect == Spec => []TypeOK
<1>1. Init => TypeOK
  <2> SUFFICES ASSUME Init PROVE TypeOK
    OBVIOUS
  <2>1. TopicTyped
    <3>1. << >> \in Seq(Files) /\ Len(<< >>) = 0
      OBVIOUS
    <3> QED BY <3>1 DEF Init, TopicTyped
  <2>2. ChildTyped
    <3>1. NoChild \in [pc : ChildPcs, file : Files \cup {None}, stage : StageIds \cup {None}]
          /\ NoChild.pc = "poll" /\ NoChild.file = None /\ NoChild.stage = None
      BY DEF NoChild, ChildPcs
    <3> QED BY <3>1 DEF Init, ChildTyped, At, File, Staged
  <2>3. StoreTyped
    BY DEF Init, StoreTyped
  <2> QED BY <2>1, <2>2, <2>3, TypeParts DEF Init
<1>2. TypeOK /\ [Next]_vars => TypeOK'
  BY TypeStep
<1> QED BY <1>1, <1>2, PTL DEF Spec

-----------------------------------------------------------------------------
(* What the workers load *)

\* The directory that a child made holds its own file at most, and flow_tmp, when
\* it is about to INSERT, is that directory.
OwnStage(w) ==
  /\ At(w, "upload") => stage[child[w].stage] \in {None, {}}
  /\ child[w].pc \in {"drop", "create", "insert"}
       => stage[child[w].stage] \in {None, {}, {File(w)}}
  /\ At(w, "insert") => flow_tmp = child[w].stage

BeforeRows == {"download", "nfdump", "mkdir", "upload", "drop", "create", "insert"}

\* The worker's child has f to load; f is yet to be polled.
InHand(w, f) == File(w) = f /\ child[w].pc \in BeforeRows
Coming(w, f) == position[w] = None \/ \A i \in 1 .. position[w] : log[i] # f

\* How often f may be loaded still, if the worker is not killed.
LoadsLeft(w, f) == (IF InHand(w, f) THEN 1 ELSE 0) + (IF Coming(w, f) THEN 1 ELSE 0)

OncePerMessage(w) ==
  /\ \A i, j \in DOMAIN log : log[i] = log[j] => i = j
  /\ \A i \in DOMAIN log : log[i] \in binary
  /\ \A f \in Files : flow[<<w, f, Hour[f]>>] + LoadsLeft(w, f) <= 1 + crashes

\* The rows that w loaded are where they belong.
RowsOf(w) == \A f \in Files, h \in Hours : flow[<<w, f, h>>] > 0 => h = Hour[f]

LoadInv(w) == OwnStage(w) /\ RowsOf(w) /\ OncePerMessage(w)

\* No two children have the same directory.
StagesApart ==
  \A v, w \in Workers : v # w /\ child[w].stage # None => child[v].stage # child[w].stage

\* The invariant: as long as no two workers meet, each loads what it should.
WorkersInv == ~clash => StagesApart /\ \A w \in Workers : LoadInv(w)

\* A step that loads nothing, nor gives anything more to load.
LEMMA NothingMoreToLoad ==
  ASSUME NEW w \in Workers, LoadInv(w), TypeOK, UNCHANGED <<log, binary, flow, crashes>>,
         \A f \in Files : /\ InHand(w, f)' => InHand(w, f)
                          /\ Coming(w, f)' => Coming(w, f)
  PROVE  RowsOf(w)' /\ OncePerMessage(w)'
<1>1. RowsOf(w)'
  BY DEF LoadInv, RowsOf
<1>2. ASSUME NEW f \in Files
      PROVE  flow'[<<w, f, Hour[f]>>] + LoadsLeft(w, f)' <= 1 + crashes'
  <2>1. flow[<<w, f, Hour[f]>>] + LoadsLeft(w, f) <= 1 + crashes
    BY DEF LoadInv, OncePerMessage
  <2>2. flow[<<w, f, Hour[f]>>] \in Nat /\ crashes \in Nat
    BY DEF TypeOK, Hours
  <2>3. (InHand(w, f)' => InHand(w, f)) /\ (Coming(w, f)' => Coming(w, f))
    OBVIOUS
  <2>4. LoadsLeft(w, f)' = (IF InHand(w, f)' THEN 1 ELSE 0) + (IF Coming(w, f)' THEN 1 ELSE 0)
    BY DEF LoadsLeft
  <2>5. LoadsLeft(w, f) = (IF InHand(w, f) THEN 1 ELSE 0) + (IF Coming(w, f) THEN 1 ELSE 0)
    BY DEF LoadsLeft
  <2>6. LoadsLeft(w, f)' <= LoadsLeft(w, f) /\ LoadsLeft(w, f)' \in Nat /\ LoadsLeft(w, f) \in Nat
    BY <2>3, <2>4, <2>5
  <2> QED BY <2>1, <2>2, <2>6
<1> QED BY <1>1, <1>2 DEF LoadInv, OncePerMessage

\* A new file is in the topic once.
LEMMA ArriveLoads ==
  ASSUME NEW w \in Workers, LoadInv(w), TypeOK, NEW g \in Files, Arrive(g)
  PROVE  LoadInv(w)'
<1>1. UNCHANGED <<position, child, stage, flow_tmp, flow, crashes>>
  BY DEF Arrive, hiveVars, bounds
<1>2. /\ log \in Seq(Files) /\ Len(log) \in Nat /\ DOMAIN log = 1 .. Len(log)
      /\ DOMAIN log' = 1 .. Len(log) + 1
      /\ log'[Len(log) + 1] = g
      /\ \A i \in 1 .. Len(log) : log'[i] = log[i]
      /\ g \notin binary /\ binary' = binary \cup {g}
  BY DEF Arrive, TypeOK
<1>3. OwnStage(w)' /\ RowsOf(w)'
  BY <1>1 DEF LoadInv, OwnStage, RowsOf, At, File
<1>4. /\ \A i, j \in DOMAIN log' : log'[i] = log'[j] => i = j
      /\ \A i \in DOMAIN log' : log'[i] \in binary'
  BY <1>2 DEF LoadInv, OncePerMessage
<1>5. position[w] = None \/ (position[w] \in Nat /\ position[w] <= Len(log))
  BY <1>2 DEF TypeOK
<1>6. ASSUME NEW f \in Files
      PROVE  flow'[<<w, f, Hour[f]>>] + LoadsLeft(w, f)' <= 1 + crashes'
  <2>1. Coming(w, f)' <=> Coming(w, f)
    BY <1>1, <1>2, <1>5 DEF Coming
  <2>2. InHand(w, f)' <=> InHand(w, f)
    BY <1>1 DEF InHand, File
  <2>3. LoadsLeft(w, f)' = LoadsLeft(w, f)
    BY <2>1, <2>2 DEF LoadsLeft
  <2> QED BY <1>1, <2>3 DEF LoadInv, OncePerMessage
<1> QED BY <1>3, <1>4, <1>6 DEF LoadInv, OncePerMessage

\* What the child does up to its next message, the INSERT apart.
LEMMA ChildLoads ==
  ASSUME NEW w \in Workers, LoadInv(w), TypeOK, ~clash',
         \/ Download(w) \/ Nfdump(w) \/ Mkdir(w) \/ Upload(w) \/ DropTable(w) \/ CreateTable(w)
         \/ DeleteStage(w)
  PROVE  LoadInv(w)'
<1>1. UNCHANGED <<log, position, binary, flow, crashes>>
  BY DEF Download, Nfdump, Mkdir, Upload, DropTable, CreateTable, DeleteStage,
         kafkaVars, hdfsVars, hiveVars, bounds
<1>2. child[w] \in [pc : ChildPcs, file : Files \cup {None}, stage : StageIds \cup {None}]
  BY DEF TypeOK
<1>3. ~At(w, "poll")
  BY DEF Download, Nfdump, Mkdir, Upload, DropTable, CreateTable, DeleteStage, At
<1>4. stage \in [StageIds -> (SUBSET Files) \cup {None}]
      /\ (child[w].pc \in Staged => child[w].stage \in StageIds)
  BY <1>3, TypeParts, ChildHas DEF StoreTyped
<1>5. OwnStage(w)
  BY DEF LoadInv
<1>6. /\ child'[w].file = child[w].file
      /\ child'[w].pc \in BeforeRows => child[w].pc \in BeforeRows
      /\ OwnStage(w)'
  <2>1. CASE Download(w)
    <3>1. child'[w] = [child[w] EXCEPT !.pc = "nfdump"]
      BY <2>1 DEF Download, Goto, TypeOK
    <3>2. child'[w].pc = "nfdump" /\ child'[w].file = child[w].file
      BY <1>2, <3>1
    <3> QED BY <2>1, <3>2 DEF Download, OwnStage, At, BeforeRows
  <2>2. CASE Nfdump(w)
    <3>1. child'[w] = [child[w] EXCEPT !.pc = "mkdir"]
      BY <2>2 DEF Nfdump, Goto, TypeOK
    <3>2. child'[w].pc = "mkdir" /\ child'[w].file = child[w].file
      BY <1>2, <3>1
    <3> QED BY <2>2, <3>2 DEF Nfdump, OwnStage, At, BeforeRows
  <2>3. CASE Mkdir(w)
    <3>1. PICK i \in StageIds :
            /\ ~InUse(i)
            /\ stage' = [stage EXCEPT ![i] = IF @ = None THEN {} ELSE @] \/ UNCHANGED stage
            /\ child'[w] = [child[w] EXCEPT !.pc = "upload", !.stage = i]
      BY <2>3, MkdirTyped
    <3>2. child'[w].pc = "upload" /\ child'[w].file = child[w].file /\ child'[w].stage = i
      BY <1>2, <3>1
    <3>3. stage'[i] \in {None, {}}
      BY <1>4, <3>1 DEF InUse
    <3> QED BY <2>3, <3>2, <3>3 DEF Mkdir, OwnStage, At, BeforeRows
  <2>4. CASE Upload(w)
    <3>1. child'[w] = [child[w] EXCEPT !.pc = "drop"] /\ child[w].pc = "upload"
      BY <2>4 DEF Upload, Goto, At, TypeOK
    <3>2. child'[w].pc = "drop" /\ child'[w].file = child[w].file
          /\ child'[w].stage = child[w].stage
      BY <1>2, <3>1
    <3>3. stage[child[w].stage] \in {None, {}} /\ child[w].stage \in StageIds
      BY <1>4, <1>5, <3>1 DEF OwnStage, At, Staged
    <3>4. stage'[child[w].stage] \in {None, {}, {File(w)}}
      BY <1>4, <2>4, <3>3 DEF Upload
    <3> QED BY <3>1, <3>2, <3>4 DEF OwnStage, At, File, BeforeRows
  <2>5. CASE DropTable(w)
    <3>1. child'[w] = [child[w] EXCEPT !.pc = "create"] /\ child[w].pc = "drop"
          /\ UNCHANGED stage
      BY <2>5 DEF DropTable, Goto, At, TypeOK, hdfsVars
    <3>2. child'[w].pc = "create" /\ child'[w].file = child[w].file
          /\ child'[w].stage = child[w].stage
      BY <1>2, <3>1
    <3> QED BY <1>5, <3>1, <3>2 DEF OwnStage, At, File, BeforeRows
  <2>6. CASE CreateTable(w)
    <3>1. child'[w] = [child[w] EXCEPT !.pc = "insert"] /\ child[w].pc = "create"
          /\ UNCHANGED stage /\ flow_tmp' = child[w].stage
      BY <2>6 DEF CreateTable, Goto, At, TypeOK, hdfsVars
    <3>2. child'[w].pc = "insert" /\ child'[w].file = child[w].file
          /\ child'[w].stage = child[w].stage
      BY <1>2, <3>1
    <3> QED BY <1>5, <3>1, <3>2 DEF OwnStage, At, File, BeforeRows
  <2>7. CASE DeleteStage(w)
    <3>1. child'[w] = [child[w] EXCEPT !.pc = "rm"]
      BY <2>7 DEF DeleteStage, Goto, TypeOK
    <3>2. child'[w].pc = "rm" /\ child'[w].file = child[w].file
      BY <1>2, <3>1
    <3> QED BY <3>2 DEF OwnStage, At, BeforeRows
  <2> QED BY <2>1, <2>2, <2>3, <2>4, <2>5, <2>6, <2>7
<1>7. \A f \in Files : (InHand(w, f)' => InHand(w, f)) /\ (Coming(w, f)' => Coming(w, f))
  BY <1>1, <1>6 DEF InHand, Coming, File
<1> QED BY <1>1, <1>6, <1>7, NothingMoreToLoad DEF LoadInv

\* The INSERT loads the child's own file, into its own partition.
LEMMA InsertLoads ==
  ASSUME NEW w \in Workers, LoadInv(w), TypeOK, Insert(w)
  PROVE  LoadInv(w)'
<1>1. child[w] \in [pc : ChildPcs, file : Files \cup {None}, stage : StageIds \cup {None}]
      /\ child'[w] = [child[w] EXCEPT !.pc = "clean"] /\ child[w].pc = "insert"
      /\ UNCHANGED <<log, position, binary, crashes>>
  BY DEF Insert, Goto, At, TypeOK, kafkaVars, hdfsVars, bounds
<1>2. child'[w].pc = "clean" /\ child'[w].file = child[w].file
  BY <1>1
<1>3. Rows \subseteq {File(w)}
  BY <1>1 DEF LoadInv, OwnStage, At, Rows
<1>4. flow \in [Workers \X Files \X Hours -> Nat] /\ crashes \in Nat
  BY DEF TypeOK
<1>5. \A f \in Files, h \in Hours :
        flow'[<<w, f, h>>] = IF f \in Rows /\ h = Hour[File(w)] THEN flow[<<w, f, h>>] + 1
                             ELSE flow[<<w, f, h>>]
  BY <1>4 DEF Insert
<1>6. OwnStage(w)'
  BY <1>2 DEF OwnStage, At
<1>7. RowsOf(w)'
  <2>1. ASSUME NEW f \in Files, NEW h \in Hours, flow'[<<w, f, h>>] > 0
        PROVE  h = Hour[f]
    <3>1. CASE flow[<<w, f, h>>] > 0
      BY <3>1 DEF LoadInv, RowsOf
    <3>2. CASE ~(flow[<<w, f, h>>] > 0)
      <4>1. f \in Rows /\ h = Hour[File(w)]
        BY <1>4, <1>5, <2>1, <3>2
      <4> QED BY <1>3, <4>1
    <3> QED BY <3>1, <3>2
  <2> QED BY <2>1 DEF RowsOf
<1>8. ASSUME NEW f \in Files
      PROVE  flow'[<<w, f, Hour[f]>>] + LoadsLeft(w, f)' <= 1 + crashes'
  <2>1. flow[<<w, f, Hour[f]>>] + LoadsLeft(w, f) <= 1 + crashes
    BY DEF LoadInv, OncePerMessage
  <2>2. <<w, f, Hour[f]>> \in Workers \X Files \X Hours /\ flow[<<w, f, Hour[f]>>] \in Nat
    BY <1>4 DEF Hours
  <2>3. ~InHand(w, f)' /\ (Coming(w, f)' <=> Coming(w, f)) /\ (InHand(w, f) <=> File(w) = f)
    BY <1>1, <1>2 DEF InHand, Coming, BeforeRows
  <2>4. LoadsLeft(w, f)' = IF Coming(w, f) THEN 1 ELSE 0
    BY <2>3 DEF LoadsLeft
  <2>5. LoadsLeft(w, f) = (IF File(w) = f THEN 1 ELSE 0) + (IF Coming(w, f) THEN 1 ELSE 0)
    BY <2>3 DEF LoadsLeft
  <2>6. flow'[<<w, f, Hour[f]>>] \in {flow[<<w, f, Hour[f]>>], flow[<<w, f, Hour[f]>>] + 1}
        /\ (f # File(w) => flow'[<<w, f, Hour[f]>>] = flow[<<w, f, Hour[f]>>])
    BY <1>3, <1>5, <2>2
  <2> QED BY <1>1, <1>4, <2>1, <2>2, <2>4, <2>5, <2>6
<1> QED BY <1>1, <1>6, <1>7, <1>8 DEF LoadInv, OncePerMessage


\* A message that is polled is not polled again.
LEMMA PollLoads ==
  ASSUME NEW w \in Workers, LoadInv(w), TypeOK, Poll(w)
  PROVE  LoadInv(w)'
<1> DEFINE n == position[w] + 1
           g == log[n]
<1>1. /\ UNCHANGED <<log, stage, flow_tmp, flow, binary, crashes>>
      /\ position[w] # None /\ position[w] < Len(log) /\ child[w].pc = "poll"
      /\ position' = [position EXCEPT ![w] = @ + 1]
      /\ child' = [child EXCEPT ![w] = [NoChild EXCEPT !.pc = "download", !.file = g]]
  BY DEF Poll, hdfsVars, hiveVars, bounds
<1>2. log \in Seq(Files) /\ Len(log) \in Nat /\ DOMAIN log = 1 .. Len(log)
      /\ position[w] \in 0 .. Len(log) /\ position'[w] = position[w] + 1
  BY <1>1 DEF TypeOK
<1>3. child'[w] = [NoChild EXCEPT !.pc = "download", !.file = g]
  BY <1>1 DEF TypeOK
<1>4. child'[w].pc = "download" /\ child'[w].file = g
  BY <1>3 DEF NoChild
<1>5. n \in DOMAIN log /\ n \in Nat
  BY <1>1, <1>2
<1>6. OwnStage(w)' /\ RowsOf(w)'
  BY <1>1, <1>4 DEF LoadInv, OwnStage, RowsOf, At
<1>7. ASSUME NEW f \in Files
      PROVE  LoadsLeft(w, f)' <= LoadsLeft(w, f) /\ LoadsLeft(w, f)' \in Nat
             /\ LoadsLeft(w, f) \in Nat
  <2>1. ~InHand(w, f) /\ (InHand(w, f)' <=> f = g)
    BY <1>1, <1>4 DEF InHand, File, BeforeRows
  <2>2. Coming(w, f)' => Coming(w, f) /\ f # g
    BY <1>1, <1>2, <1>5, WorkersAssumption DEF Coming
  <2>3. f = g => Coming(w, f)
    <3>1. \A i \in 1 .. position[w] : i # n /\ i \in DOMAIN log
      BY <1>2
    <3> QED BY <1>5, <3>1 DEF Coming, LoadInv, OncePerMessage
  <2>4. LoadsLeft(w, f)' = (IF f = g THEN 1 ELSE 0) + (IF Coming(w, f)' THEN 1 ELSE 0)
    BY <2>1 DEF LoadsLeft
  <2>5. LoadsLeft(w, f) = IF Coming(w, f) THEN 1 ELSE 0
    BY <2>1 DEF LoadsLeft
  <2> QED BY <2>2, <2>3, <2>4, <2>5
<1>8. ASSUME NEW f \in Files
      PROVE  flow'[<<w, f, Hour[f]>>] + LoadsLeft(w, f)' <= 1 + crashes'
  <2>1. flow[<<w, f, Hour[f]>>] + LoadsLeft(w, f) <= 1 + crashes
    BY DEF LoadInv, OncePerMessage
  <2>2. flow[<<w, f, Hour[f]>>] \in Nat /\ crashes \in Nat
    BY DEF TypeOK, Hours
  <2> HIDE DEF n, g
  <2> QED BY <1>1, <1>7, <2>1, <2>2
<1> QED BY <1>1, <1>6, <1>8 DEF LoadInv, OncePerMessage

\* The worker subscribes, commits what it polled, or the child ends.
LEMMA QuietLoads ==
  ASSUME NEW w \in Workers, LoadInv(w), TypeOK,
         Subscribe(w) \/ Commit(w) \/ RemoveLocal(w) \/ ChildFails(w)
  PROVE  LoadInv(w)'
<1>1. UNCHANGED <<log, binary, flow, crashes, stage, flow_tmp>>
  BY DEF Subscribe, Commit, RemoveLocal, ChildFails, kafkaVars, hdfsVars, hiveVars, bounds
<1>2. UNCHANGED child \/ child'[w] = NoChild
  BY EndTyped DEF Subscribe, Commit
<1>3. OwnStage(w)' /\ \A f : InHand(w, f)' => InHand(w, f)
  <2>1. CASE UNCHANGED child
    BY <1>1, <2>1 DEF LoadInv, OwnStage, InHand, At, File
  <2>2. CASE child'[w] = NoChild
    <3>1. child'[w].pc = "poll"
      BY <2>2 DEF NoChild
    <3> QED BY <3>1 DEF OwnStage, InHand, At, BeforeRows
  <2> QED BY <1>2, <2>1, <2>2
<1>4. \A f : Coming(w, f)' => Coming(w, f)
  <2>1. position[w] = None \/ UNCHANGED position
    BY DEF Subscribe, Commit, RemoveLocal, ChildFails, kafkaVars
  <2> QED BY <1>1, <2>1 DEF Coming
<1> QED BY <1>1, <1>3, <1>4, NothingMoreToLoad DEF LoadInv

\* After a crash every message may come again, once.
LEMMA CrashLoads ==
  ASSUME NEW w \in Workers, LoadInv(w), TypeOK, Crash(w)
  PROVE  LoadInv(w)'
<1>1. UNCHANGED <<log, binary, flow, stage, flow_tmp>> /\ crashes' = crashes + 1
  BY DEF Crash, hdfsVars, hiveVars
<1>2. child'[w].pc = "poll"
  BY EndTyped DEF NoChild
<1>3. OwnStage(w)' /\ RowsOf(w)' /\ \A f : ~InHand(w, f)'
  BY <1>1, <1>2 DEF LoadInv, OwnStage, RowsOf, InHand, At, BeforeRows
<1>4. ASSUME NEW f \in Files
      PROVE  flow'[<<w, f, Hour[f]>>] + LoadsLeft(w, f)' <= 1 + crashes'
  <2>1. flow[<<w, f, Hour[f]>>] + LoadsLeft(w, f) <= 1 + crashes
    BY DEF LoadInv, OncePerMessage
  <2>2. flow[<<w, f, Hour[f]>>] \in Nat /\ crashes \in Nat
    BY DEF TypeOK, Hours
  <2>3. LoadsLeft(w, f)' \in {0, 1}
    BY <1>3 DEF LoadsLeft
  <2>4. LoadsLeft(w, f) \in {0, 1, 2}
    BY DEF LoadsLeft
  <2> QED BY <1>1, <2>1, <2>2, <2>3, <2>4
<1> QED BY <1>1, <1>3, <1>4 DEF LoadInv, OncePerMessage

\* What another worker does leaves a worker's directory, the table it is about to
\* INSERT from and its rows alone.
LEMMA OthersKeep ==
  ASSUME NEW u \in Workers, NEW w \in Workers, u # w, LoadInv(u), StagesApart, TypeOK,
         ~clash, ~clash', WorkerStep(w) \/ Commit(w) \/ Crash(w)
  PROVE  LoadInv(u)'
<1>1. /\ UNCHANGED <<log, binary>>
      /\ child'[u] = child[u] /\ position'[u] = position[u]
      /\ crashes \in Nat /\ crashes' \in {crashes, crashes + 1}
  <2>1. /\ DOMAIN child = Workers /\ DOMAIN position = Workers /\ crashes \in Nat
    BY DEF TypeOK
  <2>2. CASE Subscribe(w) \/ Commit(w) \/ Poll(w) \/ Crash(w)
    BY <2>1, <2>2 DEF Subscribe, Commit, Poll, Crash, hdfsVars, bounds
  <2>3. CASE ChildStep(w)
    BY <2>1, <2>3 DEF ChildStep, Download, Nfdump, Mkdir, Upload, DropTable, CreateTable,
       Insert, DeleteStage, RemoveLocal, ChildFails, Goto, kafkaVars, hdfsVars, bounds
  <2> QED BY <2>2, <2>3 DEF WorkerStep
<1>2. \A f \in Files, h \in Hours : flow'[<<u, f, h>>] = flow[<<u, f, h>>]
  <2>1. CASE Insert(w)
    BY <2>1 DEF Insert, TypeOK
  <2>2. CASE ~Insert(w)
    <3>1. UNCHANGED flow
      BY <2>2 DEF WorkerStep, Subscribe, Commit, Poll, Crash, ChildStep, Download, Nfdump,
         Mkdir, Upload, DropTable, CreateTable, DeleteStage, RemoveLocal, ChildFails, hiveVars
    <3> QED BY <3>1
  <2> QED BY <2>1, <2>2
<1>3. child[u].pc \in Staged => stage'[child[u].stage] = stage[child[u].stage]
  <2> SUFFICES ASSUME child[u].pc \in Staged
               PROVE  stage'[child[u].stage] = stage[child[u].stage]
    OBVIOUS
  <2>1. child[u].stage \in StageIds /\ child[u].stage # child[w].stage
        /\ stage \in [StageIds -> (SUBSET Files) \cup {None}]
    BY TypeParts, WorkersAssumption DEF TypeOK, ChildTyped, StagesApart, Staged
  <2>2. CASE Mkdir(w)
    <3>1. PICK i \in StageIds :
            /\ ~InUse(i)
            /\ stage' = [stage EXCEPT ![i] = IF @ = None THEN {} ELSE @] \/ UNCHANGED stage
      BY <2>2, MkdirTyped
    <3>2. child[u].stage # i
      BY <3>1 DEF InUse
    <3> QED BY <2>1, <3>1, <3>2
  <2>3. CASE Upload(w) \/ DeleteStage(w)
    BY <2>1, <2>3 DEF Upload, DeleteStage
  <2>4. CASE ~Mkdir(w) /\ ~Upload(w) /\ ~DeleteStage(w)
    <3>1. UNCHANGED stage
      BY <2>4 DEF WorkerStep, Subscribe, Commit, Poll, Crash, ChildStep, Download, Nfdump,
         DropTable, CreateTable, Insert, RemoveLocal, ChildFails, hdfsVars
    <3> QED BY <3>1
  <2> QED BY <2>2, <2>3, <2>4
<1>4. At(u, "insert") => flow_tmp' = flow_tmp
  <2> SUFFICES ASSUME At(u, "insert") PROVE flow_tmp' = flow_tmp
    OBVIOUS
  <2>1. ~DropTable(w)
    BY DEF DropTable
  <2>2. ~CreateTable(w)
    <3>1. flow_tmp # None
      BY TypeParts DEF LoadInv, OwnStage, ChildTyped, Staged, At
    <3> QED BY <3>1 DEF CreateTable
  <2> QED BY <2>1, <2>2 DEF WorkerStep, Subscribe, Commit, Poll, Crash, ChildStep, Download,
      Nfdump, Mkdir, Upload, Insert, DeleteStage, RemoveLocal, ChildFails, hiveVars
<1>5. OwnStage(u)' /\ RowsOf(u)'
  BY <1>1, <1>2, <1>3, <1>4 DEF LoadInv, OwnStage, RowsOf, At, File, Staged
<1>6. ASSUME NEW f \in Files
      PROVE  flow'[<<u, f, Hour[f]>>] + LoadsLeft(u, f)' <= 1 + crashes'
  <2>1. flow[<<u, f, Hour[f]>>] + LoadsLeft(u, f) <= 1 + crashes
    BY DEF LoadInv, OncePerMessage
  <2>2. flow'[<<u, f, Hour[f]>>] = flow[<<u, f, Hour[f]>>] /\ flow[<<u, f, Hour[f]>>] \in Nat
    BY <1>2 DEF TypeOK, Hours
  <2>3. (InHand(u, f)' <=> InHand(u, f)) /\ (Coming(u, f)' <=> Coming(u, f))
    BY <1>1 DEF InHand, Coming, File
  <2>4. LoadsLeft(u, f)' = LoadsLeft(u, f) /\ LoadsLeft(u, f) \in {0, 1, 2}
    BY <2>3 DEF LoadsLeft
  <2> QED BY <1>1, <2>1, <2>2, <2>4
<1> QED BY <1>1, <1>5, <1>6 DEF LoadInv, OncePerMessage

\* A directory that is not in use is nobody else's.
LEMMA StagesStayApart ==
  ASSUME NEW w \in Workers, StagesApart, TypeOK, ~clash',
         WorkerStep(w) \/ Commit(w) \/ Crash(w)
  PROVE  StagesApart'
<1>1. \A v \in Workers : v # w => child'[v] = child[v]
  BY DEF TypeOK, WorkerStep, Subscribe, Commit, Poll, Crash, ChildStep, Download, Nfdump, Mkdir,
     Upload, DropTable, CreateTable, Insert, DeleteStage, RemoveLocal, ChildFails, Goto
<1>2. \/ child'[w].stage \in {None, child[w].stage}
      \/ \A v \in Workers : v # w => child'[w].stage # child[v].stage
  <2>1. CASE Mkdir(w)
    <3>1. PICK i \in StageIds : ~InUse(i) /\ child'[w].stage = i
      BY <2>1, MkdirTyped
    <3> QED BY <3>1 DEF InUse
  <2>2. CASE RemoveLocal(w) \/ ChildFails(w) \/ Crash(w)
    BY <2>2, EndTyped DEF NoChild
  <2>3. CASE Poll(w)
    <3>1. child'[w] = [NoChild EXCEPT !.pc = "download", !.file = log[position[w] + 1]]
      BY <2>3 DEF Poll, TypeOK
    <3> QED BY <3>1 DEF NoChild
  <2>4. CASE Subscribe(w) \/ Commit(w)
    BY <2>4 DEF Subscribe, Commit
  <2>5. CASE \/ Download(w) \/ Nfdump(w) \/ Upload(w) \/ DropTable(w) \/ CreateTable(w)
             \/ Insert(w) \/ DeleteStage(w)
    <3>1. child[w] \in [pc : ChildPcs, file : Files \cup {None}, stage : StageIds \cup {None}]
          /\ DOMAIN child = Workers
      BY DEF TypeOK
    <3>2. \E p \in ChildPcs : child' = [child EXCEPT ![w].pc = p]
      BY <2>5 DEF Download, Nfdump, Upload, DropTable, CreateTable, Insert, DeleteStage, Goto,
                  ChildPcs
    <3> QED BY <3>1, <3>2
  <2> QED BY <2>1, <2>2, <2>3, <2>4, <2>5 DEF WorkerStep, ChildStep
<1> QED BY <1>1, <1>2 DEF StagesApart

\* Once two workers met, they have met.
LEMMA ClashStays ==
  ASSUME TypeOK, [Next]_vars, ~clash'
  PROVE  ~clash
<1>1. CASE UNCHANGED vars
  BY <1>1 DEF vars, hiveVars
<1>2. ASSUME NEW f \in Files, Arrive(f) PROVE ~clash
  BY <1>2 DEF Arrive, hiveVars
<1>3. ASSUME NEW w \in Workers, WorkerStep(w) \/ Commit(w) \/ Crash(w) PROVE ~clash
  BY <1>3 DEF WorkerStep, Subscribe, Commit, Poll, Crash, ChildStep, Download, Nfdump, Mkdir,
     Upload, DropTable, CreateTable, Insert, DeleteStage, RemoveLocal, ChildFails, hiveVars
<1> QED BY <1>1, <1>2, <1>3 DEF Next

\* Every step of any worker.
LEMMA LoadStep ==
  ASSUME TypeOK, WorkersInv, [Next]_vars
  PROVE  WorkersInv'
<1> SUFFICES ASSUME ~clash' PROVE StagesApart' /\ \A w \in Workers : LoadInv(w)'
  BY DEF WorkersInv
<1>1. ~clash /\ StagesApart /\ \A w \in Workers : LoadInv(w)
  BY ClashStays DEF WorkersInv
<1>2. CASE UNCHANGED vars
  <2>1. UNCHANGED <<log, position, binary, child, stage, flow_tmp, flow, crashes>>
    BY <1>2 DEF vars, kafkaVars, hdfsVars, hiveVars, bounds
  <2> QED BY <1>1, <2>1 DEF LoadInv, OwnStage, RowsOf, OncePerMessage, LoadsLeft,
                            InHand, Coming, At, File, StagesApart
<1>3. ASSUME NEW w \in Workers, WorkerStep(w) \/ Commit(w) \/ Crash(w)
      PROVE  StagesApart' /\ \A u \in Workers : LoadInv(u)'
  <2>1. LoadInv(w)'
    BY <1>1, <1>3, ChildLoads, InsertLoads, PollLoads, QuietLoads, CrashLoads
    DEF WorkerStep, ChildStep
  <2>2. \A u \in Workers : u # w => LoadInv(u)'
    BY <1>1, <1>3, OthersKeep
  <2> QED BY <1>1, <1>3, <2>1, <2>2, StagesStayApart
<1>4. ASSUME NEW f \in Files, Arrive(f)
      PROVE  StagesApart' /\ \A u \in Workers : LoadInv(u)'
  <2>1. UNCHANGED child
    BY <1>4 DEF Arrive
  <2> QED BY <1>1, <1>4, <2>1, ArriveLoads DEF StagesApart
<1> QED BY <1>2, <1>3, <1>4 DEF Next

\* The invariant of the workers.
LEMMA LoadInvariant == Spec => []WorkersInv
<1>1. Init => WorkersInv
  <2> SUFFICES ASSUME Init, NEW w \in Workers PROVE StagesApart /\ LoadInv(w)
    BY DEF WorkersInv, StagesApart
  <2>1. /\ log = << >> /\ crashes = 0 /\ child[w].pc = "poll" /\ position[w] = None
        /\ \A v \in Workers : child[v].stage = None
        /\ \A f \in Files, h \in Hours : flow[<<w, f, h>>] = 0
    BY DEF Init, NoChild
  <2>2. \A f \in Files : flow[<<w, f, Hour[f]>>] = 0
    BY <2>1 DEF Hours
  <2>3. \A f \in Files : LoadsLeft(w, f) = 1
    <3>1. ASSUME NEW f \in Files
          PROVE  (IF InHand(w, f) THEN 1 ELSE 0) = 0 /\ (IF Coming(w, f) THEN 1 ELSE 0) = 1
      BY <2>1 DEF InHand, Coming, BeforeRows
    <3>2. 0 + 1 = 1
      OBVIOUS
    <3> QED BY <3>1, <3>2 DEF LoadsLeft
  <2> QED BY <2>1, <2>2, <2>3
          DEF LoadInv, OwnStage, RowsOf, OncePerMessage, At, StagesApart
<1>2. TypeOK /\ WorkersInv /\ [Next]_vars => WorkersInv'
  BY LoadStep
<1> QED BY <1>1, <1>2, TypeCorrect, PTL DEF Spec

\* RowsInTheirPartition: any number of workers, whatever fails and whenever they are
\* killed, load files into the partition of their hour and into no other, until one
\* drops the table under another or two of them share a stage directory.
THEOREM WorkersPartition == Spec => []RowsInTheirPartition
<1>1. WorkersInv => RowsInTheirPartition
  BY DEF WorkersInv, LoadInv, RowsOf, RowsInTheirPartition
<1> QED BY <1>1, LoadInvariant, PTL

\* LoadedOncePerDelivery: with the same exception, each worker loads no file more
\* often than once, and once more for each crash.
THEOREM WorkersLoadOnce == Spec => []LoadedOncePerDelivery
<1>1. TypeOK /\ WorkersInv => LoadedOncePerDelivery
  <2> SUFFICES ASSUME TypeOK, WorkersInv, ~clash, NEW w \in Workers, NEW f \in Files
               PROVE  flow[<<w, f, Hour[f]>>] <= 1 + crashes
    BY DEF LoadedOncePerDelivery
  <2>1. flow[<<w, f, Hour[f]>>] + LoadsLeft(w, f) <= 1 + crashes
    BY DEF WorkersInv, LoadInv, OncePerMessage
  <2>2. flow[<<w, f, Hour[f]>>] \in Nat /\ crashes \in Nat
    BY DEF TypeOK, Hours
  <2>3. LoadsLeft(w, f) \in {0, 1, 2}
    BY DEF LoadsLeft
  <2> QED BY <2>1, <2>2, <2>3
<1> QED BY <1>1, LoadInvariant, TypeCorrect, PTL

=============================================================================
