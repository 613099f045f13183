---------------------------- MODULE ClassicIngest ----------------------------
(***************************************************************************)
(* The classic flow ingest from the collector's directory to the table: a  *)
(* MasterCollector of one process and the FlowWorkers, which share the     *)
(* topic and the HDFS directory of the raw files.                          *)
(*                                                                         *)
(* No call fails and nobody is killed here; what happens then is for       *)
(* MasterCollector and FlowWorkers alone.                                  *)
(***************************************************************************)
EXTENDS MasterCollector, Functions

CONSTANTS Workers, StageIds

VARIABLES position, committed, child, local, csv, stage, flow_tmp, flow, clash, successes

workerVars == <<position, committed, child, local, csv, stage, flow_tmp, flow, clash,
                successes>>

HourOf == [p \in Dated |-> "hour"]
OneHost == [w \in Workers |-> "host"]

InHDFS == {p \in Paths : binary[p] # 0}

\* The workers, which read the files in HDFS.
W == INSTANCE FlowWorkers WITH
  Files <- Dated, Hour <- HourOf, HostOf <- OneHost,
  ResetSmallest <- TRUE, MaxCrashes <- 0, MaxMessages <- MaxCreated,
  binary <- InHDFS, log <- topic, crashes <- 0

IngestInit ==
  /\ Init
  /\ pipeline = "flow" /\ processes = 1
  /\ W!Init

\* nfcapd names its files by their time: no two detected have one name.
ObserveOnce == Observe /\ IsInjective(detected')

CollectorStep ==
  /\ ObserveOnce \/ Start \/ MainStep
  /\ UNCHANGED workerVars

WorkersStep ==
  /\ UNCHANGED vars
  /\ \E w \in Workers : W!WorkerStep(w) \/ W!Commit(w)

IngestNext == CollectorStep \/ WorkersStep

IngestSpec ==
  /\ IngestInit /\ [][IngestNext]_<<vars, workerVars>>
  /\ WF_<<vars, workerVars>>(MainStep /\ UNCHANGED workerVars)
  /\ \A w \in Workers :
       WF_<<vars, workerVars>>(UNCHANGED vars /\ W!WorkerStep(w))

-----------------------------------------------------------------------------
(* Properties *)

\* The workers as they are modelled alone: a file is there for them from its
\* message on.
Stub == INSTANCE FlowWorkers WITH
  Files <- Dated, Hour <- HourOf, HostOf <- OneHost,
  ResetSmallest <- TRUE, MaxCrashes <- 0, MaxMessages <- MaxCreated,
  binary <- Announced, log <- topic, crashes <- 0

\* What FlowWorkers takes for granted of the collector (Arrive: a new file is in
\* HDFS when its path is sent, once) holds of this one: the composition
\* implements FlowWorkers.
WorkersAsAlone == Stub!Spec

\* worker.py and master_collector.py together: every file that the watcher
\* detects ends up in the table, whichever stage directories the children share
\* one after the other.
EveryFileLoaded ==
  \A f \in Dated : (\E i \in DOMAIN detected : detected[i] = f)
    ~> \E w \in Workers : flow[<<w, f, "hour">>] > 0

=============================================================================
