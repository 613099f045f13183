---------------------------- MODULE MCFlowWorkers ----------------------------
(***************************************************************************)
(* Instances of FlowWorkers: two raw files of different hours, one or two  *)
(* workers, on one host or on two.                                         *)
(***************************************************************************)
EXTENDS FlowWorkers

CONSTANTS f1, f2, h1, h2,
          SameHost      \* whether the workers run on one host

MCHour == [f \in Files |-> IF f = f1 THEN h1 ELSE h2]

MCHostOf == [w \in Workers |-> IF SameHost THEN "host" ELSE w]

=============================================================================
