------------------------------ MODULE MCFlowDay ------------------------------
(***************************************************************************)
(* Instances of FlowDay: three connections of one source, of which two are *)
(* shown; the model finds all three or the last.  The last two are of one  *)
(* pair of addresses and one minute.                                       *)
(***************************************************************************)
EXTENDS FlowDay

CONSTANTS c1, c2, c3, host, peer1, peer2

MCSrc == [c \in Conns |-> host]
MCDst == [c \in Conns |-> IF c = c1 THEN peer1 ELSE peer2]
MCResults == {<< c1, c2, c3 >>, << c3 >>}
MCAlike == [c \in Conns |-> IF c = c1 THEN {c1} ELSE {c2, c3}]
MCCriteria == {Conns}

\* Four jobs and requests without a fault, three with one.
Bounded == starts + faults <= 4
=============================================================================
