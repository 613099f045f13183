------------------------ MODULE MCDistributedCollector ------------------------
(***************************************************************************)
(* Instances of DistributedCollector: two processes; a file of two         *)
(* segments, one of one segment, one whose second segment is never made    *)
(* because a date cannot be parsed, and another that is not supported in   *)
(* the run with a conversion.  In the run without one, two files share a   *)
(* base name.                                                              *)
(***************************************************************************)
EXTENDS DistributedCollector

CONSTANTS two,      \* a file of two segments
          one,      \* a file of one
          broken,   \* a file with a date that cannot be parsed
          other,    \* another file, whose name may not be supported
          SameName  \* whether `one' and `broken' have one base name

MCNumSegs == [p \in Paths |-> IF p = two THEN 2 ELSE 1]

MCEnding == [p \in Paths |-> IF p = broken THEN "ValueError" ELSE "done"]

MCName == [p \in Paths |-> IF SameName /\ p = broken THEN one ELSE p]

Symmetry == Permutations(Workers)

=============================================================================
