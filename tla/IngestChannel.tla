---------------------------- MODULE IngestChannel ----------------------------
(***************************************************************************)
(* What a classic collector promises its workers, whatever fails: the      *)
(* files are announced in the order in which they arrived, each at most    *)
(* once per arrival.  A file may be passed over.                           *)
(***************************************************************************)
EXTENDS Naturals, Sequences

CONSTANT Files

VARIABLES
  arrived,      \* the files, in the order of their arrival
  passed,       \* how many of them have been announced or passed over
  announced     \* those announced

Init == arrived = << >> /\ passed = 0 /\ announced = << >>

Arrive(f) ==
  /\ arrived' = Append(arrived, f)
  /\ UNCHANGED <<passed, announced>>

Announce ==
  /\ passed < Len(arrived)
  /\ passed' = passed + 1
  /\ announced' = Append(announced, arrived[passed + 1])
  /\ UNCHANGED arrived

PassOver ==
  /\ passed' \in passed + 1 .. Len(arrived)
  /\ UNCHANGED <<arrived, announced>>

Next == (\E f \in Files : Arrive(f)) \/ Announce \/ PassOver

Spec == Init /\ [][Next]_<<arrived, passed, announced>>

=============================================================================
