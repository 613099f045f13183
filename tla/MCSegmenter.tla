---------------------------- MODULE MCSegmenter ----------------------------
(***************************************************************************)
(* Instances of Segmenter: every file of at most MaxLines lines over two   *)
(* hours and two sizes.  With MaxReqSize = 4 a segment takes up to three   *)
(* small lines, a small and a big one, and a big line alone may fill it.   *)
(***************************************************************************)
EXTENDS Segmenter

CONSTANTS MaxLines,     \* bound on the length of a file
          Kinds         \* the kinds of line the files are made of

Hours == {1, 2}
Sizes == {1, 4}

\* The epoch is one instant: its line is of one hour and of one size.
MCLine == {l \in [kind : Kinds, hour : Hours, size : Sizes] :
             /\ l.kind \in {"skip", "short", "epoch"} => l.hour = 1 /\ l.size = 1
             /\ l.kind = "bad" => l.size = 1}

MCFiles == UNION {[1 .. n -> MCLine] : n \in 0 .. MaxLines}

============================================================
