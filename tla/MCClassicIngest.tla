--------------------------- MODULE MCClassicIngest ---------------------------
(***************************************************************************)
(* An instance of ClassicIngest: two raw files, one file still written by  *)
(* nfcapd that is renamed to one of them, one worker.                      *)
(***************************************************************************)
EXTENDS ClassicIngest

CONSTANTS current, a, b

=============================================================================
