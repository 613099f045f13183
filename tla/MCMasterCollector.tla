-------------------------- MODULE MCMasterCollector --------------------------
(***************************************************************************)
(* An instance of MasterCollector: two raw files, one whose name has no    *)
(* date and one that nfcapd is still writing.                              *)
(***************************************************************************)
EXTENDS MasterCollector

CONSTANTS current, a, b, undated

=============================================================================
