---------------------------- MODULE ProxyRecords ----------------------------
(***************************************************************************)
(* What the jobs and the API read of a record of the proxy table.          *)
(***************************************************************************)
EXTENDS Functions

CONSTANTS
  Uri             \* [connections -> URIs]: fulluri

Uris == Range(Uri)

=============================================================================
