----------------------------- MODULE DNSRecords -----------------------------
(***************************************************************************)
(* What the jobs and the API read of a record of the dns table.            *)
(***************************************************************************)
EXTENDS Functions

CONSTANTS
  Client,         \* [connections -> addresses]: ip_dst
  Name            \* [connections -> names]: dns_qry_name

Clients == Range(Client)
Names   == Range(Name)

=============================================================================
