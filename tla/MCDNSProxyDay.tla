---------------------------- MODULE MCDNSProxyDay ----------------------------
(***************************************************************************)
(* Instances of DNSProxyDay: three connections of one client, the first    *)
(* two with one query name, one URI and one hour; the model finds all, of  *)
(* which the job shows two, or the second only.                            *)
(***************************************************************************)
EXTENDS DNSProxyDay

CONSTANTS c1, c2, c3, client, name1, name2, uri1, uri2

MCClient == [c \in Conns |-> client]
MCName == [c \in Conns |-> IF c \in {c1, c2} THEN name1 ELSE name2]
MCUri == [c \in Conns |-> IF c \in {c1, c2} THEN uri1 ELSE uri2]
MCAlike == [c \in Conns |-> IF c \in {c1, c2} THEN {c1, c2} ELSE {c3}]
MCTables == DNSTables \cup ProxyTables
MCResults == {<< c1, c2, c3 >>, << c2 >>}

\* Four jobs and requests without a fault, three with one; and no request while the
\* machine learning runs, as there are in FlowDay.
Bounded ==
  /\ starts + faults <= 4
  /\ api # "idle" => ml \in {"idle", "unreadable"}
=============================================================================
