--------------------------- MODULE MCInvestigation ---------------------------
EXTENDS Investigation

MCFiles == [flow |-> {"ipranges", "iploc"}, dns |-> {"iana", "nc"}, proxy |-> {"iana", "nc"}]

\* Neighbouring and distant months of three years
MCCalendar == [y : 1 .. 3, m : {1, 2, 3, 12}, d : {1, 2}]

=============================================================================
