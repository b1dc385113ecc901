--------------------------- MODULE MCDumpSummary ---------------------------
(* Error types and programs of DumpSummary are interchangeable; SAP's clock *)
(* is the host's, or half a day ahead of it or behind.                      *)
EXTENDS DumpSummary, TLC

Symmetric == Permutations(Errors) \cup Permutations(Programs)
Zones == {-1, 0, 1}
============================================================================
