---------------------------- MODULE MCReportStore ----------------------------
(* Two jobs on two connections, one key of each API, responses of two sizes. *)
EXTENDS ReportStoreClients, TLC

CONSTANTS j1, j2, c1, c2, k1, k2, small, large

MCJobIds == {j1, j2}
MCConnections == {c1, c2}
MCKeys == {k1, k2}
MCResponses == {small, large}
MCApiOf == [key \in MCKeys |-> IF key = k1 THEN "v2" ELSE "v3"]
MCByteLength == [response \in MCResponses |-> IF response = small THEN 1 ELSE 2]

(* Job ids and connections are only compared with each other. *)
Symmetry == Permutations(MCJobIds) \cup Permutations(MCConnections)
=============================================================================
