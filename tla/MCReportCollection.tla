------------------------- MODULE MCReportCollection -------------------------
(* Values of the constants for the runs of ReportCollection. *)
EXTENDS ReportCollection, TLC

CONSTANTS t1, t2, j1, j2, c1, c2, k1, k2, k3, ok

OneTab == {t1}
TwoTabs == {t1, t2}
OneJob == {j1}
TwoJobs == {j1, j2}
OneKey == {k1}
TwoKeys == {k1, k2}
ThreeKeys == {k1, k2, k3}
OneConnection == {c1}
TwoConnections == {c1, c2}
OneResponse == {ok}

AllV2 == [key \in Keys |-> "v2"]
AllV3 == [key \in Keys |-> "v3"]
OneByte == [response \in Responses |-> 1]
SameConnection == [t \in Tabs |-> c1]
OwnConnection == [t \in Tabs |-> IF t = t1 THEN c1 ELSE c2]

(* Tabs and job ids are only compared with each other. *)
SameTabs == Permutations(Tabs) \cup Permutations(JobIds)
SameJobs == Permutations(JobIds)
=============================================================================
