--------------------------- MODULE MCReportHistory ---------------------------
(* The constants of MCReportCollection, for the refinement. *)
EXTENDS ReportCollectionHistory, MCReportCollection
=============================================================================
