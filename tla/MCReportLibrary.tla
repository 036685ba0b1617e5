--------------------------- MODULE MCReportLibrary ---------------------------
(* Small instance of ReportLibrary for TLC. *)
EXTENDS ReportLibrary, TLC

\* Names in the trash are random.
Symmetry == Permutations(Slots)

==============================================================================
