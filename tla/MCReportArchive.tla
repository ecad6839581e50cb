---------------------------- MODULE MCReportArchive ----------------------------
(***************************************************************************)
(* Small instances of ReportArchive. Threads, months and documents are     *)
(* compared for equality only, and every property quantifies over all of   *)
(* them, so each set may be permuted.                                      *)
(***************************************************************************)
EXTENDS ReportArchive, TLC

Interchangeable ==
    Permutations(Workers) \cup Permutations(Months) \cup Permutations(Docs)
================================================================================
