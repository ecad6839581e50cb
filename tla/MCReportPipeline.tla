--------------------------- MODULE MCReportPipeline ---------------------------
(***************************************************************************)
(* Two sections and two texts: one clean anywhere, one clean in the first  *)
(* section only (a verifier may depend on the section it checks).          *)
(***************************************************************************)
EXTENDS ReportPipeline, TLC

CONSTANTS s1, s2, plain, local

MCSections == {s1, s2}
MCTexts == {plain, local}
MCClean == {<<s1, plain>>, <<s2, plain>>, <<s1, local>>}
================================================================================
