------------------------------- MODULE Settling -------------------------------
(***************************************************************************)
(* What asking for the conditions of a product promises: the answer may be *)
(* open for a while, and once it is given it stands.                       *)
(***************************************************************************)
VARIABLE answer

SettlingInit == answer = "UNKNOWN"

Settle == answer = "UNKNOWN" /\ answer' \in {"PASS", "FAIL"}

SettlingSpec == SettlingInit /\ [][Settle]_answer
===============================================================================
