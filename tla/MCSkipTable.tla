---------------------------- MODULE MCSkipTable ----------------------------
(***************************************************************************)
(* SkipTable with three keys and three levels: nodes of every height stand *)
(* before, between and after the key a search looks for.                   *)
(***************************************************************************)
EXTENDS SkipTable

CONSTANTS v1, v2

MCKey == 1 .. 3
MCValue == {v1, v2}
=============================================================================
