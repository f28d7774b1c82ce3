---------------------------- MODULE MCArrayStore ----------------------------
(***************************************************************************)
(* ArrayStore with a table of three slots and four keys: capacity two, so *)
(* the full table, holes before and after stored items, and slots refilled *)
(* out of order are all reached.                                           *)
(***************************************************************************)
EXTENDS ArrayStore, TLC

CONSTANTS k1, k2, k3, k4, v1, v2

MCKey == {k1, k2, k3, k4}
MCValue == {v1, v2}
=============================================================================
