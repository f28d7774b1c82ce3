---------------------------- MODULE MCHashTable ----------------------------
(***************************************************************************)
(* HashTable with two buckets: three keys share the first, one has the     *)
(* second for itself, so that deletes hit the head, the middle and the end *)
(* of a chain and both kinds of miss occur.                                *)
(***************************************************************************)
EXTENDS HashTable, TLC

CONSTANTS k1, k2, k3, k4, v1, v2

MCKey == {k1, k2, k3, k4}
MCValue == {v1, v2}
MCHash == k1 :> 0 @@ k2 :> 0 @@ k3 :> 0 @@ k4 :> 1
NoKey == {}
=============================================================================
