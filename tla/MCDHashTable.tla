---------------------------- MODULE MCDHashTable ----------------------------
(***************************************************************************)
(* DHashTable with two buckets and three keys, two of them in one bucket,  *)
(* so that nodes of one key lie between nodes of the other.                *)
(***************************************************************************)
EXTENDS DHashTable, TLC

CONSTANTS k1, k2, k3, v1, v2

MCKey == {k1, k2, k3}
MCValue == {v1, v2}
MCHash == k1 :> 0 @@ k2 :> 0 @@ k3 :> 1
=============================================================================
