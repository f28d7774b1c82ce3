------------------------------ MODULE MCNtyCo ------------------------------
(***************************************************************************)
(* NtyCo with two coroutines and two descriptors.  The hooks used differ   *)
(* in what they poll for and have between them every kind of outcome; the  *)
(* others (recv, connect, ...) do what one of these does with outcomes     *)
(* left out, or are the same record.                                       *)
(***************************************************************************)
EXTENDS NtyCo

CONSTANTS a, b

MCCo == {a, b}
MCFd == {3, 4}
MCUsed == {accept, recvfrom, send, nty_sendto}
MCMsecs == {0, 1}
=============================================================================
