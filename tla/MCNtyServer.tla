---------------------------- MODULE MCNtyServer ----------------------------
(***************************************************************************)
(* NtyServer with two or three clients.  Three clients on two descriptors  *)
(* reach the open-file limit and the reuse of descriptors; the client that *)
(* sends ahead reaches the blocked and the failed send.                    *)
(***************************************************************************)
EXTENDS NtyServer

MCClients2 == 1 .. 2
MCClients3 == 1 .. 3
MCFds == {6, 7}
MCJunk == {0}
MCPolite == [c \in MCClients2 |-> 1]
MCOneAhead == [c \in MCClients3 |-> IF c = 1 THEN 2 ELSE 1]
=============================================================================
