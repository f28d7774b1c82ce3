------------------------------ MODULE MCRBTree ------------------------------
(***************************************************************************)
(* RBTree.  Ten keys are the fewest with which a delete fixup moves up    *)
(* twice (eight for an insert fixup); the deep run has only the commands   *)
(* that change the tree.                                                   *)
(***************************************************************************)
EXTENDS RBTree

CONSTANTS v1, v2

FewKeys == 1 .. 4
ManyKeys == 1 .. 10
OneValue == {v1}
TwoValues == {v1, v2}

ChangingSpec ==
    /\ Init
    /\ [][\/ \E k \in Key, v \in Value : CmdRSET(k, v)
          \/ \E k \in Key : CmdRDELETE(k)
          \/ Engine]_vars

\* No action reads the last answer and no invariant of the deep run does.
WithoutReply == <<T, value, nb_elements, loop, at, req>>
=============================================================================
